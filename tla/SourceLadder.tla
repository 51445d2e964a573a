---------------------------- MODULE SourceLadder ----------------------------
(***************************************************************************)
(* The fetcher one run's readers share, and the ladder it climbs when the  *)
(* cited page yields no body: registries that know whether the source      *)
(* exists, archives that may hold a free copy, a service that renders the  *)
(* page.  Each reader is a thread that fetches one address at a time; the  *)
(* three caches and the budgets are all the threads share, and no lock is  *)
(* held while a request is out.                                            *)
(***************************************************************************)
EXTENDS SourceOutcomes

CONSTANTS
    Readers,        \* threads
    Urls,
    Carries,        \* [Urls -> the identifiers its text carries]
    Registries,     \* sequence of tier 0 providers, <<>> when the tier is off
    Archives,       \* sequence of tier 1 providers
    Renders,        \* tier 2 is enabled
    Limits,         \* [Tiers -> calls a run may spend]
    PageAnswers, PdfAnswers, Answering, Rendering   \* the answers servers give

ASSUME LadderConstants ==
    /\ \A u \in Urls : \A d, e \in Carries[u] : d.kind = e.kind => d = e
    /\ \A i \in DOMAIN Registries : \E k \in ToSet(IdKinds) : Supports(Registries[i], k)
    /\ Limits \in [{"identifier", "open_access", "extraction"} -> Nat]
    /\ PageAnswers \subseteq Answer /\ PdfAnswers \subseteq Answer

Idents == UNION {Extract(Carries[u]) : u \in Urls}
NoSource == [outcome |-> "none"]

VARIABLES
    cache,      \* [Urls -> a result or NoSource]
    known,      \* [Idents -> what tier 0 concluded]
    copies,     \* [Idents -> "unasked", "none" or "copy"]
    spent,      \* [Tiers -> calls taken from its budget]
    call        \* [Readers -> the fetch in progress]

ladder == <<cache, known, copies, spent, call>>

Unasked == [exists |-> "unasked", starved |-> FALSE, sure |-> TRUE]
Idle == [at |-> "out"]

LadderInit ==
    /\ cache = [u \in Urls |-> NoSource]
    /\ known = [d \in Idents |-> Unasked]
    /\ copies = [d \in Idents |-> "unasked"]
    /\ spent = [t \in {"identifier", "open_access", "extraction"} |-> 0]
    /\ call = [r \in Readers |-> Idle]

-----------------------------------------------------------------------------
HasIdent(u) == Extract(Carries[u]) # {}
IdentOf(u) == CHOOSE d \in Extract(Carries[u]) : TRUE
Mine(r) == IdentOf(call[r].url)

Asked(providers, d) == SelectSeq(providers, LAMBDA p : Supports(p, d.kind))

Affordable(tier) == spent[tier] < Limits[tier]
Take(tier) == spent' = [spent EXCEPT ![tier] = @ + 1]

Become(r, c) == call' = [call EXCEPT ![r] = c]

(* A fetch that has its result, and the way to the paid rung for one that  *)
(* has no body: never for a page that is known to be absent.               *)
Done(c, result) == [c EXCEPT !.at = "store", !.result = result]
Free(c, result) ==
    IF Renders /\ ~ Readable(result) /\ result.outcome # "not_found"
    THEN [c EXCEPT !.at = "extract", !.result = result]
    ELSE Done(c, result)

(* SourceFetcher.fetch: the cache is looked up under its lock, and a miss  *)
(* leaves the lock before the request.                                     *)
Fetch(r, u) ==
    /\ call[r].at = "out"
    /\ Become(r, IF cache[u] # NoSource
                 THEN [at |-> "done", url |-> u, result |-> cache[u]]
                 ELSE [at |-> "get", url |-> u, i |-> 1, direct |-> NoSource, denied |-> FALSE,
                       found |-> FALSE, starved |-> FALSE, sure |-> TRUE,
                       verdict |-> Unasked, result |-> NoSource])
    /\ UNCHANGED <<cache, known, copies, spent>>

(* The direct request; without a body, the ladder, whose first rung is     *)
(* for addresses that name something.                                      *)
Get(r) ==
    /\ call[r].at = "get"
    /\ \E a \in PageAnswers, b \in PdfAnswers :
         LET direct == FetchUncached(a, b)
             c == [call[r] EXCEPT !.direct = direct]
         IN Become(r, IF Readable(direct) THEN Done(c, direct)
                      ELSE IF HasIdent(c.url) THEN [c EXCEPT !.at = "identify"]
                      ELSE Free(c, direct))
    /\ UNCHANGED <<cache, known, copies, spent>>

-----------------------------------------------------------------------------
(* Tier 0.  What is known of the identifier already is taken as it is.     *)
Identify(r) ==
    /\ call[r].at = "identify"
    /\ Become(r, IF known[Mine(r)] = Unasked THEN [call[r] EXCEPT !.at = "registry"]
                 ELSE [call[r] EXCEPT !.at = "copies", !.verdict = known[Mine(r)]])
    /\ UNCHANGED <<cache, known, copies, spent>>

(* One registry that covers this kind of identifier.  All of them are      *)
(* asked: a record does not stop the others, an empty budget does.         *)
AskRegistry(r) ==
    LET c == call[r]
        asked == Asked(Registries, Mine(r))
        p == asked[c.i]
    IN /\ c.at = "registry" /\ c.i <= Len(asked) /\ ~ c.starved
       /\ IF ~ Affordable("identifier")
          THEN Become(r, [c EXCEPT !.starved = TRUE]) /\ UNCHANGED spent
          ELSE /\ Take("identifier")
               /\ \E a \in Answering :
                    LET m == Metadata(p, a)
                        denial == m = "none" /\ Authoritative(p, Mine(r).kind)
                    IN Become(r, [c EXCEPT !.i = @ + 1,
                                           !.found = @ \/ m = "record",
                                           !.denied = @ \/ denial,
                                           !.sure = @ /\ (denial => Denies(a))])
       /\ UNCHANGED <<cache, known, copies>>

Concluded(c) ==
    [exists |-> CASE c.found -> "yes" [] ~ c.found /\ c.denied /\ ~ c.starved -> "no"
                  [] OTHER -> "unsure",
     starved |-> ~ c.found /\ c.starved, sure |-> c.sure]

(* Fault: the thread's own conclusion replaces what another concluded.     *)
ConcludedAnew(d, own) == own

(* The first conclusion about an identifier is everybody's.                *)
FirstConcluded(d, own) == IF known[d] = Unasked THEN own ELSE known[d]

ConcludeIdentity(r) ==
    LET c == call[r]  d == Mine(r)  verdict == FirstConcluded(d, Concluded(c)) IN
    /\ c.at = "registry" /\ (c.starved \/ c.i > Len(Asked(Registries, d)))
    /\ known' = [known EXCEPT ![d] = verdict]
    /\ Become(r, [c EXCEPT !.at = "copies", !.verdict = verdict, !.starved = FALSE])
    /\ UNCHANGED <<cache, copies, spent>>

-----------------------------------------------------------------------------
(* The verdict of the free rungs when no body was found on them.  Absence  *)
(* is concluded only from registries that deny the identifier and a page   *)
(* that established nothing; a lack of calls never hides an absence.       *)
Unestablished == {"not_found", "error"}

(* Fault: an empty budget is reported whatever the page said.              *)
FreeVerdictStarved(direct, verdict, starved) ==
    IF verdict.starved \/ starved THEN [direct EXCEPT !.outcome = "budget_exhausted"] ELSE direct

FreeVerdict(direct, verdict, starved) ==
    LET absent == verdict.exists = "no" /\ direct.outcome \in Unestablished
        short == (verdict.starved \/ starved) /\ direct.outcome # "not_found"
    IN CASE verdict.exists = "yes" ->
              [direct EXCEPT !.tier = "identifier",
                             !.outcome = IF direct.outcome = "blocked" THEN "paywalled"
                                         ELSE "metadata_only"]
         [] absent -> [direct EXCEPT !.outcome = "not_found", !.tier = "identifier"]
         [] verdict.exists # "yes" /\ ~ absent /\ short ->
              [direct EXCEPT !.outcome = "budget_exhausted"]
         [] OTHER -> direct

Bodiless(c, starved) == Free(c, FreeVerdict(c.direct, c.verdict, starved))

(* Tier 1.  An identifier every registry denied has no copy worth a call.  *)
Copies(r) ==
    LET c == call[r] IN
    /\ c.at = "copies"
    /\ Become(r, CASE c.verdict.exists = "no" \/ copies[Mine(r)] = "none" -> Bodiless(c, FALSE)
                   [] c.verdict.exists # "no" /\ copies[Mine(r)] = "copy" ->
                        [c EXCEPT !.at = "mirror"]
                   [] OTHER -> [c EXCEPT !.at = "archive", !.i = 1, !.found = FALSE])
    /\ UNCHANGED <<cache, known, copies, spent>>

(* One archive; the first that names a copy is the last that is asked.     *)
AskArchive(r) ==
    LET c == call[r]
        asked == Asked(Archives, Mine(r))
    IN /\ c.at = "archive" /\ c.i <= Len(asked) /\ ~ c.starved /\ ~ c.found
       /\ IF ~ Affordable("open_access")
          THEN Become(r, [c EXCEPT !.starved = TRUE]) /\ UNCHANGED spent
          ELSE /\ Take("open_access")
               /\ \E a \in Answering :
                    Become(r, [c EXCEPT !.i = @ + 1,
                                        !.found = OpenAccessUrl(asked[c.i], a) = "copy"])
       /\ UNCHANGED <<cache, known, copies>>

(* "None" is kept only if somebody was asked: a question the budget        *)
(* refused stays open for whoever still has calls.                         *)
ConcludeCopies(r) ==
    LET c == call[r]  d == Mine(r)
        kept == IF copies[d] # "unasked" THEN copies[d] ELSE IF c.found THEN "copy" ELSE "none"
    IN /\ c.at = "archive" /\ (c.starved \/ c.found \/ c.i > Len(Asked(Archives, d)))
       /\ IF c.starved /\ ~ c.found
          THEN Become(r, Bodiless(c, TRUE)) /\ UNCHANGED copies
          ELSE /\ copies' = [copies EXCEPT ![d] = kept]
               /\ Become(r, IF kept = "copy" THEN [c EXCEPT !.at = "mirror"]
                            ELSE Bodiless(c, FALSE))
       /\ UNCHANGED <<cache, known, spent>>

(* The copy is fetched like a page, without a ladder of its own.           *)
ReadMirror(r) ==
    LET c == call[r] IN
    /\ c.at = "mirror"
    /\ \E a \in PageAnswers, b \in PdfAnswers :
         LET page == FetchUncached(a, b)
         IN Become(r, IF Readable(page)
                      THEN Done(c, [page EXCEPT !.tier = "open_access", !.mirror = TRUE])
                      ELSE Bodiless(c, FALSE))
    /\ UNCHANGED <<cache, known, copies, spent>>

(* Tier 2.  The body it returns is the cited page's own.                   *)
ExtractBody(r) ==
    LET c == call[r] IN
    /\ c.at = "extract"
    /\ IF ~ Affordable("extraction")
       THEN /\ Become(r, Done(c, [c.result EXCEPT !.outcome = "budget_exhausted"]))
            /\ UNCHANGED spent
       ELSE /\ Take("extraction")
            /\ \E a \in Rendering, n \in 1..(BodyCap + 1) :
                 Become(r, Done(c, IF Rendered(a) = "page"
                                   THEN [Body(n, BodyCap, FALSE) EXCEPT !.tier = "extraction"]
                                   ELSE c.result))
    /\ UNCHANGED <<cache, known, copies>>

(* What the fetch came to goes into the cache, over whatever another       *)
(* thread put there meanwhile, and to the reader that asked.               *)
Store(r) ==
    LET c == call[r] IN
    /\ c.at = "store"
    /\ cache' = [cache EXCEPT ![c.url] = c.result]
    /\ Become(r, [at |-> "done", url |-> c.url, result |-> c.result])
    /\ UNCHANGED <<known, copies, spent>>

Climb(r) ==
    \/ Get(r) \/ Identify(r) \/ AskRegistry(r) \/ ConcludeIdentity(r) \/ Copies(r)
    \/ AskArchive(r) \/ ConcludeCopies(r) \/ ReadMirror(r) \/ ExtractBody(r) \/ Store(r)

-----------------------------------------------------------------------------
(* What is concluded about an identifier is not concluded again.           *)
KeepsConclusions ==
    \A d \in Idents : /\ known[d] # Unasked => known'[d] = known[d]
                      /\ copies[d] # "unasked" => copies'[d] = copies[d]

(* Absence is the one outcome that becomes a blocking finding.  A page     *)
(* that answered 404 is reported absent unless its source was found after  *)
(* all, however short of calls the ladder is (a registry that confirmed it *)
(* is forgotten only by an extraction tier out of calls); and a page that  *)
(* answered otherwise is reported absent only when the registries deny it  *)
(* and the page established nothing (resolve/__init__.py, _free_ladder and *)
(* _extract).                                                              *)
AbsenceIsKeptAndEarned ==
    \A r \in Readers : call[r].at = "store" =>
      LET c == call[r]
          confirmed == HasIdent(c.url) /\ known[Mine(r)].exists = "yes"
          denied == HasIdent(c.url) /\ known[Mine(r)].exists = "no"
      IN /\ c.direct.outcome = "not_found" =>
              \/ c.result.outcome \in {"not_found", "full_text"}
              \/ confirmed /\ c.result.outcome \in {"metadata_only", "budget_exhausted"}
         /\ c.result.outcome = "not_found" =>
              \/ c.direct.outcome = "not_found"
              \/ c.direct.outcome = "error" /\ denied
=============================================================================
