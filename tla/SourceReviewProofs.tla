------------------------- MODULE SourceReviewProofs -------------------------
(***************************************************************************)
(* What holds of the fetch ladder and of the coverage record for any number *)
(* of critics, any addresses, identifiers, providers and budgets, any       *)
(* bibliography and any number of passes and restarts.                     *)
(***************************************************************************)
EXTENDS SourceReview, FoldLemmas

Verdicts == [exists : {"yes", "no", "unsure"}, starved : BOOLEAN, sure : BOOLEAN]
Results == FetchedSource \cup {NoSource}

Fetching == [at : {"get", "identify", "registry", "copies", "archive", "mirror",
                   "extract", "store"},
             url : Urls, i : Nat, direct : Results, denied : BOOLEAN, found : BOOLEAN,
             starved : BOOLEAN, sure : BOOLEAN, verdict : Verdicts \cup {Unasked},
             result : Results]
Answered == [at : {"done"}, url : Urls, result : FetchedSource]

LadderTypes ==
  /\ cache \in [Urls -> Results]
  /\ known \in [Idents -> Verdicts \cup {Unasked}]
  /\ copies \in [Idents -> {"unasked", "none", "copy"}]
  /\ call \in [Readers -> {Idle} \cup Answered \cup Fetching]

(* The rungs between the direct request and the result: they are for an    *)
(* address that names something and whose page gave no body.               *)
OnFreeRungs(c) == c.at \in {"identify", "registry", "copies", "archive", "mirror"}

(* What the page itself established, while it is not the result.           *)
Bodyless == {"not_found", "blocked", "error", "unreadable", "empty"}

(* The result an address may come to, given what is known of what it names. *)
Earned(url, direct, result, knows) ==
  /\ direct.outcome = "not_found" =>
        \/ result.outcome \in {"not_found", "full_text"}
        \/ /\ HasIdent(url) /\ knows[IdentOf(url)].exists = "yes"
           /\ result.outcome \in {"metadata_only", "budget_exhausted"}
  /\ result.outcome = "not_found" =>
        \/ direct.outcome = "not_found"
        \/ /\ HasIdent(url) /\ knows[IdentOf(url)].exists = "no"
           /\ direct.outcome = "error"

(* One fetch, rung by rung.  Past the registries it holds the verdict that *)
(* is everybody's; at the paid rung it has a result without a body, which  *)
(* is never an absence.                                                    *)
FetchInv(c, knows) ==
  /\ OnFreeRungs(c) => /\ HasIdent(c.url)
                       /\ c.direct \in FetchedSource /\ c.direct.outcome \in Bodyless
  /\ c.at \in {"copies", "archive", "mirror"} =>
        c.verdict = knows[IdentOf(c.url)] /\ c.verdict \in Verdicts
  /\ c.at \in {"extract", "store"} =>
        /\ c.direct \in FetchedSource /\ c.result \in FetchedSource
        /\ Earned(c.url, c.direct, c.result, knows)
  /\ c.at = "extract" => /\ c.direct.outcome \in Bodyless
                         /\ c.result.outcome \notin {"not_found", "full_text"}

LadderInv == LadderTypes /\ \A r \in Readers : FetchInv(call[r], known)

-----------------------------------------------------------------------------
LEMMA FailedType ==
  ASSUME NEW o \in Outcomes
  PROVE  Failed(o) \in FetchedSource /\ Failed(o).outcome = o
BY DEF Failed, FetchedSource, Tiers

LEMMA BodyType ==
  ASSUME NEW m \in Nat, NEW cut \in BOOLEAN
  PROVE  Body(m, BodyCap, cut) \in FetchedSource /\ Body(m, BodyCap, cut).outcome = "full_text"
<1>1. BodyCap \in Nat
  BY SourceConstants
<1>2. Min({m, BodyCap}) \in Nat
  BY <1>1, LeastOfTwo
<1>3. (~ cut /\ m <= BodyCap) \in BOOLEAN
  OBVIOUS
<1> QED BY <1>2, <1>3 DEF Body, FetchedSource, Outcomes, Tiers

LEMMA ClassifiedType ==
  ASSUME NEW status
  PROVE  ClassifyStatus(status) \in {"not_found", "blocked", "error"}
BY DEF ClassifyStatus

(* What a request for a page or for a copy comes to.                       *)
LEMMA UncachedType ==
  ASSUME NEW a \in Answer, NEW b \in Answer
  PROVE  /\ FetchUncached(a, b) \in FetchedSource
         /\ FetchUncached(a, b).outcome \in Bodyless \cup {"full_text"}
<1> DEFINE Good(s) == s \in FetchedSource /\ s.outcome \in Bodyless \cup {"full_text"}
<1>1. \A o \in Bodyless : Good(Failed(o))
  BY FailedType DEF Bodyless, Outcomes
<1>2. \A m \in Nat, cut \in BOOLEAN : Good(Body(m, BodyCap, cut))
  BY BodyType
<1>3. \A status : Good(Failed(ClassifyStatus(status)))
  BY ClassifiedType, <1>1 DEF Bodyless
<1> HIDE DEF Good
<1>4. a.size \in Nat /\ a.cut \in BOOLEAN /\ b.size \in Nat /\ b.dropped \in BOOLEAN
  BY DEF Answer
<1>5. Good(Failed("unreadable")) /\ Good(Failed("empty")) /\ Good(Failed("blocked"))
  BY <1>1 DEF Bodyless
<1>6. Good(FetchPage(a))
  <2>1. CASE a.size = 0
    BY <2>1, <1>5 DEF FetchPage
  <2>2. CASE a.size # 0 /\ AccessWall(a)
    BY <2>2, <1>4, <1>5 DEF FetchPage
  <2>3. CASE a.size # 0 /\ ~ AccessWall(a)
    <3>1. FetchPage(a) = Body(a.size, BodyCap, a.cut)
      BY <2>3, <1>4 DEF FetchPage
    <3> QED BY <3>1, <1>2, <1>4
  <2> QED BY <2>1, <2>2, <2>3
<1>7. Good(FetchPdf(b))
  <2>1. Good(Body(b.size, BodyCap, b.dropped))
    BY <1>2, <1>4
  <2> QED BY <2>1, <1>3, <1>5 DEF FetchPdf
<1>8. Good(FetchUncached(a, b))
  BY <1>3, <1>5, <1>6, <1>7 DEF FetchUncached
<1> QED BY <1>8 DEF Good

LEMMA NamesAnIdent ==
  ASSUME NEW u \in Urls, HasIdent(u)
  PROVE  IdentOf(u) \in Idents
BY DEF HasIdent, IdentOf, Idents

-----------------------------------------------------------------------------
LEMMA StageType ==
  ASSUME NEW c \in {Idle} \cup Answered \cup Fetching, c.at # "out", c.at # "done"
  PROVE  c \in Fetching
BY DEF Idle, Answered

LEMMA DoneHolds ==
  ASSUME NEW c \in Fetching, NEW knows, NEW result \in FetchedSource,
         c.direct \in FetchedSource, Earned(c.url, c.direct, result, knows)
  PROVE  Done(c, result) \in Fetching /\ FetchInv(Done(c, result), knows)
<1> DEFINE d == Done(c, result)
<1>1. d \in Fetching
  BY DEF Done, Fetching, Results
<1>2. d.at = "store" /\ d.result = result /\ d.url = c.url /\ d.direct = c.direct
  BY DEF Done, Fetching
<1> HIDE DEF d
<1>3. FetchInv(d, knows)
  BY <1>2 DEF FetchInv, OnFreeRungs
<1> QED BY <1>1, <1>3 DEF d

LEMMA FreeHolds ==
  ASSUME NEW c \in Fetching, NEW knows, NEW result \in FetchedSource,
         c.direct \in FetchedSource, c.direct.outcome \in Bodyless,
         Earned(c.url, c.direct, result, knows)
  PROVE  Free(c, result) \in Fetching /\ FetchInv(Free(c, result), knows)
<1> DEFINE d == [c EXCEPT !.at = "extract", !.result = result]
<1>1. d \in Fetching
  BY DEF Fetching, Results
<1>2. d.at = "extract" /\ d.result = result /\ d.url = c.url /\ d.direct = c.direct
  BY DEF Fetching
<1>3. CASE Renders /\ ~ Readable(result) /\ result.outcome # "not_found"
  <2>1. Free(c, result) = d
    BY <1>3 DEF Free
  <2> HIDE DEF d
  <2>2. FetchInv(d, knows)
    BY <1>2, <1>3 DEF FetchInv, OnFreeRungs, Readable
  <2> QED BY <1>1, <2>1, <2>2
<1>4. CASE ~ (Renders /\ ~ Readable(result) /\ result.outcome # "not_found")
  <2>1. Free(c, result) = Done(c, result)
    BY <1>4 DEF Free
  <2> QED BY <2>1, DoneHolds
<1> QED BY <1>3, <1>4

(* The verdict of the free rungs neither hides nor makes up an absence.    *)
LEMMA FreeVerdictHolds ==
  ASSUME NEW url, HasIdent(url), NEW knows, NEW direct \in FetchedSource,
         direct.outcome \in Bodyless,
         NEW verdict \in Verdicts, verdict = knows[IdentOf(url)], NEW starved \in BOOLEAN
  PROVE  /\ FreeVerdict(direct, verdict, starved) \in FetchedSource
         /\ Earned(url, direct, FreeVerdict(direct, verdict, starved), knows)
<1> DEFINE f == FreeVerdict(direct, verdict, starved)
<1>1. verdict.exists \in {"yes", "no", "unsure"} /\ verdict.starved \in BOOLEAN
  BY DEF Verdicts
<1>2. direct.outcome \in Outcomes
  BY DEF FetchedSource
<1>3. CASE verdict.exists = "yes"
  <2>1. f = [direct EXCEPT !.tier = "identifier",
                           !.outcome = IF direct.outcome = "blocked" THEN "paywalled"
                                       ELSE "metadata_only"]
    BY <1>3 DEF FreeVerdict
  <2>2. f \in FetchedSource
    BY <2>1 DEF FetchedSource, Outcomes, Tiers
  <2>3. /\ f.outcome \in {"paywalled", "metadata_only"}
        /\ direct.outcome # "blocked" => f.outcome = "metadata_only"
    BY <2>1 DEF FetchedSource
  <2> HIDE DEF f
  <2>4. Earned(url, direct, f, knows)
    BY <1>3, <2>3 DEF Earned
  <2> QED BY <2>2, <2>4 DEF f
<1>4. CASE verdict.exists = "no" /\ direct.outcome \in Unestablished
  <2>1. f = [direct EXCEPT !.outcome = "not_found", !.tier = "identifier"]
    BY <1>4 DEF FreeVerdict
  <2>2. f \in FetchedSource /\ f.outcome = "not_found"
    BY <2>1 DEF FetchedSource, Outcomes, Tiers
  <2> HIDE DEF f
  <2>3. Earned(url, direct, f, knows)
    BY <1>4, <2>2 DEF Earned, Unestablished
  <2> QED BY <2>2, <2>3 DEF f
<1>5. CASE /\ verdict.exists # "yes" /\ (verdict.starved \/ starved)
           /\ direct.outcome # "not_found"
           /\ ~ (verdict.exists = "no" /\ direct.outcome \in Unestablished)
  <2>1. f = [direct EXCEPT !.outcome = "budget_exhausted"]
    BY <1>5 DEF FreeVerdict
  <2>2. f \in FetchedSource /\ f.outcome = "budget_exhausted"
    BY <2>1 DEF FetchedSource, Outcomes
  <2> HIDE DEF f
  <2>3. Earned(url, direct, f, knows)
    BY <1>5, <2>2 DEF Earned
  <2> QED BY <2>2, <2>3 DEF f
<1>6. CASE /\ verdict.exists # "yes"
           /\ ~ (verdict.exists = "no" /\ direct.outcome \in Unestablished)
           /\ ~ ((verdict.starved \/ starved) /\ direct.outcome # "not_found")
  <2>1. f = direct
    BY <1>6 DEF FreeVerdict
  <2> HIDE DEF f
  <2> QED BY <2>1 DEF Earned, f
<1> QED BY <1>3, <1>4, <1>5, <1>6

LEMMA BodilessHolds ==
  ASSUME NEW c \in Fetching, NEW knows, HasIdent(c.url),
         c.direct \in FetchedSource, c.direct.outcome \in Bodyless,
         c.verdict \in Verdicts, c.verdict = knows[IdentOf(c.url)], NEW starved \in BOOLEAN
  PROVE  Bodiless(c, starved) \in Fetching /\ FetchInv(Bodiless(c, starved), knows)
<1> DEFINE f == FreeVerdict(c.direct, c.verdict, starved)
<1>1. f \in FetchedSource /\ Earned(c.url, c.direct, f, knows)
  BY FreeVerdictHolds
<1>2. Bodiless(c, starved) = Free(c, f)
  BY DEF Bodiless
<1> HIDE DEF f
<1> QED BY <1>1, <1>2, FreeHolds

-----------------------------------------------------------------------------
(* A fetch keeps its invariant while what is known only grows.             *)
Grows(knows, knew) == \A d \in Idents : knew[d] # Unasked => knows[d] = knew[d]

LEMMA FetchInvStable ==
  ASSUME NEW c, c.at \notin {"out", "done"} => c.url \in Urls, NEW knew, NEW knows,
         Grows(knows, knew), FetchInv(c, knew)
  PROVE  FetchInv(c, knows)
<1>1. \A v : v.exists \in {"yes", "no", "unsure"} => v # Unasked
  BY DEF Unasked
<1>2. HasIdent(c.url) /\ c.url \in Urls /\ knew[IdentOf(c.url)].exists \in {"yes", "no"}
        => knows[IdentOf(c.url)] = knew[IdentOf(c.url)]
  BY <1>1, NamesAnIdent DEF Grows
<1>3. c.at \in {"copies", "archive", "mirror"} =>
        c.verdict = knows[IdentOf(c.url)] /\ c.verdict \in Verdicts
  <2> SUFFICES ASSUME c.at \in {"copies", "archive", "mirror"}
               PROVE  c.verdict = knows[IdentOf(c.url)] /\ c.verdict \in Verdicts
    OBVIOUS
  <2>1. c.verdict = knew[IdentOf(c.url)] /\ c.verdict \in Verdicts /\ HasIdent(c.url)
    BY DEF FetchInv, OnFreeRungs
  <2>2. c.verdict # Unasked
    BY <2>1, <1>1 DEF Verdicts
  <2>3. IdentOf(c.url) \in Idents
    BY <2>1, NamesAnIdent
  <2> QED BY <2>1, <2>2, <2>3 DEF Grows
<1>4. c.at \in {"extract", "store"} =>
        (Earned(c.url, c.direct, c.result, knew) => Earned(c.url, c.direct, c.result, knows))
  BY <1>2 DEF Earned
<1> QED BY <1>3, <1>4 DEF FetchInv

(* One fetch moves; the others are where they were.                        *)
LEMMA Moves ==
  ASSUME LadderInv, NEW r \in Readers, NEW c \in {Idle} \cup Answered \cup Fetching,
         Become(r, c), FetchInv(c, known'), Grows(known', known),
         cache' \in [Urls -> Results], known' \in [Idents -> Verdicts \cup {Unasked}],
         copies' \in [Idents -> {"unasked", "none", "copy"}]
  PROVE  LadderInv'
<1>1. call' = [call EXCEPT ![r] = c]
  BY DEF Become
<1>2. call \in [Readers -> {Idle} \cup Answered \cup Fetching]
  BY DEF LadderInv, LadderTypes
<1>3. LadderTypes'
  BY <1>1, <1>2 DEF LadderTypes
<1>4. ASSUME NEW q \in Readers  PROVE FetchInv(call'[q], known')
  <2>1. CASE q = r
    BY <2>1, <1>1, <1>2
  <2>2. CASE q # r
    <3>1. call'[q] = call[q] /\ FetchInv(call[q], known)
      BY <2>2, <1>1, <1>2 DEF LadderInv
    <3>2. call[q].at \notin {"out", "done"} => call[q].url \in Urls
      BY <1>2, StageType DEF Fetching
    <3> QED BY <3>1, <3>2, FetchInvStable
  <2> QED BY <2>1, <2>2
<1> QED BY <1>3, <1>4 DEF LadderInv

LEMMA Stays ==
  ASSUME LadderInv, NEW r \in Readers, NEW c \in {Idle} \cup Answered \cup Fetching,
         Become(r, c), FetchInv(c, known), UNCHANGED <<cache, known, copies>>
  PROVE  LadderInv'
<1>1. Grows(known', known) /\ FetchInv(c, known')
  BY DEF Grows
<1>2. /\ cache' \in [Urls -> Results] /\ known' \in [Idents -> Verdicts \cup {Unasked}]
      /\ copies' \in [Idents -> {"unasked", "none", "copy"}]
  BY DEF LadderInv, LadderTypes
<1> HIDE DEF Grows
<1> QED BY <1>1, <1>2, Moves

(* What a thread that is on the ladder has in hand.                        *)
LEMMA InHand ==
  ASSUME LadderInv, NEW r \in Readers, call[r].at \notin {"out", "done"}
  PROVE  call[r] \in Fetching /\ call[r].url \in Urls /\ FetchInv(call[r], known)
<1>1. call[r] \in {Idle} \cup Answered \cup Fetching /\ FetchInv(call[r], known)
  BY DEF LadderInv, LadderTypes
<1>2. call[r] \in Fetching
  BY <1>1, StageType
<1> QED BY <1>1, <1>2 DEF Fetching

-----------------------------------------------------------------------------
LEMMA FetchStep ==
  ASSUME LadderInv, NEW r \in Readers, NEW u \in Urls, Fetch(r, u)
  PROVE  LadderInv'
<1>1. cache[u] \in Results
  BY DEF LadderInv, LadderTypes
<1>2. CASE cache[u] # NoSource
  <2> DEFINE c == [at |-> "done", url |-> u, result |-> cache[u]]
  <2>1. c \in Answered
    BY <1>1, <1>2 DEF Answered, Results
  <2>2. Become(r, c)
    BY <1>2 DEF Fetch
  <2>3. FetchInv(c, known)
    BY DEF FetchInv, OnFreeRungs
  <2> HIDE DEF c
  <2> QED BY <2>1, <2>2, <2>3, Stays DEF Fetch
<1>3. CASE cache[u] = NoSource
  <2> DEFINE c == [at |-> "get", url |-> u, i |-> 1, direct |-> NoSource, denied |-> FALSE,
                   found |-> FALSE, starved |-> FALSE, sure |-> TRUE,
                   verdict |-> Unasked, result |-> NoSource]
  <2>1. c \in Fetching
    BY DEF Fetching, Results
  <2>2. Become(r, c)
    BY <1>3 DEF Fetch
  <2>3. FetchInv(c, known)
    BY DEF FetchInv, OnFreeRungs
  <2> HIDE DEF c
  <2> QED BY <2>1, <2>2, <2>3, Stays DEF Fetch
<1> QED BY <1>2, <1>3

LEMMA GetStep ==
  ASSUME LadderInv, NEW r \in Readers, Get(r)
  PROVE  LadderInv'
<1>1. PICK a \in PageAnswers, b \in PdfAnswers :
        LET direct == FetchUncached(a, b)
            c == [call[r] EXCEPT !.direct = direct]
        IN Become(r, IF Readable(direct) THEN Done(c, direct)
                     ELSE IF HasIdent(c.url) THEN [c EXCEPT !.at = "identify"]
                     ELSE Free(c, direct))
  BY DEF Get
<1> DEFINE direct == FetchUncached(a, b)
           c == [call[r] EXCEPT !.direct = direct]
           d == [c EXCEPT !.at = "identify"]
<1>2. direct \in FetchedSource /\ direct.outcome \in Bodyless \cup {"full_text"}
  BY UncachedType, LadderConstants
<1>3. call[r] \in Fetching
  BY InHand DEF Get
<1>4. Become(r, IF Readable(direct) THEN Done(c, direct)
                ELSE IF HasIdent(c.url) THEN d ELSE Free(c, direct))
  BY <1>1
<1> HIDE DEF direct
<1>5. c \in Fetching /\ c.direct = direct
  BY <1>2, <1>3 DEF Fetching, Results
<1>6. Earned(c.url, direct, direct, known)
  BY <1>2 DEF Earned
<1>7. d \in Fetching /\ d.at = "identify" /\ d.direct = direct /\ d.url = c.url
  BY <1>5 DEF Fetching
<1> HIDE DEF c, d
<1>8. CASE Readable(direct)
  BY <1>2, <1>4, <1>5, <1>6, <1>8, DoneHolds, Stays DEF Get
<1>9. CASE ~ Readable(direct) /\ HasIdent(c.url)
  <2>1. FetchInv(d, known)
    BY <1>2, <1>7, <1>9 DEF FetchInv, OnFreeRungs, Readable
  <2> QED BY <1>4, <1>7, <1>9, <2>1, Stays DEF Get
<1>10. CASE ~ Readable(direct) /\ ~ HasIdent(c.url)
  <2>1. direct.outcome \in Bodyless
    BY <1>2, <1>10 DEF Readable
  <2> QED BY <1>2, <1>4, <1>5, <1>6, <1>10, <2>1, FreeHolds, Stays DEF Get
<1> QED BY <1>8, <1>9, <1>10

LEMMA IdentifyStep ==
  ASSUME LadderInv, NEW r \in Readers, Identify(r)
  PROVE  LadderInv'
<1>1. /\ call[r] \in Fetching /\ call[r].url \in Urls /\ FetchInv(call[r], known)
      /\ call[r].at = "identify"
  BY InHand DEF Identify
<1>2. HasIdent(call[r].url) /\ Mine(r) \in Idents
  BY <1>1, NamesAnIdent DEF FetchInv, OnFreeRungs, Mine
<1>3. CASE known[Mine(r)] = Unasked
  <2> DEFINE d == [call[r] EXCEPT !.at = "registry"]
  <2>1. d \in Fetching /\ d.at = "registry" /\ d.direct = call[r].direct /\ d.url = call[r].url
    BY <1>1 DEF Fetching
  <2>2. Become(r, d)
    BY <1>3 DEF Identify
  <2> HIDE DEF d
  <2>3. FetchInv(d, known)
    BY <1>1, <2>1 DEF FetchInv, OnFreeRungs
  <2> QED BY <2>1, <2>2, <2>3, Stays DEF Identify
<1>4. CASE known[Mine(r)] # Unasked
  <2> DEFINE d == [call[r] EXCEPT !.at = "copies", !.verdict = known[Mine(r)]]
  <2>1. known[Mine(r)] \in Verdicts
    BY <1>2, <1>4 DEF LadderInv, LadderTypes
  <2>2. /\ d \in Fetching /\ d.at = "copies" /\ d.direct = call[r].direct
        /\ d.url = call[r].url /\ d.verdict = known[Mine(r)]
    BY <1>1, <2>1 DEF Fetching
  <2>3. Become(r, d)
    BY <1>4 DEF Identify
  <2> HIDE DEF d
  <2>4. FetchInv(d, known)
    BY <1>1, <2>1, <2>2 DEF FetchInv, OnFreeRungs, Mine
  <2> QED BY <2>2, <2>3, <2>4, Stays DEF Identify
<1> QED BY <1>3, <1>4

LEMMA AskRegistryStep ==
  ASSUME LadderInv, NEW r \in Readers, AskRegistry(r)
  PROVE  LadderInv'
<1>1. /\ call[r] \in Fetching /\ FetchInv(call[r], known) /\ call[r].at = "registry"
  BY InHand DEF AskRegistry
<1>2. ASSUME NEW d, Become(r, d), d \in Fetching, d.at = "registry",
             d.direct = call[r].direct, d.url = call[r].url
      PROVE  LadderInv'
  <2>1. FetchInv(d, known)
    BY <1>1, <1>2 DEF FetchInv, OnFreeRungs
  <2> QED BY <1>2, <2>1, Stays DEF AskRegistry
<1>3. CASE ~ Affordable("identifier")
  <2> DEFINE d == [call[r] EXCEPT !.starved = TRUE]
  <2>1. d \in Fetching /\ d.at = "registry" /\ d.direct = call[r].direct /\ d.url = call[r].url
    BY <1>1 DEF Fetching
  <2>2. Become(r, d)
    BY <1>3 DEF AskRegistry
  <2> HIDE DEF d
  <2> QED BY <1>2, <2>1, <2>2
<1>4. CASE Affordable("identifier")
  <2>1. PICK a \in Answering :
          LET p == Asked(Registries, Mine(r))[call[r].i]
              m == Metadata(p, a)
              denial == m = "none" /\ Authoritative(p, Mine(r).kind)
          IN Become(r, [call[r] EXCEPT !.i = @ + 1, !.found = @ \/ m = "record",
                                       !.denied = @ \/ denial,
                                       !.sure = @ /\ (denial => Denies(a))])
    BY <1>4 DEF AskRegistry
  <2> DEFINE p == Asked(Registries, Mine(r))[call[r].i]
             m == Metadata(p, a)
             denial == m = "none" /\ Authoritative(p, Mine(r).kind)
             i == call[r].i + 1
             found == call[r].found \/ m = "record"
             denied == call[r].denied \/ denial
             sure == call[r].sure /\ (denial => Denies(a))
             d == [call[r] EXCEPT !.i = i, !.found = found, !.denied = denied, !.sure = sure]
  <2>2. Become(r, d)
    BY <2>1
  <2>3. i \in Nat /\ found \in BOOLEAN /\ denied \in BOOLEAN /\ sure \in BOOLEAN
    <3>1. i \in Nat
      BY <1>1 DEF Fetching
    <3>2. found \in BOOLEAN /\ denied \in BOOLEAN /\ sure \in BOOLEAN
      OBVIOUS
    <3> QED BY <3>1, <3>2
  <2> HIDE DEF i, found, denied, sure
  <2>4. d \in Fetching /\ d.at = "registry" /\ d.direct = call[r].direct /\ d.url = call[r].url
    BY <1>1, <2>3 DEF Fetching
  <2> HIDE DEF d
  <2> QED BY <1>2, <2>2, <2>4
<1> QED BY <1>3, <1>4

LEMMA ConcludeIdentityStep ==
  ASSUME LadderInv, NEW r \in Readers, ConcludeIdentity(r)
  PROVE  LadderInv'
<1> DEFINE c == call[r]
           d == Mine(r)
           own == Concluded(c)
           verdict == FirstConcluded(d, own)
           e == [c EXCEPT !.at = "copies", !.verdict = verdict, !.starved = FALSE]
<1>1. c \in Fetching /\ c.url \in Urls /\ FetchInv(c, known) /\ c.at = "registry"
  BY InHand DEF ConcludeIdentity
<1>2. HasIdent(c.url) /\ d \in Idents /\ d = IdentOf(c.url)
  BY <1>1, NamesAnIdent DEF FetchInv, OnFreeRungs, Mine
<1>3. known' = [known EXCEPT ![d] = verdict] /\ Become(r, e)
  BY DEF ConcludeIdentity
<1>4. own \in Verdicts
  <2>1. c.sure \in BOOLEAN /\ (~ c.found /\ c.starved) \in BOOLEAN
    BY <1>1 DEF Fetching
  <2> QED BY <2>1 DEF Concluded, Verdicts
<1> HIDE DEF own
<1>5. known \in [Idents -> Verdicts \cup {Unasked}]
  BY DEF LadderInv, LadderTypes
<1>6. verdict \in Verdicts /\ (known[d] # Unasked => verdict = known[d])
  BY <1>2, <1>4, <1>5 DEF FirstConcluded
<1> HIDE DEF verdict
<1>7. /\ known' \in [Idents -> Verdicts \cup {Unasked}] /\ known'[d] = verdict
      /\ Grows(known', known)
  BY <1>2, <1>3, <1>5, <1>6 DEF Grows
<1>8. /\ e \in Fetching /\ e.at = "copies" /\ e.verdict = verdict
      /\ e.url = c.url /\ e.direct = c.direct
  BY <1>1, <1>6 DEF Fetching
<1> HIDE DEF e, d, c
<1>9. FetchInv(e, known')
  <2>1. OnFreeRungs(e) => HasIdent(e.url) /\ e.direct \in FetchedSource
                          /\ e.direct.outcome \in Bodyless
    BY <1>1, <1>8 DEF FetchInv, OnFreeRungs
  <2>2. e.verdict = known'[IdentOf(e.url)] /\ e.verdict \in Verdicts
    BY <1>2, <1>6, <1>7, <1>8
  <2> QED BY <2>1, <2>2, <1>8 DEF FetchInv
<1>10. cache' \in [Urls -> Results] /\ copies' \in [Idents -> {"unasked", "none", "copy"}]
  BY DEF LadderInv, LadderTypes, ConcludeIdentity
<1> QED BY <1>3, <1>7, <1>8, <1>9, <1>10, Moves

(* What the rungs after the registries share.                              *)
LEMMA Past ==
  ASSUME LadderInv, NEW r \in Readers, call[r].at \in {"copies", "archive", "mirror"}
  PROVE  /\ call[r] \in Fetching /\ call[r].url \in Urls /\ FetchInv(call[r], known)
         /\ HasIdent(call[r].url) /\ Mine(r) \in Idents /\ Mine(r) = IdentOf(call[r].url)
         /\ call[r].direct \in FetchedSource /\ call[r].direct.outcome \in Bodyless
         /\ call[r].verdict \in Verdicts /\ call[r].verdict = known[IdentOf(call[r].url)]
<1>1. call[r] \in Fetching /\ call[r].url \in Urls /\ FetchInv(call[r], known)
  BY InHand
<1>2. OnFreeRungs(call[r])
  BY DEF OnFreeRungs
<1>3. HasIdent(call[r].url) /\ call[r].direct \in FetchedSource
      /\ call[r].direct.outcome \in Bodyless
  BY <1>1, <1>2 DEF FetchInv
<1>4. call[r].verdict \in Verdicts /\ call[r].verdict = known[IdentOf(call[r].url)]
  BY <1>1 DEF FetchInv
<1> QED BY <1>1, <1>3, <1>4, NamesAnIdent DEF Mine

LEMMA BodilessFrom ==
  ASSUME LadderInv, NEW r \in Readers, call[r].at \in {"copies", "archive", "mirror"},
         NEW starved \in BOOLEAN
  PROVE  /\ Bodiless(call[r], starved) \in Fetching
         /\ FetchInv(Bodiless(call[r], starved), known)
BY Past, BodilessHolds

(* Moving between these rungs keeps what the fetch has in hand.            *)
LEMMA Onward ==
  ASSUME LadderInv, NEW r \in Readers, call[r].at \in {"copies", "archive", "mirror"},
         NEW d \in Fetching, d.at \in {"copies", "archive", "mirror"},
         d.url = call[r].url, d.direct = call[r].direct, d.verdict = call[r].verdict
  PROVE  FetchInv(d, known)
BY Past DEF FetchInv, OnFreeRungs

LEMMA CopiesStep ==
  ASSUME LadderInv, NEW r \in Readers, Copies(r)
  PROVE  LadderInv'
<1> DEFINE d == [call[r] EXCEPT !.at = "mirror"]
           e == [call[r] EXCEPT !.at = "archive", !.i = 1, !.found = FALSE]
<1>1. call[r].at = "copies" /\ UNCHANGED <<cache, known, copies>>
  BY DEF Copies
<1>2. \/ Become(r, Bodiless(call[r], FALSE)) \/ Become(r, d) \/ Become(r, e)
  BY DEF Copies
<1>3. call[r] \in Fetching
  BY <1>1, Past
<1>4. /\ d \in Fetching /\ d.at = "mirror" /\ d.url = call[r].url
      /\ d.direct = call[r].direct /\ d.verdict = call[r].verdict
  BY <1>3 DEF Fetching
<1>5. /\ e \in Fetching /\ e.at = "archive" /\ e.url = call[r].url
      /\ e.direct = call[r].direct /\ e.verdict = call[r].verdict
  BY <1>3 DEF Fetching
<1> HIDE DEF d, e
<1>6. FetchInv(d, known) /\ FetchInv(e, known)
  BY <1>1, <1>4, <1>5, Onward
<1>7. Bodiless(call[r], FALSE) \in Fetching /\ FetchInv(Bodiless(call[r], FALSE), known)
  BY <1>1, BodilessFrom
<1> QED BY <1>1, <1>2, <1>4, <1>5, <1>6, <1>7, Stays

LEMMA AskArchiveStep ==
  ASSUME LadderInv, NEW r \in Readers, AskArchive(r)
  PROVE  LadderInv'
<1> DEFINE d(found) == [call[r] EXCEPT !.i = @ + 1, !.found = found]
           e == [call[r] EXCEPT !.starved = TRUE]
<1>1. call[r].at = "archive" /\ UNCHANGED <<cache, known, copies>>
  BY DEF AskArchive
<1>2. Become(r, e) \/ \E found \in BOOLEAN : Become(r, d(found))
  <2>1. \A a : (OpenAccessUrl(Asked(Archives, Mine(r))[call[r].i], a) = "copy") \in BOOLEAN
    OBVIOUS
  <2> QED BY <2>1 DEF AskArchive
<1>3. call[r] \in Fetching
  BY <1>1, Past
<1>4. \A found \in BOOLEAN :
        /\ d(found) \in Fetching /\ d(found).at = "archive" /\ d(found).url = call[r].url
        /\ d(found).direct = call[r].direct /\ d(found).verdict = call[r].verdict
  <2>1. TAKE found \in BOOLEAN
  <2>2. call[r].i + 1 \in Nat
    BY <1>3 DEF Fetching
  <2> DEFINE i == call[r].i + 1
  <2>3. d(found) = [call[r] EXCEPT !.i = i, !.found = found]
    OBVIOUS
  <2> HIDE DEF i, d
  <2> QED BY <1>1, <1>3, <2>2, <2>3 DEF Fetching, i
<1>5. /\ e \in Fetching /\ e.at = "archive" /\ e.url = call[r].url
      /\ e.direct = call[r].direct /\ e.verdict = call[r].verdict
  BY <1>1, <1>3 DEF Fetching
<1> HIDE DEF d, e
<1>6. FetchInv(e, known) /\ \A found \in BOOLEAN : FetchInv(d(found), known)
  BY <1>1, <1>4, <1>5, Onward
<1> QED BY <1>1, <1>2, <1>4, <1>5, <1>6, Stays

LEMMA ConcludeCopiesStep ==
  ASSUME LadderInv, NEW r \in Readers, ConcludeCopies(r)
  PROVE  LadderInv'
<1> DEFINE m == [call[r] EXCEPT !.at = "mirror"]
           d == Mine(r)
           kept == IF copies[d] # "unasked" THEN copies[d]
                   ELSE IF call[r].found THEN "copy" ELSE "none"
<1>1. call[r].at = "archive" /\ UNCHANGED <<cache, known>>
  BY DEF ConcludeCopies
<1>2. call[r] \in Fetching /\ d \in Idents
  BY <1>1, Past
<1>3. \A starved \in BOOLEAN : /\ Bodiless(call[r], starved) \in Fetching
                              /\ FetchInv(Bodiless(call[r], starved), known)
  BY <1>1, BodilessFrom
<1>4. /\ m \in Fetching /\ m.at = "mirror" /\ m.url = call[r].url
      /\ m.direct = call[r].direct /\ m.verdict = call[r].verdict
  BY <1>2 DEF Fetching
<1>5. \/ Become(r, Bodiless(call[r], TRUE)) /\ UNCHANGED copies
      \/ /\ copies' = [copies EXCEPT ![d] = kept]
         /\ Become(r, m) \/ Become(r, Bodiless(call[r], FALSE))
  BY DEF ConcludeCopies
<1>6. copies \in [Idents -> {"unasked", "none", "copy"}]
  BY DEF LadderInv, LadderTypes
<1>7. kept \in {"none", "copy"}
  BY <1>2, <1>6
<1> HIDE DEF m, kept, d
<1>8. copies' \in [Idents -> {"unasked", "none", "copy"}]
  BY <1>5, <1>6, <1>7
<1>9. FetchInv(m, known)
  BY <1>1, <1>4, Onward
<1>10. Become(r, m) \/ \E starved \in BOOLEAN : Become(r, Bodiless(call[r], starved))
  BY <1>5
<1>11. /\ Grows(known', known) /\ known' = known /\ cache' \in [Urls -> Results]
       /\ known' \in [Idents -> Verdicts \cup {Unasked}]
  BY <1>1 DEF LadderInv, LadderTypes, Grows
<1> QED BY <1>3, <1>4, <1>8, <1>9, <1>10, <1>11, Moves

LEMMA ReadMirrorStep ==
  ASSUME LadderInv, NEW r \in Readers, ReadMirror(r)
  PROVE  LadderInv'
<1>1. call[r].at = "mirror" /\ UNCHANGED <<cache, known, copies>>
  BY DEF ReadMirror
<1>2. PICK a \in PageAnswers, b \in PdfAnswers :
        LET page == FetchUncached(a, b)
        IN Become(r, IF Readable(page)
                     THEN Done(call[r], [page EXCEPT !.tier = "open_access", !.mirror = TRUE])
                     ELSE Bodiless(call[r], FALSE))
  BY DEF ReadMirror
<1> DEFINE page == FetchUncached(a, b)
           copy == [page EXCEPT !.tier = "open_access", !.mirror = TRUE]
<1>3. page \in FetchedSource
  BY UncachedType, LadderConstants
<1>4. Become(r, IF Readable(page) THEN Done(call[r], copy) ELSE Bodiless(call[r], FALSE))
  BY <1>2
<1>5. Bodiless(call[r], FALSE) \in Fetching /\ FetchInv(Bodiless(call[r], FALSE), known)
  BY <1>1, BodilessFrom
<1> HIDE DEF page
<1>6. copy \in FetchedSource /\ copy.outcome = page.outcome
  BY <1>3 DEF FetchedSource, Tiers
<1> HIDE DEF copy
<1>7. CASE Readable(page)
  <2>1. Earned(call[r].url, call[r].direct, copy, known)
    BY <1>6, <1>7 DEF Earned, Readable
  <2>2. Done(call[r], copy) \in Fetching /\ FetchInv(Done(call[r], copy), known)
    BY <1>1, <1>6, <2>1, Past, DoneHolds
  <2> QED BY <1>1, <1>4, <1>7, <2>2, Stays
<1>8. CASE ~ Readable(page)
  BY <1>1, <1>4, <1>5, <1>8, Stays
<1> QED BY <1>7, <1>8

LEMMA ExtractBodyStep ==
  ASSUME LadderInv, NEW r \in Readers, ExtractBody(r)
  PROVE  LadderInv'
<1> DEFINE c == call[r]
           short == [c.result EXCEPT !.outcome = "budget_exhausted"]
           read(n) == [Body(n, BodyCap, FALSE) EXCEPT !.tier = "extraction"]
<1>1. c.at = "extract" /\ UNCHANGED <<cache, known, copies>>
  BY DEF ExtractBody
<1>2. c \in Fetching /\ FetchInv(c, known)
  BY <1>1, InHand
<1>3. /\ c.direct \in FetchedSource /\ c.result \in FetchedSource
      /\ Earned(c.url, c.direct, c.result, known)
      /\ c.result.outcome \notin {"not_found", "full_text"}
  BY <1>1, <1>2 DEF FetchInv
<1>4. \/ Become(r, Done(c, short)) \/ Become(r, Done(c, c.result))
      \/ \E n \in 1..(BodyCap + 1) : Become(r, Done(c, read(n)))
  BY DEF ExtractBody
<1>5. short \in FetchedSource /\ short.outcome = "budget_exhausted"
  BY <1>3 DEF FetchedSource, Outcomes
<1>6. \A n \in 1..(BodyCap + 1) : read(n) \in FetchedSource /\ read(n).outcome = "full_text"
  <2>1. TAKE n \in 1..(BodyCap + 1)
  <2>2. Body(n, BodyCap, FALSE) \in FetchedSource /\ Body(n, BodyCap, FALSE).outcome = "full_text"
    <3>1. n \in Nat
      BY SourceConstants
    <3> QED BY <3>1, BodyType
  <2> QED BY <2>2 DEF FetchedSource, Tiers
<1> HIDE DEF c, short, read
<1>7. /\ Earned(c.url, c.direct, short, known)
      /\ \A n \in 1..(BodyCap + 1) : Earned(c.url, c.direct, read(n), known)
  BY <1>3, <1>5, <1>6 DEF Earned
<1>8. \A result \in FetchedSource : Earned(c.url, c.direct, result, known) =>
        Done(c, result) \in Fetching /\ FetchInv(Done(c, result), known)
  BY <1>2, <1>3, DoneHolds
<1>9. PICK result \in FetchedSource :
        Earned(c.url, c.direct, result, known) /\ Become(r, Done(c, result))
  BY <1>3, <1>4, <1>5, <1>6, <1>7
<1> QED BY <1>1, <1>8, <1>9, Stays

LEMMA StoreStep ==
  ASSUME LadderInv, NEW r \in Readers, Store(r)
  PROVE  LadderInv'
<1> DEFINE c == call[r]
           d == [at |-> "done", url |-> c.url, result |-> c.result]
<1>1. c.at = "store" /\ UNCHANGED <<known, copies>>
      /\ cache' = [cache EXCEPT ![c.url] = c.result] /\ Become(r, d)
  BY DEF Store
<1>2. c.url \in Urls /\ FetchInv(c, known)
  BY <1>1, InHand
<1>3. c.result \in FetchedSource
  BY <1>1, <1>2 DEF FetchInv
<1>4. d \in Answered /\ FetchInv(d, known')
  BY <1>2, <1>3 DEF Answered, FetchInv, OnFreeRungs
<1>5. /\ cache' \in [Urls -> Results] /\ known' \in [Idents -> Verdicts \cup {Unasked}]
      /\ copies' \in [Idents -> {"unasked", "none", "copy"}] /\ Grows(known', known)
  BY <1>1, <1>2, <1>3 DEF LadderInv, LadderTypes, Results, Grows
<1> HIDE DEF c, d
<1> QED BY <1>1, <1>4, <1>5, Moves

LEMMA ClimbStep ==
  ASSUME LadderInv, NEW r \in Readers, Climb(r)
  PROVE  LadderInv'
BY GetStep, IdentifyStep, AskRegistryStep, ConcludeIdentityStep, CopiesStep, AskArchiveStep,
   ConcludeCopiesStep, ReadMirrorStep, ExtractBodyStep, StoreStep DEF Climb

-----------------------------------------------------------------------------
SourceLine == [indent : Int, label : BOOLEAN, urls : Seq(Urls)]

LEMMA DraftLines == \A d \in DOMAIN Drafts : Drafts[d] \in Seq(SourceLine)
BY ReviewConstants DEF SourceLine

(* The addresses of a bibliography that are fetched are addresses.         *)
FirstSeen(seq, limit) ==
  LET fresh(seen, u) == IF u \in ToSet(seen) \/ Len(seen) >= limit THEN seen
                        ELSE Append(seen, u)
  IN FoldLeft(fresh, << >>, seq)

LEMMA FreshUrls ==
  ASSUME NEW seq \in Seq(Urls), NEW limit
  PROVE  FirstSeen(seq, limit) \in Seq(Urls)
<1> DEFINE D == DOMAIN seq
           Folds(g) == g = [s \in SUBSET D |->
             IF s = {} THEN << >>
             ELSE IF seq[Max(s)] \in ToSet(g[s \ {Max(s)}]) \/ Len(g[s \ {Max(s)}]) >= limit
                  THEN g[s \ {Max(s)}] ELSE Append(g[s \ {Max(s)}], seq[Max(s)])]
           result == (CHOOSE g : Folds(g))[D]
<1>1. FirstSeen(seq, limit) = result
  BY DEF FirstSeen, FoldLeft, MapThenFoldSet
<1> DEFINE pick == [s \in SUBSET D |-> Max(s)]
           step == [p \in D \X Seq(Urls) |->
                      IF seq[p[1]] \in ToSet(p[2]) \/ Len(p[2]) >= limit
                      THEN p[2] ELSE Append(p[2], seq[p[1]])]
<1>2. D = 1..Len(seq) /\ Len(seq) \in Nat /\ IsFiniteSet(D) /\ \A i \in D : seq[i] \in Urls
  BY FS_Interval
<1>3. \A s \in SUBSET D : s # {} => Max(s) \in s
  <2> TAKE s \in SUBSET D
  <2> HAVE s # {}
  <2>1. s \in SUBSET Nat /\ s \subseteq 1..Len(seq)
    BY <1>2
  <2> QED BY <1>2, <2>1, Greatest
<1>4. step \in [D \X Seq(Urls) -> Seq(Urls)]
  BY <1>2
<1>5. \A s \in SUBSET D : s # {} => pick[s] \in s /\ pick[s] = Max(s)
  BY <1>3
<1>6. \E g \in [SUBSET D -> Seq(Urls)] : FoldOf(g, D, << >>, pick, step)
  <2> HIDE DEF D, pick, step
  <2>1. << >> \in Seq(Urls)
    OBVIOUS
  <2>2. Picks(pick, D)
    BY <1>5 DEF Picks
  <2>3. IsFiniteSet(D)
    BY <1>2
  <2> QED BY <1>4, <2>1, <2>2, <2>3, FoldDefined
<1>7. \E g : Folds(g)
  <2>1. PICK g \in [SUBSET D -> Seq(Urls)] : \A s \in SUBSET D :
         g[s] = IF s = {} THEN << >> ELSE step[<<pick[s], g[s \ {pick[s]}]>>]
    BY <1>6 DEF FoldOf
  <2>2. ASSUME NEW s \in SUBSET D
        PROVE  g[s] = IF s = {} THEN << >>
             ELSE IF seq[Max(s)] \in ToSet(g[s \ {Max(s)}]) \/ Len(g[s \ {Max(s)}]) >= limit
                  THEN g[s \ {Max(s)}] ELSE Append(g[s \ {Max(s)}], seq[Max(s)])
    <3>1. CASE s = {}
      BY <2>1, <3>1
    <3>2. CASE s # {}
      <4>1. Max(s) \in D /\ s \ {Max(s)} \in SUBSET D /\ pick[s] = Max(s)
        BY <3>2, <1>5
      <4>2. g[s \ {Max(s)}] \in Seq(Urls)
        BY <4>1
      <4>3. g[s] = step[<<Max(s), g[s \ {Max(s)}]>>]
        BY <2>1, <3>2, <4>1
      <4> HIDE DEF D, pick
      <4> QED BY <3>2, <4>1, <4>2, <4>3
    <3> QED BY <3>1, <3>2
  <2>3. Folds(g)
    BY <2>2
  <2> HIDE DEF Folds
  <2> QED BY <2>3
<1> DEFINE h == CHOOSE g : Folds(g)
<1>8. Folds(h)
  <2> HIDE DEF Folds
  <2> QED BY <1>7
<1> HIDE DEF h
<1>9. h[{}] \in Seq(Urls)
  BY <1>8
<1>10. ASSUME NEW s \in SUBSET D, s # {}, h[s \ {pick[s]}] \in Seq(Urls)
       PROVE  h[s] \in Seq(Urls)
  <2>1. pick[s] = Max(s) /\ seq[Max(s)] \in Urls
    BY <1>2, <1>5, <1>10
  <2>2. h[s] \in {h[s \ {Max(s)}], Append(h[s \ {Max(s)}], seq[Max(s)])}
    BY <1>8, <1>10
  <2> HIDE DEF pick, Folds, D
  <2>3. h[s \ {Max(s)}] \in Seq(Urls)
    BY <1>10, <2>1
  <2>4. Append(h[s \ {Max(s)}], seq[Max(s)]) \in Seq(Urls)
    BY <2>1, <2>3
  <2> QED BY <2>2, <2>3, <2>4
<1>11. h[D] \in Seq(Urls)
  <2> HIDE DEF D, pick, Folds
  <2>1. Picks(pick, D)
    BY <1>5 DEF Picks
  <2> QED BY <1>2, <2>1, <1>9, <1>10, FoldKeeps
<1> QED BY <1>1, <1>11 DEF h

LEMMA ExtractedUrls ==
  ASSUME NEW lines \in Seq(SourceLine), NEW limit
  PROVE  ExtractSourceUrls(lines, limit) \in Seq(Urls)
<1> DEFINE all == FlattenSeq([i \in DOMAIN lines |-> lines[i].urls])
<1>1. [i \in DOMAIN lines |-> lines[i].urls] \in Seq(Seq(Urls))
  <2>1. DOMAIN lines = 1..Len(lines) /\ Len(lines) \in Nat
    OBVIOUS
  <2>2. \A i \in 1..Len(lines) : lines[i].urls \in Seq(Urls)
    <3>1. \A i \in 1..Len(lines) : lines[i] \in SourceLine
      OBVIOUS
    <3> QED BY <3>1 DEF SourceLine
  <2> QED BY <2>1, <2>2, IsASeq
<1>2. all \in Seq(Urls)
  BY <1>1, FlattenType
<1> HIDE DEF all
<1>3. FirstSeen(all, limit) \in Seq(Urls)
  BY <1>2, FreshUrls
<1> QED BY <1>3 DEF ExtractSourceUrls, FirstSeen, all

(* The entries of a bibliography are sequences of addresses.               *)
Folded(entries, l) ==
  IF entries = << >> THEN entries ELSE [entries EXCEPT ![Len(entries)] = @ \o l.urls]

Entered(entries, l, depth) ==
  CASE l.indent = depth -> Append(entries, l.urls)
    [] l.indent \in 0..(depth - 1) -> entries
    [] OTHER -> Folded(entries, l)

EntriesAt(lines, depth) ==
  LET add(entries, l) == Entered(entries, l, depth) IN FoldLeft(add, << >>, lines)

LEMMA EnteredType ==
  ASSUME NEW entries \in Seq(Seq(Urls)), NEW l \in SourceLine, NEW depth
  PROVE  Entered(entries, l, depth) \in Seq(Seq(Urls))
<1>1. l.urls \in Seq(Urls)
  BY DEF SourceLine
<1>2. Append(entries, l.urls) \in Seq(Seq(Urls))
  BY <1>1
<1>3. Folded(entries, l) \in Seq(Seq(Urls))
  <2>1. CASE entries = << >>
    BY <2>1 DEF Folded
  <2>2. CASE entries # << >>
    <3> DEFINE n == Len(entries)
    <3>1. n \in 1..Len(entries) /\ entries[n] \in Seq(Urls)
      BY <2>2
    <3>2. entries[n] \o l.urls \in Seq(Urls)
      BY <1>1, <3>1
    <3>3. [entries EXCEPT ![n] = entries[n] \o l.urls] \in Seq(Seq(Urls))
      BY <3>1, <3>2, ExceptSeq
    <3> QED BY <2>2, <3>3 DEF Folded
  <2> QED BY <2>1, <2>2
<1> QED BY <1>2, <1>3 DEF Entered

LEMMA EntriesAtType ==
  ASSUME NEW lines \in Seq(SourceLine), NEW depth
  PROVE  EntriesAt(lines, depth) \in Seq(Seq(Urls))
<1> DEFINE D == DOMAIN lines
           T == Seq(Seq(Urls))
           Folds(g) == g = [s \in SUBSET D |->
             IF s = {} THEN << >> ELSE Entered(g[s \ {Max(s)}], lines[Max(s)], depth)]
           h == CHOOSE g : Folds(g)
           pick == [s \in SUBSET D |-> Max(s)]
           step == [p \in D \X T |-> Entered(p[2], lines[p[1]], depth)]
<1>1. EntriesAt(lines, depth) = h[D]
  BY DEF EntriesAt, FoldLeft, MapThenFoldSet
<1>2. D = 1..Len(lines) /\ Len(lines) \in Nat /\ IsFiniteSet(D)
      /\ \A i \in D : lines[i] \in SourceLine
  BY FS_Interval
<1>3. \A s \in SUBSET D : s # {} => Max(s) \in s
  <2> TAKE s \in SUBSET D
  <2> HAVE s # {}
  <2>1. s \in SUBSET Nat /\ s \subseteq 1..Len(lines)
    BY <1>2
  <2> QED BY <1>2, <2>1, Greatest
<1>4. Picks(pick, D) /\ \A s \in SUBSET D : pick[s] = Max(s)
  BY <1>3 DEF Picks
<1>5. step \in [D \X T -> T]
  BY <1>2, EnteredType
<1>6. << >> \in T
  OBVIOUS
<1>7. PICK g \in [SUBSET D -> T] : FoldOf(g, D, << >>, pick, step)
  <2> HIDE DEF D, T, pick, step
  <2> QED BY <1>2, <1>4, <1>5, <1>6, FoldDefined
<1>8. Folds(g)
  <2>1. ASSUME NEW s \in SUBSET D, s # {}
        PROVE  g[s] = Entered(g[s \ {Max(s)}], lines[Max(s)], depth)
    <3>1. Max(s) \in D /\ s \ {Max(s)} \in SUBSET D /\ pick[s] = Max(s)
      BY <2>1, <1>3, <1>4
    <3>2. g[s \ {Max(s)}] \in T
      BY <3>1
    <3>3. g[s] = step[<<Max(s), g[s \ {Max(s)}]>>]
      BY <1>7, <2>1, <3>1 DEF FoldOf
    <3> HIDE DEF D, T
    <3> QED BY <3>1, <3>2, <3>3
  <2>2. g[{}] = << >>
    BY <1>7 DEF FoldOf
  <2> HIDE DEF D, T, pick, step
  <2> QED BY <2>1, <2>2
<1>9. Folds(h)
  <2> HIDE DEF Folds
  <2> QED BY <1>8
<1> HIDE DEF h
<1>10. h[{}] \in T
  BY <1>6, <1>9
<1>11. ASSUME NEW s \in SUBSET D, s # {}, h[s \ {pick[s]}] \in T
       PROVE  h[s] \in T
  <2>1. pick[s] = Max(s) /\ Max(s) \in D
    BY <1>3, <1>4, <1>11
  <2>2. h[s] = Entered(h[s \ {Max(s)}], lines[Max(s)], depth)
    BY <1>9, <1>11
  <2>3. lines[Max(s)] \in SourceLine
    BY <1>2, <2>1
  <2> HIDE DEF pick, D, Folds
  <2> QED BY <1>11, <2>1, <2>2, <2>3, EnteredType
<1>12. h[D] \in T
  <2> HIDE DEF D, T, pick, Folds
  <2> QED BY <1>2, <1>4, <1>10, <1>11, FoldKeeps
<1> QED BY <1>1, <1>12 DEF h

LEMMA EntriesType ==
  ASSUME NEW lines \in Seq(SourceLine)
  PROVE  SourceEntries(lines) \in Seq(Seq(Urls))
<1>1. [i \in DOMAIN lines |-> lines[i].urls] \in Seq(Seq(Urls))
  <2>1. DOMAIN lines = 1..Len(lines) /\ Len(lines) \in Nat
    OBVIOUS
  <2>2. \A i \in 1..Len(lines) : lines[i].urls \in Seq(Urls)
    <3>1. \A i \in 1..Len(lines) : lines[i] \in SourceLine
      OBVIOUS
    <3> QED BY <3>1 DEF SourceLine
  <2> QED BY <2>1, <2>2, IsASeq
<1>2. Marked(lines) # {} => SourceEntries(lines) = EntriesAt(lines, EntryIndent(lines))
  BY DEF SourceEntries, EntriesAt, Entered, Folded
<1> QED BY <1>1, <1>2, EntriesAtType DEF SourceEntries

-----------------------------------------------------------------------------
(* Tallies and how far they got.                                           *)
Tallies ==
  [cited : Nat, addressable : Nat, not_addressable : Int, attempted : Nat,
   not_attempted : Nat, body_backed_entries : Nat, bodies_read : Nat, metadata_only : Nat,
   blocked_or_unreadable : Nat, not_found : Nat, budget_exhausted : Nat]

LEMMA CoverageType ==
  ASSUME NEW lines \in Seq(SourceLine), NEW got
  PROVE  Coverage(lines, got) \in Tallies
<1> DEFINE entries == SourceEntries(lines)
           url(i) == EntryUrl(entries[i])
           addressed == {i \in DOMAIN entries : url(i) # NoAddress}
           asked == {i \in addressed : url(i) \in DOMAIN got}
           in(outcomes) == {i \in asked : got[url(i)].outcome \in outcomes}
           mapped == {"full_text", "metadata_only", "not_found", "budget_exhausted"}
<1>1. entries \in Seq(Seq(Urls))
  BY EntriesType
<1> HIDE DEF entries
<1>2. IsFiniteSet(DOMAIN entries) /\ Len(entries) \in Nat
  BY <1>1, FS_Interval
<1>3. \A s \in SUBSET DOMAIN entries : IsFiniteSet(s) /\ Cardinality(s) \in Nat
  BY <1>2, FS_Subset, FS_CardinalityType
<1> HIDE DEF url
<1>4. /\ addressed \in SUBSET DOMAIN entries /\ asked \in SUBSET DOMAIN entries
      /\ addressed \ asked \in SUBSET DOMAIN entries
      /\ \A o : in(o) \in SUBSET DOMAIN entries
  OBVIOUS
<1>5. Cardinality({url(i) : i \in in({"full_text"})}) \in Nat
  <2> DEFINE S == in({"full_text"})
             T == {url(i) : i \in S}
             f == [i \in S |-> url(i)]
  <2>1. IsFiniteSet(S)
    BY <1>3, <1>4
  <2> HIDE DEF S
  <2>2. f \in Surjection(S, T)
    BY DEF Surjection
  <2>3. IsFiniteSet(T)
    BY <2>1, <2>2, FS_Surjection
  <2>4. Cardinality(T) \in Nat
    BY <2>3, FS_CardinalityType
  <2> QED BY <2>4 DEF S
<1>6. /\ Cardinality(addressed) \in Nat /\ Cardinality(asked) \in Nat
      /\ Cardinality(addressed \ asked) \in Nat
      /\ \A o : Cardinality(in(o)) \in Nat
  BY <1>3, <1>4
<1>7. Coverage(lines, got) =
        [cited |-> Len(entries),
         addressable |-> Cardinality(addressed),
         not_addressable |-> Len(entries) - Cardinality(addressed),
         attempted |-> Cardinality(asked),
         not_attempted |-> Cardinality(addressed \ asked),
         body_backed_entries |-> Cardinality(in({"full_text"})),
         bodies_read |-> Cardinality({url(i) : i \in in({"full_text"})}),
         metadata_only |-> Cardinality(in({"metadata_only"})),
         blocked_or_unreadable |-> Cardinality(in(Outcomes \ mapped)),
         not_found |-> Cardinality(in({"not_found"})),
         budget_exhausted |-> Cardinality(in({"budget_exhausted"}))]
  BY DEF Coverage, entries, url
<1>8. Len(entries) - Cardinality(addressed) \in Int
  BY <1>2, <1>6
<1> HIDE DEF addressed, asked, in, mapped
<1> QED BY <1>2, <1>5, <1>6, <1>7, <1>8 DEF Tallies

LEMMA NoTallyIsNone == NoTally \notin Tallies
<1>1. DOMAIN NoTally = {"cited"} /\ \A t \in Tallies : "attempted" \in DOMAIN t
  BY DEF NoTally, Tallies
<1> QED BY <1>1

LEMMA GreatestOfTwo ==
  ASSUME NEW m \in Int, NEW n \in Int
  PROVE  Max({m, n}) \in Int
<1>1. \E x \in {m, n} : \A y \in {m, n} : x >= y
  BY SMT
<1>2. Max({m, n}) \in {m, n}
  BY <1>1 DEF Max
<1> QED BY <1>2

Ranks == [1..10 -> Int]

LEMMA RankType ==
  ASSUME NEW t \in Tallies
  PROVE  CoverageRank(t) \in Ranks /\ DOMAIN CoverageRank(t) = 1..10
<1>1. /\ t.cited \in Int /\ t.not_addressable \in Int /\ t.attempted \in Int
      /\ t.not_attempted \in Int /\ t.body_backed_entries \in Int /\ t.bodies_read \in Int
      /\ t.metadata_only \in Int /\ t.blocked_or_unreadable \in Int /\ t.not_found \in Int
      /\ t.budget_exhausted \in Int
  BY DEF Tallies
<1>2. t.cited - NotIndependentlyChecked(t) \in Int
  BY <1>1 DEF NotIndependentlyChecked
<1>3. Max({0, t.cited - NotIndependentlyChecked(t)}) \in Int
  BY <1>2, GreatestOfTwo
<1> DEFINE m == Max({0, t.cited - NotIndependentlyChecked(t)})
<1>4. CoverageRank(t) =
        << m, t.bodies_read, t.body_backed_entries, t.metadata_only, t.not_found, t.attempted,
           - t.blocked_or_unreadable, - t.budget_exhausted, - t.not_attempted,
           - t.not_addressable >>
  BY DEF CoverageRank
<1>5. /\ - t.blocked_or_unreadable \in Int /\ - t.budget_exhausted \in Int
      /\ - t.not_attempted \in Int /\ - t.not_addressable \in Int /\ m \in Int
  BY <1>1, <1>3
<1> HIDE DEF m
<1> QED BY <1>1, <1>4, <1>5 DEF Ranks

(* Having got further is a strict order.                                   *)
LEMMA FurtherIsStrict ==
  ASSUME NEW t \in Tallies
  PROVE  ~ Further(t, t)
BY RankType DEF Further, Ranks

LEMMA FurtherIsTransitive ==
  ASSUME NEW a \in Tallies, NEW b \in Tallies, NEW c \in Tallies,
         Further(a, b), Further(b, c)
  PROVE  Further(a, c)
<1> DEFINE x == CoverageRank(a)
           y == CoverageRank(b)
           z == CoverageRank(c)
<1>1. /\ x \in [1..10 -> Int] /\ y \in [1..10 -> Int] /\ z \in [1..10 -> Int]
      /\ DOMAIN x = 1..10 /\ DOMAIN y = 1..10
  BY RankType DEF Ranks
<1>2. \E i \in DOMAIN x : x[i] > y[i] /\ \A k \in 1..(i - 1) : x[k] = y[k]
  BY DEF Further
<1>3. \E i \in DOMAIN y : y[i] > z[i] /\ \A k \in 1..(i - 1) : y[k] = z[k]
  BY DEF Further
<1> HIDE DEF x, y, z
<1>4. PICK i \in 1..10 : x[i] > y[i] /\ \A k \in 1..(i - 1) : x[k] = y[k]
  BY <1>1, <1>2
<1>5. PICK j \in 1..10 : y[j] > z[j] /\ \A k \in 1..(j - 1) : y[k] = z[k]
  BY <1>1, <1>3
<1>6. \E n \in DOMAIN x : x[n] > z[n] /\ \A k \in 1..(n - 1) : x[k] = z[k]
  <2>1. CASE i <= j
    <3>1. x[i] > z[i]
      BY <1>1, <1>4, <1>5, <2>1
    <3>2. \A k \in 1..(i - 1) : x[k] = z[k]
      BY <1>4, <1>5, <2>1
    <3> QED BY <1>1, <3>1, <3>2
  <2>2. CASE j < i
    <3>1. x[j] > z[j]
      BY <1>1, <1>4, <1>5, <2>2
    <3>2. \A k \in 1..(j - 1) : x[k] = z[k]
      BY <1>4, <1>5, <2>2
    <3> QED BY <1>1, <3>1, <3>2
  <2> QED BY <2>1, <2>2
<1> QED BY <1>6 DEF Further, x, z

-----------------------------------------------------------------------------
(* The invariant of the review, and that every step keeps it.              *)
ReviewTypes ==
  /\ pass \in 0..Len(Passes) /\ boots \in Nat
  /\ sink \in [DOMAIN Drafts -> Tallies \cup {NoTally}]
  /\ saved \in [DOMAIN Drafts -> Tallies \cup {NoTally}]
  /\ DOMAIN work = Readers
  /\ \A r \in Readers :
        /\ work[r] = [at |-> work[r].at, got |-> work[r].got, tally |-> work[r].tally]
        /\ IsFiniteSet(DOMAIN work[r].got)
        /\ work[r].tally \in Tallies \cup {NoTally}

(* A tally that is there, and that the other did not get further than.     *)
Reached(recorded, tally) == recorded # NoTally /\ ~ Further(tally, recorded)

Furthest ==
  /\ \A r \in Readers : Running /\ work[r].tally # NoTally => Reached(sink[Draft], work[r].tally)
  /\ \A d \in DOMAIN Drafts : saved[d] # NoTally => Reached(sink[d], saved[d])

ReviewInv == ReviewTypes /\ Furthest

LEMMA CurrentDraft ==
  ASSUME ReviewTypes, Running
  PROVE  Draft \in DOMAIN Drafts /\ Lines \in Seq(SourceLine) /\ pass + 1 \in 1..Len(Passes)
<1>1. pass + 1 \in 1..Len(Passes)
  BY ReviewConstants DEF ReviewTypes, Running
<1>2. Draft \in DOMAIN Drafts
  BY <1>1, ReviewConstants DEF Draft
<1> QED BY <1>1, <1>2, DraftLines DEF Lines

LEMMA VerifiedUrlsType ==
  ASSUME ReviewTypes, Running
  PROVE  VerifiedUrls \in Seq(Urls)
<1>1. ExtractSourceUrls(Lines, MaxSourceUrls) \in Seq(Urls)
  BY CurrentDraft, ExtractedUrls
<1> QED BY <1>1 DEF VerifiedUrls

(* What is recorded gets no less far when another tally comes in.          *)
LEMMA RecordedReaches ==
  ASSUME NEW current \in Tallies \cup {NoTally}, NEW observed \in Tallies
  PROVE  /\ Recorded(current, observed) \in Tallies
         /\ Reached(Recorded(current, observed), observed)
         /\ \A t \in Tallies : Reached(current, t) => Reached(Recorded(current, observed), t)
         /\ current # NoTally => Reached(Recorded(current, observed), current)
<1>1. observed # NoTally /\ ~ Further(observed, observed)
  BY NoTallyIsNone, FurtherIsStrict
<1>2. CASE current = NoTally
  BY <1>1, <1>2 DEF Recorded, Reached
<1>3. CASE current # NoTally /\ Further(observed, current)
  <2>1. \A t \in Tallies : Further(t, observed) => Further(t, current)
    BY <1>3, FurtherIsTransitive
  <2>2. ~ Further(current, current)
    BY <1>3, FurtherIsStrict
  <2>3. Recorded(current, observed) = observed
    BY <1>3 DEF Recorded
  <2> QED BY <1>1, <1>3, <2>1, <2>2, <2>3 DEF Reached
<1>4. CASE current # NoTally /\ ~ Further(observed, current)
  <2>1. ~ Further(current, current)
    BY <1>4, FurtherIsStrict
  <2> QED BY <1>4, <2>1 DEF Recorded, Reached
<1> QED BY <1>2, <1>3, <1>4

LEMMA ReviewInit ==
  ASSUME Init
  PROVE  LadderInv /\ ReviewInv
<1>1. LadderTypes
  BY DEF Init, LadderInit, LadderTypes, Results
<1>2. \A r \in Readers : FetchInv(call[r], known)
  BY DEF Init, LadderInit, FetchInv, OnFreeRungs, Idle
<1>3. \A r \in Readers : work[r] = Fresh
  BY DEF Init
<1>4. Fresh.tally = NoTally /\ Fresh.got = << >> /\ IsFiniteSet(DOMAIN << >>)
  <2>1. DOMAIN << >> = {}
    OBVIOUS
  <2> QED BY <2>1, FS_EmptySet DEF Fresh
<1>5. ReviewTypes
  <2>1. pass \in 0..Len(Passes) /\ boots \in Nat
    <3>1. Len(Passes) \in Nat
      BY ReviewConstants
    <3> QED BY <3>1 DEF Init
  <2>2. \A r \in Readers :
        /\ work[r] = [at |-> work[r].at, got |-> work[r].got, tally |-> work[r].tally]
        /\ IsFiniteSet(DOMAIN work[r].got)
        /\ work[r].tally \in Tallies \cup {NoTally}
    BY <1>3, <1>4 DEF Fresh
  <2> QED BY <2>1, <2>2 DEF Init, ReviewTypes
<1>6. Furthest
  BY <1>3, <1>4 DEF Init, Furthest
<1> QED BY <1>1, <1>2, <1>5, <1>6 DEF LadderInv, ReviewInv

LEMMA FetchNextStep ==
  ASSUME LadderInv, ReviewInv, NEW r \in Readers, FetchNext(r)
  PROVE  LadderInv' /\ ReviewInv'
<1> DEFINE n == Cardinality(DOMAIN work[r].got) + 1
<1>1. n \in 1..Len(VerifiedUrls)
  <2>1. Cardinality(DOMAIN work[r].got) \in Nat
    BY FS_CardinalityType DEF ReviewInv, ReviewTypes
  <2>2. Len(VerifiedUrls) \in Nat
    BY VerifiedUrlsType DEF ReviewInv, FetchNext
  <2> QED BY <2>1, <2>2 DEF FetchNext
<1>2. VerifiedUrls[n] \in Urls
  <2> HIDE DEF n
  <2>1. VerifiedUrls \in Seq(Urls)
    BY VerifiedUrlsType DEF ReviewInv, FetchNext
  <2> QED BY <1>1, <2>1, ElementOfSeq
<1>3. LadderInv'
  BY <1>2, FetchStep DEF FetchNext
<1>4. ReviewInv'
  BY DEF ReviewInv, ReviewTypes, Furthest, FetchNext, Running, Draft
<1> QED BY <1>3, <1>4

LEMMA CollectStep ==
  ASSUME LadderInv, ReviewInv, NEW r \in Readers, Collect(r)
  PROVE  LadderInv' /\ ReviewInv'
<1>1. FetchInv(Idle, known)
  BY DEF FetchInv, OnFreeRungs, Idle
<1>2. LadderInv'
  BY <1>1, Stays DEF Collect
<1> DEFINE got == With(work[r].got, call[r].url, call[r].result)
<1>3. work' = [work EXCEPT ![r].got = got]
  BY DEF Collect
<1>4. IsFiniteSet(DOMAIN got)
  <2>1. DOMAIN got = DOMAIN work[r].got \cup {call[r].url}
    BY DEF With
  <2>2. IsFiniteSet(DOMAIN work[r].got)
    BY DEF ReviewInv, ReviewTypes
  <2> HIDE DEF got
  <2> QED BY <2>1, <2>2, FS_AddElement
<1> HIDE DEF got
<1>5. /\ DOMAIN work' = Readers
      /\ \A q \in Readers : /\ work'[q].tally = work[q].tally
                            /\ work'[q] = [at |-> work'[q].at, got |-> work'[q].got,
                                           tally |-> work'[q].tally]
                            /\ IsFiniteSet(DOMAIN work'[q].got)
  BY <1>3, <1>4 DEF ReviewInv, ReviewTypes
<1>6. ReviewTypes'
  BY <1>5 DEF ReviewInv, ReviewTypes, Collect
<1>7. Furthest'
  BY <1>5 DEF ReviewInv, Furthest, Collect, Running, Draft
<1> QED BY <1>2, <1>6, <1>7 DEF ReviewInv

LEMMA TallyStep ==
  ASSUME ReviewInv, NEW r \in Readers, Tally(r)
  PROVE  ReviewInv'
<1> DEFINE observed == Coverage(Lines, work[r].got)
           kept == Recorded(sink[Draft], observed)
<1>1. /\ Running /\ sink' = [sink EXCEPT ![Draft] = kept]
      /\ work' = [work EXCEPT ![r].at = "reviewing", ![r].tally = observed]
      /\ UNCHANGED <<pass, saved, boots>>
  BY DEF Tally
<1>2. Draft \in DOMAIN Drafts /\ observed \in Tallies
  BY <1>1, CurrentDraft, CoverageType DEF ReviewInv
<1> HIDE DEF observed
<1>3. sink[Draft] \in Tallies \cup {NoTally}
  BY <1>2 DEF ReviewInv, ReviewTypes
<1>4. /\ kept \in Tallies /\ Reached(kept, observed)
      /\ \A t \in Tallies : Reached(sink[Draft], t) => Reached(kept, t)
      /\ sink[Draft] # NoTally => Reached(kept, sink[Draft])
  BY <1>2, <1>3, RecordedReaches
<1> HIDE DEF kept
<1>5. /\ DOMAIN work' = Readers
      /\ \A q \in Readers :
           /\ work'[q].tally = IF q = r THEN observed ELSE work[q].tally
           /\ work'[q] = [at |-> work'[q].at, got |-> work'[q].got, tally |-> work'[q].tally]
           /\ work'[q].got = work[q].got
  <2>1. /\ DOMAIN work = Readers
        /\ work[r] = [at |-> work[r].at, got |-> work[r].got, tally |-> work[r].tally]
        /\ \A q \in Readers :
             work[q] = [at |-> work[q].at, got |-> work[q].got, tally |-> work[q].tally]
    BY DEF ReviewInv, ReviewTypes
  <2>2. /\ DOMAIN work' = Readers /\ \A q \in Readers \ {r} : work'[q] = work[q]
        /\ work'[r] = [work[r] EXCEPT !.at = "reviewing", !.tally = observed]
    BY <1>1, <2>1
  <2>3. work'[r] = [at |-> "reviewing", got |-> work[r].got, tally |-> observed]
    BY <2>1, <2>2
  <2> QED BY <2>1, <2>2, <2>3
<1>6. ReviewTypes'
  <2>1. sink' \in [DOMAIN Drafts -> Tallies \cup {NoTally}]
    BY <1>1, <1>2, <1>4 DEF ReviewInv, ReviewTypes
  <2>2. \A q \in Readers :
           /\ work'[q] = [at |-> work'[q].at, got |-> work'[q].got, tally |-> work'[q].tally]
           /\ IsFiniteSet(DOMAIN work'[q].got)
           /\ work'[q].tally \in Tallies \cup {NoTally}
    BY <1>2, <1>5 DEF ReviewInv, ReviewTypes
  <2> QED BY <1>1, <1>5, <2>1, <2>2 DEF ReviewInv, ReviewTypes
<1>7. sink'[Draft] = kept /\ \A d \in DOMAIN Drafts : d # Draft => sink'[d] = sink[d]
  BY <1>1, <1>2 DEF ReviewInv, ReviewTypes
<1>8. ASSUME NEW q \in Readers, work'[q].tally # NoTally
      PROVE  Reached(kept, work'[q].tally)
  <2>1. CASE q = r
    BY <2>1, <1>4, <1>5
  <2>2. CASE q # r
    <3>1. work'[q].tally = work[q].tally /\ work[q].tally \in Tallies
      BY <2>2, <1>5, <1>8 DEF ReviewInv, ReviewTypes
    <3>2. Reached(sink[Draft], work[q].tally)
      BY <1>1, <1>8, <3>1 DEF ReviewInv, Furthest
    <3> QED BY <1>4, <3>1, <3>2
  <2> QED BY <2>1, <2>2
<1>9. ASSUME NEW d \in DOMAIN Drafts, saved[d] # NoTally
      PROVE  Reached(sink'[d], saved[d])
  <2>1. Reached(sink[d], saved[d]) /\ saved[d] \in Tallies
    BY <1>9 DEF ReviewInv, ReviewTypes, Furthest
  <2> QED BY <1>4, <1>7, <2>1
<1>10. Furthest'
  <2>1. Draft' = Draft
    BY <1>1 DEF Draft
  <2> QED BY <1>1, <1>7, <1>8, <1>9, <2>1 DEF Furthest
<1> QED BY <1>6, <1>10 DEF ReviewInv

LEMMA ReviewStep ==
  ASSUME ReviewInv, NEW r \in Readers, Review(r)
  PROVE  ReviewInv'
<1>1. PICK end \in {"reviewed", "refused"} : work' = [work EXCEPT ![r].at = end]
  BY DEF Review
<1>2. /\ DOMAIN work' = Readers
      /\ \A q \in Readers :
           /\ work'[q].tally = work[q].tally /\ work'[q].got = work[q].got
           /\ work'[q] = [at |-> work'[q].at, got |-> work'[q].got, tally |-> work'[q].tally]
  BY <1>1 DEF ReviewInv, ReviewTypes
<1>3. ReviewTypes'
  BY <1>2 DEF ReviewInv, ReviewTypes, Review
<1>4. Furthest'
  BY <1>2 DEF ReviewInv, Furthest, Review, Running, Draft
<1> QED BY <1>3, <1>4 DEF ReviewInv

(* A pass that starts afresh has no tallies.                               *)
LEMMA Afresh ==
  ASSUME work' = [q \in Readers |-> Fresh]
  PROVE  /\ DOMAIN work' = Readers
         /\ \A q \in Readers :
              /\ work'[q] = [at |-> work'[q].at, got |-> work'[q].got, tally |-> work'[q].tally]
              /\ IsFiniteSet(DOMAIN work'[q].got) /\ work'[q].tally = NoTally
<1>1. Fresh.tally = NoTally /\ Fresh.got = << >> /\ DOMAIN << >> = {}
      /\ Fresh = [at |-> Fresh.at, got |-> Fresh.got, tally |-> Fresh.tally]
  BY DEF Fresh
<1> QED BY <1>1, FS_EmptySet

LEMMA CheckpointStep ==
  ASSUME ReviewInv, Checkpoint
  PROVE  ReviewInv'
<1>1. ReviewTypes'
  <2>1. pass' \in 0..Len(Passes)
    BY CurrentDraft, ReviewConstants DEF ReviewInv, ReviewTypes, Checkpoint
  <2> QED BY <2>1, Afresh DEF ReviewInv, ReviewTypes, Checkpoint
<1>2. Furthest'
  <2>1. \A d \in DOMAIN Drafts : saved'[d] # NoTally => Reached(sink'[d], saved'[d])
    BY FurtherIsStrict DEF ReviewInv, ReviewTypes, Checkpoint, Reached
  <2> QED BY <2>1, Afresh DEF Furthest, Checkpoint
<1> QED BY <1>1, <1>2 DEF ReviewInv

LEMMA RestartStep ==
  ASSUME LadderInv, ReviewInv, Restart
  PROVE  LadderInv' /\ ReviewInv'
<1>1. LadderTypes'
  BY DEF LadderInv, LadderTypes, Restart, Results
<1>2. \A r \in Readers : FetchInv(call'[r], known')
  BY DEF Restart, FetchInv, OnFreeRungs, Idle
<1>3. ReviewTypes'
  BY Afresh DEF ReviewInv, ReviewTypes, Restart
<1>4. Furthest'
  <2>1. \A d \in DOMAIN Drafts : saved'[d] # NoTally => Reached(sink'[d], saved'[d])
    BY FurtherIsStrict DEF ReviewInv, ReviewTypes, Restart, Reached
  <2> QED BY <2>1, Afresh DEF Furthest, Restart
<1> QED BY <1>1, <1>2, <1>3, <1>4 DEF LadderInv, ReviewInv

LEMMA ClimbingStep ==
  ASSUME LadderInv, ReviewInv, NEW r \in Readers, Climbing(r)
  PROVE  LadderInv' /\ ReviewInv'
<1>1. LadderInv'
  BY ClimbStep DEF Climbing
<1>2. ReviewInv'
  BY DEF ReviewInv, ReviewTypes, Furthest, Climbing, Running, Draft
<1> QED BY <1>1, <1>2

LEMMA LadderUnchanged ==
  ASSUME LadderInv, UNCHANGED ladder
  PROVE  LadderInv'
BY DEF LadderInv, LadderTypes, ladder

LEMMA EveryStep ==
  ASSUME LadderInv, ReviewInv, [Next]_vars
  PROVE  LadderInv' /\ ReviewInv'
<1>1. ASSUME NEW r \in Readers, Tally(r) \/ Review(r)  PROVE LadderInv' /\ ReviewInv'
  <2>1. LadderInv'
    BY <1>1, LadderUnchanged DEF Tally, Review
  <2> QED BY <1>1, <2>1, TallyStep, ReviewStep
<1>2. CASE Checkpoint
  <2>1. LadderInv'
    BY <1>2, LadderUnchanged DEF Checkpoint
  <2> QED BY <1>2, <2>1, CheckpointStep
<1>3. CASE Defer \/ Crash
  BY <1>3, RestartStep DEF Defer, Crash
<1>4. CASE UNCHANGED vars
  <2>1. LadderInv'
    BY <1>4, LadderUnchanged DEF vars
  <2>2. ReviewInv'
    BY <1>4 DEF vars, ReviewInv, ReviewTypes, Furthest, Running, Draft
  <2> QED BY <2>1, <2>2
<1>5. ASSUME NEW r \in Readers, FetchNext(r) \/ Climbing(r) \/ Collect(r)
      PROVE  LadderInv' /\ ReviewInv'
  BY <1>5, FetchNextStep, ClimbingStep, CollectStep
<1> QED BY <1>1, <1>2, <1>3, <1>4, <1>5 DEF Next

-----------------------------------------------------------------------------
(* The ladder and the record of the critics keep their invariants together: *)
(* what a thread holds is what its page and its identifier made of it, and  *)
(* the record of a draft only ever gets further.                            *)
THEOREM SourcesInvariant == Spec => [](LadderInv /\ ReviewInv)
<1>1. Init => LadderInv /\ ReviewInv
  BY ReviewInit
<1>2. LadderInv /\ ReviewInv /\ [Next]_vars => (LadderInv /\ ReviewInv)'
  BY EveryStep
<1> QED BY <1>1, <1>2, PTL DEF Spec

(* Absence is neither hidden by a lack of calls nor made up: a page that   *)
(* answered 404 is reported absent unless its source was found after all,  *)
(* and no other page is, unless the registries deny it                     *)
(* (resolve/__init__.py, _free_ladder and _extract).                       *)
THEOREM AbsenceIsSound == Spec => []AbsenceIsKeptAndEarned
<1>1. LadderInv => AbsenceIsKeptAndEarned
  <2> SUFFICES ASSUME LadderInv, NEW r \in Readers, call[r].at = "store"
               PROVE  LET c == call[r]
                          confirmed == HasIdent(c.url) /\ known[Mine(r)].exists = "yes"
                          denied == HasIdent(c.url) /\ known[Mine(r)].exists = "no"
                      IN /\ c.direct.outcome = "not_found" =>
                              \/ c.result.outcome \in {"not_found", "full_text"}
                              \/ confirmed /\ c.result.outcome \in {"metadata_only", "budget_exhausted"}
                         /\ c.result.outcome = "not_found" =>
                              \/ c.direct.outcome = "not_found"
                              \/ c.direct.outcome = "error" /\ denied
    BY DEF AbsenceIsKeptAndEarned
  <2>1. Earned(call[r].url, call[r].direct, call[r].result, known)
    BY InHand DEF FetchInv
  <2> QED BY <2>1 DEF Earned, Mine
<1> QED BY <1>1, SourcesInvariant, PTL

(* Whatever order the critics finish in, the record of a draft reached at  *)
(* least as far as any of them, and never less than the checkpoint has     *)
(* (graph.py, _record_coverage).                                           *)
THEOREM CoverageIsKept == Spec => []CoverageIsFurthest
<1>1. ReviewInv => CoverageIsFurthest
  BY DEF ReviewInv, Furthest, Reached, CoverageIsFurthest
<1> QED BY <1>1, SourcesInvariant, PTL

(* What the threads of one process concluded of an identifier, or of its   *)
(* free copies, is not concluded again (resolve/__init__.py, setdefault).  *)
THEOREM ConclusionsAreStable == Spec => ConclusionsStand
<1>1. ASSUME LadderInv, [Next]_vars, boots' = boots, boots \in Nat
      PROVE  KeepsConclusions
  <2>1. known \in [Idents -> Verdicts \cup {Unasked}]
        /\ copies \in [Idents -> {"unasked", "none", "copy"}]
    BY <1>1 DEF LadderInv, LadderTypes
  <2>2. CASE UNCHANGED <<known, copies>>
    BY <2>2 DEF KeepsConclusions
  <2>3. ASSUME NEW r \in Readers, ConcludeIdentity(r)  PROVE KeepsConclusions
    BY <2>1, <2>3 DEF KeepsConclusions, ConcludeIdentity, FirstConcluded
  <2>4. ASSUME NEW r \in Readers, ConcludeCopies(r)  PROVE KeepsConclusions
    BY <2>1, <2>4 DEF KeepsConclusions, ConcludeCopies
  <2>5. CASE Restart
    BY <1>1, <2>5 DEF Restart
  <2>6. ASSUME NEW r \in Readers, Climb(r)  PROVE KeepsConclusions
    <3>1. UNCHANGED <<known, copies>> \/ ConcludeIdentity(r) \/ ConcludeCopies(r)
      BY <2>6 DEF Climb, Get, Identify, AskRegistry, Copies, AskArchive, ReadMirror,
                  ExtractBody, Store
    <3> QED BY <2>2, <2>3, <2>4, <3>1
  <2>7. ASSUME NEW r \in Readers,
               FetchNext(r) \/ Collect(r) \/ Tally(r) \/ Review(r)
        PROVE  UNCHANGED <<known, copies>>
    BY <2>7 DEF FetchNext, Fetch, Collect, Tally, Review, ladder
  <2>8. CASE Checkpoint \/ UNCHANGED vars
    <3>1. UNCHANGED <<known, copies>>
      BY <2>8 DEF Checkpoint, ladder, vars
    <3> QED BY <2>2, <3>1
  <2> QED BY <1>1, <2>2, <2>5, <2>6, <2>7, <2>8 DEF Next, Defer, Crash, Climbing
<1>2. LadderInv /\ ReviewInv /\ [Next]_vars => [boots' = boots => KeepsConclusions]_vars
  BY <1>1 DEF ReviewInv, ReviewTypes
<1> QED BY <1>2, SourcesInvariant, PTL DEF Spec, ConclusionsStand
=============================================================================
