----------------------------- MODULE ClaimReview -----------------------------
(***************************************************************************)
(* The claim check of one evidence critic: every citation of the draft is   *)
(* put to the critic's model, one sentence and one page at a time.  A page  *)
(* too long for one question is asked about range by range until a range    *)
(* settles it.  The verdicts become findings, replace the critic's own      *)
(* findings on the sentences they settle, and say which addresses are       *)
(* refuted.                                                                *)
(***************************************************************************)
EXTENDS Citations

CONSTANTS
    PageMax, Overlap,       \* characters shown at once, and shared by ranges
    WholePage,              \* long pages are checked to their end
    MaxPairs, MaxFailures, MaxChunksPerPair, MaxChunkCalls, MemoMax,
    Verdicts                \* what the checker may answer

ASSUME ClaimConstants ==
    /\ PageMax \in Nat \ {0} /\ Overlap \in Nat /\ WholePage \in BOOLEAN
    /\ {MaxPairs, MaxFailures, MaxChunksPerPair, MaxChunkCalls, MemoMax} \subseteq Nat \ {0}
    /\ Verdicts \subseteq {"supported", "contradicted", "absent", "quoted", "unreadable", "failed"}

VARIABLES
    check,      \* the check in progress
    memo        \* answers by question, for the run

claim == <<check, memo>>

NoCheck == [at |-> "none"]
ClaimInit == check = NoCheck /\ memo = <<>>

-----------------------------------------------------------------------------
(* Consecutive ranges of at most "size" that share "overlap" and end with  *)
(* the body.                                                               *)
ChunkBounds(total, size, overlap) ==
    LET step == size - Min({overlap, size \div 2})
        count == IF total <= size THEN 1 ELSE 1 + CeilOf(total - size, step)
    IN [i \in 1..count |-> [start |-> (i - 1) * step,
                            end |-> Min({total, (i - 1) * step + size})]]

(* What one question shows of a page, and whether that is all of the page. *)
Shown(source) == [start |-> 0, end |-> Min({source.size, PageMax})]
ShownWhole(source) == source.whole /\ source.size <= PageMax

NonBody == {"paywalled", "blocked", "metadata_only", "unreadable"}

Kept(report) == SubSeq(Pairs(report), 1, Min({Len(Pairs(report)), MaxPairs}))
CutSentences(report) == {Pairs(report)[i].sentence : i \in (MaxPairs + 1)..Len(Pairs(report))}

Verdict(pair, answer, complete) ==
    [sentence |-> pair.sentence, number |-> pair.number, url |-> pair.url,
     verdict |-> CASE answer = "quoted" -> "unreadable"
                   [] answer \in {"failed", "aborted", "unread", "capped"} -> "unchecked"
                   [] OTHER -> answer,
     complete |-> complete, anchored |-> answer = "quoted",
     \* what the verdict rests on: the ranges answered "absent"
     silent |-> {}]

Checked(answer) == answer # "failed"
Settled(v) ==
    v.verdict \in {"supported", "contradicted"} \/ (v.verdict = "absent" /\ v.complete)

-----------------------------------------------------------------------------
StartCheck(critic, report, got) ==
    /\ check.at = "none"
    /\ check' = [at |-> "pair", critic |-> critic, report |-> report, got |-> got,
                 pairs |-> Kept(report),
                 streak |-> 0, aborted |-> FALSE, chunk_calls |-> 0, verdicts |-> <<>>,
                 answers |-> <<>>, capped |-> FALSE]
    /\ UNCHANGED memo

Pending == check.at = "pair" /\ Len(check.verdicts) < Len(check.pairs)
Pair == check.pairs[Len(check.verdicts) + 1]
Page == IF Pair.url \in DOMAIN check.got THEN check.got[Pair.url] ELSE Failed("not_retrieved")
HasBody == Readable(Page) /\ Page.size > 0
Long == WholePage /\ Page.size > PageMax

(* The question is what the checker is asked, so a memo entry answers it.  *)
Question(range) ==
    LET s == check.report.body[Pair.sentence] IN
    [critic |-> check.critic, claim |-> s.claim, number |-> Pair.number, url |-> Pair.url,
     paragraph |-> {t.claim : t \in {u \in ToSet(check.report.body) : u.para = s.para}},
     page |-> Page, range |-> range]

Remember(question, answer) ==
    memo' = IF ~ Checked(answer) THEN memo
            ELSE With(IF Cardinality(DOMAIN memo) >= MemoMax THEN <<>> ELSE memo, question, answer)

(* A call's answer and what it does to the streak of failures.             *)
Called(c, answer) ==
    LET streak == IF Checked(answer) THEN 0 ELSE c.streak + 1
    IN [c EXCEPT !.streak = streak, !.aborted = c.aborted \/ streak >= MaxFailures]

Rule(c, verdict) ==
    [c EXCEPT !.at = "pair", !.verdicts = Append(@, verdict), !.answers = <<>>, !.capped = FALSE]

(* No body was fetched: the outcome itself may say there is none to read.  *)
PairUnread ==
    /\ Pending /\ ~ HasBody
    /\ check' = Rule(check, [Verdict(Pair, "unread", FALSE) EXCEPT
                               !.anchored = Page.outcome \in NonBody])
    /\ UNCHANGED memo

PairAborted ==
    /\ Pending /\ HasBody /\ check.aborted
    /\ check' = Rule(check, Verdict(Pair, "aborted", FALSE))
    /\ UNCHANGED memo

AskPage ==
    LET q == Question(Shown(Page))
        ruled(c, a) == Rule(c, [Verdict(Pair, a, ShownWhole(Page)) EXCEPT
                                  !.silent = IF a = "absent" THEN {Shown(Page)} ELSE {}])
    IN /\ Pending /\ HasBody /\ ~ check.aborted /\ ~ Long
       /\ \/ /\ q \in DOMAIN memo
             /\ check' = ruled(check, memo[q])
             /\ UNCHANGED memo
          \/ /\ q \notin DOMAIN memo
             /\ \E a \in Verdicts : check' = ruled(Called(check, a), a) /\ Remember(q, a)

-----------------------------------------------------------------------------
(* A long page, range by range: "answers" maps a range to its answer.      *)
Ranges == ToSet(ChunkBounds(Page.size, PageMax, Overlap))
Asked == DOMAIN check.answers
Answered(kinds) == {r \in Asked : check.answers[r] \in kinds}

BeginChunks ==
    /\ Pending /\ HasBody /\ ~ check.aborted /\ Long
    /\ check' = [check EXCEPT !.at = "chunks", !.capped = Cardinality(Ranges) > MaxChunksPerPair]
    /\ UNCHANGED memo

Examining ==
    /\ check.at = "chunks" /\ ~ check.aborted
    /\ Cardinality(Asked) < Min({Cardinality(Ranges), MaxChunksPerPair})
    /\ Answered({"supported", "contradicted"}) = {}

(* The next range by relevance, which is any that was not asked about.     *)
AskChunk ==
    /\ Examining
    /\ \E r \in Ranges \ Asked :
         LET q == Question(r)
             noted(c, a) == [c EXCEPT !.answers = With(@, r, a)]
         IN \/ /\ q \in DOMAIN memo
               /\ check' = noted(check, memo[q])
               /\ UNCHANGED memo
            \/ /\ q \notin DOMAIN memo /\ check.chunk_calls < MaxChunkCalls
               /\ \E a \in Verdicts :
                    /\ check' = noted(Called([check EXCEPT !.chunk_calls = @ + 1], a), a)
                    /\ Remember(q, a)
            \/ /\ q \notin DOMAIN memo /\ check.chunk_calls >= MaxChunkCalls
               /\ check' = [check EXCEPT !.at = "capped", !.capped = TRUE]
               /\ UNCHANGED memo

(* Fault: the per-pair cap is forgotten when absence is concluded.         *)
AllSilentSoFar == Answered({"absent"}) = Asked /\ Page.whole

(* Absent from the page only if every range of an uncut body was silent.   *)
AllSilent ==
    /\ Cardinality(Asked) = Cardinality(Ranges) /\ Answered({"absent"}) = Asked
    /\ Page.whole /\ ~ check.capped

ChunkVerdict ==
    LET settled == Answered({"supported", "contradicted"})
        blank == Answered({"quoted", "unreadable"})
    IN CASE settled # {} -> Verdict(Pair, check.answers[CHOOSE r \in settled : TRUE], FALSE)
         [] settled = {} /\ Cardinality(Asked) = Cardinality(Ranges) /\ blank = Asked ->
              Verdict(Pair, IF Answered({"quoted"}) = Asked THEN "quoted" ELSE "unreadable", FALSE)
         [] settled = {} /\ Answered({"absent"}) # {} ->
              [Verdict(Pair, "absent", AllSilent) EXCEPT !.silent = Answered({"absent"})]
         [] settled = {} /\ Answered({"absent"}) = {} /\ blank # {} /\ ~
              (Cardinality(Asked) = Cardinality(Ranges) /\ blank = Asked) ->
              Verdict(Pair, "unreadable", FALSE)
         [] OTHER -> Verdict(Pair, "capped", FALSE)

ConcludeChunks ==
    /\ check.at = "capped" \/ (check.at = "chunks" /\ ~ Examining)
    /\ check' = Rule([check EXCEPT !.at = "pair"], ChunkVerdict)
    /\ UNCHANGED memo

CheckStep == PairUnread \/ PairAborted \/ AskPage \/ BeginChunks \/ AskChunk \/ ConcludeChunks

CheckOver == check.at = "pair" /\ ~ Pending

-----------------------------------------------------------------------------
Among(verdicts, k) == {v \in ToSet(verdicts) : v.sentence = k}

(* A sentence contradicted by a page, or absent from one shown whole.      *)
Misrepresented(verdicts) ==
    {Finding("misrepresented_source", "major", v.sentence, {}) :
        v \in {w \in ToSet(verdicts) : Settled(w) /\ w.verdict # "supported"}}

AnchoredNonBody(v) == v.verdict \in {"unreadable", "unchecked"} /\ v.anchored

(* Fault: a sentence is judged by the citations within the cap alone.      *)
UnreadableIssuesOfKept(report, verdicts) ==
    {Finding("uncited_claim", "major", k, {v.number : v \in Among(verdicts, k)}) :
        k \in {j \in DOMAIN report.body :
                 /\ Among(verdicts, j) # {}
                 /\ \A v \in Among(verdicts, j) : AnchoredNonBody(v)}}

(* A sentence none of whose citations came back as a document.             *)
UnreadableIssues(report, verdicts) ==
    {Finding("uncited_claim", "major", k, {v.number : v \in Among(verdicts, k)}) :
        k \in {j \in DOMAIN report.body :
                 /\ Among(verdicts, j) # {} /\ j \notin CutSentences(report)
                 /\ \A v \in Among(verdicts, j) : AnchoredNonBody(v)}}

IssuesFrom(report, verdicts) == Misrepresented(verdicts) \cup UnreadableIssues(report, verdicts)

(* The critic's own findings on a sentence stand unless a verdict on the   *)
(* sentence is a reading of a page.                                        *)
Reconcile(own, verdicts) ==
    {f \in own : f.category = "misrepresented_source" =>
                   ~ \E v \in Among(verdicts, f.where) : Settled(v)}

(* The addresses this check settled, and whether it refuted them.          *)
Negative(v) == Settled(v) /\ v.verdict # "supported"
SourceStanding(verdicts) ==
    LET supported == {v.url : v \in {w \in ToSet(verdicts) : w.verdict = "supported"}}
        negative == {v.url : v \in {w \in ToSet(verdicts) : Negative(w)}}
    IN [u \in supported \cup negative |-> u \notin supported]

MergeRefuted(refuted, standing) ==
    {u \in refuted \cup DOMAIN standing : u \in DOMAIN standing => standing[u]}
=============================================================================
