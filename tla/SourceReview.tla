---------------------------- MODULE SourceReview ----------------------------
(***************************************************************************)
(* The evidence lens of a critique pass: its critics, each in a thread of   *)
(* the pool, fetch every address the draft lists, tally what they reached,  *)
(* and review.  A tally goes on the record of the draft, and as an event on *)
(* the run's trail, when it reached further than the one recorded.  The     *)
(* pass is recorded by the checkpoint at its end; an account that refuses   *)
(* a critic, or a crash, loses the process, its caches and its budgets, and *)
(* the pass is run again from the last checkpoint.                          *)
(***************************************************************************)
EXTENDS SourceCoverage, SourceLadder

CONSTANTS
    Passes,         \* the draft each critique pass reads, a sequence
    Drafts,         \* [draft -> the lines of its Sources section]
    MaxSourceUrls,  \* addresses of a draft that are fetched
    VerifySources,  \* cited pages are fetched at all
    MaxBoots        \* bound: processes the run gets

ASSUME ReviewConstants ==
    /\ Passes \in Seq(DOMAIN Drafts)
    /\ \A d \in DOMAIN Drafts :
          Drafts[d] \in Seq([indent : Int, label : BOOLEAN, urls : Seq(Urls)])
    /\ MaxSourceUrls \in Nat /\ VerifySources \in BOOLEAN /\ MaxBoots \in Nat

VARIABLES
    pass,       \* critique passes checkpointed
    work,       \* [Readers -> how far this critic's review is]
    sink,       \* [drafts -> the tally of the running process]
    saved,      \* [drafts -> the tally of the checkpoint], what final.json gets
    trail,      \* [drafts -> the last source_coverage event]
    boots       \* processes started

vars == <<ladder, pass, work, sink, saved, trail, boots>>

Fresh == [at |-> "fetching", got |-> <<>>, tally |-> NoTally]

Init ==
    /\ LadderInit
    /\ pass = 0 /\ boots = 1
    /\ work = [r \in Readers |-> Fresh]
    /\ sink = [d \in DOMAIN Drafts |-> NoTally]
    /\ saved = sink /\ trail = sink

Running == pass < Len(Passes)
Draft == Passes[pass + 1]
Lines == Drafts[Draft]

VerifiedUrls == IF VerifySources THEN ExtractSourceUrls(Lines, MaxSourceUrls) ELSE <<>>

-----------------------------------------------------------------------------
(* fetch_all: one address after another, in the order they are listed.     *)
FetchNext(r) ==
    /\ Running /\ work[r].at = "fetching"
    /\ Cardinality(DOMAIN work[r].got) < Len(VerifiedUrls)
    /\ Fetch(r, VerifiedUrls[Cardinality(DOMAIN work[r].got) + 1])
    /\ UNCHANGED <<pass, work, sink, saved, trail, boots>>

Climbing(r) == Climb(r) /\ UNCHANGED <<pass, work, sink, saved, trail, boots>>

Collect(r) ==
    /\ call[r].at = "done"
    /\ work' = [work EXCEPT ![r].got = With(@, call[r].url, call[r].result)]
    /\ Become(r, Idle)
    /\ UNCHANGED <<cache, known, copies, spent, pass, sink, saved, trail, boots>>

(* _record_coverage: the comparison, the record and the event are made     *)
(* under one lock.                                                         *)
Tally(r) ==
    LET observed == Coverage(Lines, work[r].got)
        kept == Recorded(sink[Draft], observed)
    IN /\ Running /\ work[r].at = "fetching"
       /\ Cardinality(DOMAIN work[r].got) = Len(VerifiedUrls)
       /\ sink' = [sink EXCEPT ![Draft] = kept]
       /\ trail' = [trail EXCEPT ![Draft] = IF kept # sink[Draft] THEN kept ELSE @]
       /\ work' = [work EXCEPT ![r].at = "reviewing", ![r].tally = observed]
       /\ UNCHANGED <<ladder, pass, saved, boots>>

(* The claim check and the review itself come to findings or to a failure, *)
(* or the account refuses the call.                                        *)
Review(r) ==
    /\ work[r].at = "reviewing"
    /\ \E end \in {"reviewed", "refused"} : work' = [work EXCEPT ![r].at = end]
    /\ UNCHANGED <<ladder, pass, sink, saved, trail, boots>>

(* _critique once its pool has drained and nobody was refused.             *)
Checkpoint ==
    /\ Running /\ \A r \in Readers : work[r].at = "reviewed"
    /\ pass' = pass + 1
    /\ saved' = sink
    /\ work' = [r \in Readers |-> Fresh]
    /\ UNCHANGED <<ladder, sink, trail, boots>>

(* A new process over the same run directory.                              *)
Restart ==
    /\ Running /\ boots < MaxBoots
    /\ boots' = boots + 1
    /\ sink' = saved
    /\ work' = [r \in Readers |-> Fresh]
    /\ cache' = [u \in Urls |-> NoSource]
    /\ known' = [d \in Idents |-> Unasked]
    /\ copies' = [d \in Idents |-> "unasked"]
    /\ spent' = [t \in DOMAIN spent |-> 0]
    /\ call' = [r \in Readers |-> Idle]
    /\ UNCHANGED <<pass, saved, trail>>

(* _defer_if_account_refused: the refusal is read when the pool has        *)
(* drained, before anything of the pass is recorded, and the run resumes   *)
(* later in a process of its own.                                          *)
Defer ==
    /\ \A r \in Readers : work[r].at \in {"reviewed", "refused"}
    /\ \E r \in Readers : work[r].at = "refused"
    /\ Restart

(* The process dies at any moment.                                         *)
Crash == Restart

Next ==
    \/ \E r \in Readers : FetchNext(r) \/ Climbing(r) \/ Collect(r) \/ Tally(r) \/ Review(r)
    \/ Checkpoint \/ Defer \/ Crash

Spec == Init /\ [][Next]_vars

-----------------------------------------------------------------------------
(* A registry's or an archive's answer, once concluded, is the answer for  *)
(* the rest of the process: two critics that resolve one identifier at     *)
(* once cannot disagree about it later (resolve/__init__.py, setdefault).  *)
ConclusionsStand == [][boots' = boots => KeepsConclusions]_vars

(* Depth above one: whatever order the critics finish in, what is recorded *)
(* of a draft reached at least as far as any of its critics did, and a     *)
(* later pass or a resume never records less than the checkpoint has       *)
(* (graph.py, _record_coverage and _critique).                             *)
CoverageIsFurthest ==
    /\ \A r \in Readers : Running /\ work[r].tally # NoTally =>
          sink[Draft] # NoTally /\ ~ Further(work[r].tally, sink[Draft])
    /\ \A d \in DOMAIN Drafts : saved[d] # NoTally => ~ Further(saved[d], sink[d])

(* "An entry is written once and never invalidated": an address that has   *)
(* an entry keeps it (fetch.py, SourceFetcher).  It does not: of two       *)
(* fetches of one address at once the later answer replaces the earlier.   *)
EvidenceIsStable ==
    [][boots' = boots => \A u \in Urls : cache[u] # NoSource => cache'[u] = cache[u]]_vars

(* "the last source_coverage event for an artifact is always the one       *)
(* final.json will carry" (graph.py, _record_coverage).                    *)
TrailEndsWithTheRecord ==
    ~ Running => \A d \in DOMAIN Drafts : trail[d] = saved[d]
=============================================================================
