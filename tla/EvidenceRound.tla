---------------------------- MODULE EvidenceRound ----------------------------
(***************************************************************************)
(* Evidence through the rounds of one run: a writer searches, reads and     *)
(* hands in a draft; what it read joins the read log; an evidence critic    *)
(* checks every citation, a completeness critic watches that the evidence   *)
(* does not shrink; what the checks settled about an address is remembered  *)
(* for the drafts to come.  A restart loses the process and its budgets and *)
(* resumes from the last checkpoint.                                       *)
(***************************************************************************)
EXTENDS ClaimReview, SourceReading

CONSTANTS
    Urls,
    PageChoices,        \* set of [Urls -> what verification gets]
    Reports,            \* drafts a writer may hand in
    Limit,              \* search.max_source_urls
    WriterAttempts,
    MaxRounds, MaxPasses, MaxBoots      \* bounds

ASSUME RoundConstants ==
    /\ Limit \in Nat /\ WriterAttempts \in Nat \ {0}
    /\ MaxRounds \in Nat /\ MaxPasses \in Nat /\ MaxBoots \in Nat
    \* a body that is there is not empty
    /\ \A choice \in PageChoices :
         /\ choice \in [Urls -> FetchedSource]
         /\ \A u \in Urls : Readable(choice[u]) => choice[u].size > 0
    /\ \A r \in Reports :
         /\ r.body \in Seq(ToSet(r.body)) /\ r.entries \in Seq(ToSet(r.entries))
         /\ \A s \in ToSet(r.body) : IsFiniteSet(s.cites)
         /\ \A e \in ToSet(r.entries) : e.url \in Urls \cup {NoAddress}

VARIABLES
    pages,      \* what fetching an address gets, while the process lives
    draft,      \* the artifact, NoDraft before the first
    baseline,   \* [text, previous]: the draft last critiqued and the one before it
    log,        \* the read log
    sets,       \* the read and cited addresses of each draft
    refuted,    \* addresses whose last settled verdict is against them
    stage,      \* "writing", "critique", "accepted" or "stopped"
    attempt,    \* [n, held]: the walk over the writers
    lenses,     \* [lens -> "pending", "clean" or "found"], as checkpointed
    fresh,      \* [lens -> this pass's result]
    sink,       \* verdicts of this pass
    count       \* [round, pass, boot]

record == <<draft, baseline, log, sets, refuted, lenses, count>>
vars == <<claim, reading, record, pages, stage, attempt, fresh, sink>>

NoDraft == [body |-> <<>>, entries |-> <<>>]
Lenses == {"evidence", "completeness"}
Pending2 == [l \in Lenses |-> "pending"]
NoAttempt == [n |-> 0, held |-> <<>>]

Init ==
    /\ ClaimInit /\ ReadingInit
    /\ pages \in PageChoices
    /\ draft = NoDraft /\ baseline = [text |-> NoDraft, previous |-> NoDraft]
    /\ log = <<>> /\ sets = <<>> /\ refuted = {}
    /\ stage = "writing" /\ attempt = NoAttempt
    /\ lenses = Pending2 /\ fresh = Pending2 /\ sink = <<>>
    /\ count = [round |-> 0, pass |-> 0, boot |-> 1]

Listed(report) == {Url(report, i) : i \in Entries(report)} \ {NoAddress}

-----------------------------------------------------------------------------
(* A writer's call.  A revision may read again what its draft lists.       *)
Write ==
    /\ stage = "writing" /\ attempt.n < WriterAttempts
    /\ \E w \in Writers : OpenSession(w, Listed(draft))
    /\ UNCHANGED <<claim, record, pages, stage, attempt, fresh, sink>>

Research ==
    /\ \/ \E results \in {Urls, {}} : Search(results)
       \/ \E u \in Urls : Read(u, pages[u])
       \/ Withdraw
    /\ UNCHANGED <<claim, record, pages, stage, attempt, fresh, sink>>

(* Written without reading: it cites what nobody read, or no longer cites  *)
(* what somebody did.                                                      *)
UnreadDraft(r) ==
    LET known == MergeReadLog(log, session.read)
    IN ~ ReadThisCall
         /\ \E i \in UnreadCited(r, known, Limit) : Url(r, i) \notin DOMAIN known
UnreadDrop(r) ==
    /\ ~ ReadThisCall /\ draft # NoDraft
    /\ DroppedRead(draft, r, log, refuted, Limit) > 0
SetAside(r) == UnreadDraft(r) \/ UnreadDrop(r)

Ship(r, read) ==
    LET merged == MergeReadLog(log, read)
    IN /\ log' = merged
       /\ sets' = Append(sets, ReadCited(r, merged, {}, Limit))
       /\ draft' = r
       /\ lenses' = Pending2 /\ fresh' = Pending2
       /\ count' = [count EXCEPT !.round = @ + 1, !.pass = 0]
       /\ stage' = "critique" /\ attempt' = NoAttempt
       /\ UNCHANGED <<baseline, refuted>>

HandIn ==
    /\ session.at = "open"
    /\ \E r \in Reports :
         IF SetAside(r)
         THEN /\ attempt' = [n    |-> attempt.n + 1,
                             held |-> <<[report |-> r, read |-> session.read]>>]
              /\ UNCHANGED <<record, stage, fresh>>
         ELSE Ship(r, session.read)
    /\ EndSession
    /\ UNCHANGED <<claim, used, reader, shown, pages, sink>>

CallFails ==
    /\ session.at = "open"
    /\ attempt' = [attempt EXCEPT !.n = @ + 1]
    /\ EndSession
    /\ UNCHANGED <<claim, used, reader, shown, record, pages, stage, fresh, sink>>

(* The walk is over: the last draft set aside ships, or nothing does.      *)
WalkEnds ==
    /\ stage = "writing" /\ session.at = "none" /\ attempt.n = WriterAttempts
    /\ IF attempt.held # <<>> THEN Ship(attempt.held[1].report, attempt.held[1].read)
       ELSE stage' = "stopped" /\ UNCHANGED <<record, attempt, fresh>>
    /\ UNCHANGED <<claim, reading, pages, sink>>

-----------------------------------------------------------------------------
(* What each lens looks at.  The baseline of a draft is the one it         *)
(* replaced, whichever pass looks.                                         *)
Previous == IF baseline.text = draft THEN baseline.previous ELSE baseline.text
Peak == PeakOf(sets, refuted)
Got == [u \in Listed(draft) |-> pages[u]]

Mechanical ==
    MechanicalCitation(Got) \cup MechanicalBibliography(draft, Limit)
      \cup (IF ReadsSpent THEN NoFindings ELSE MechanicalUnread(draft, log, Limit))
      \cup MechanicalNoAddress(draft, Limit)
      \cup (IF Previous = NoDraft THEN NoFindings
            ELSE MechanicalShrink(Previous, draft, log, Limit))

SourceLoss ==
    IF ReadsSpent THEN NoFindings ELSE MechanicalSourceLoss(draft, log, Peak, refuted, Limit)

Grave(findings) == {f \in findings : f.severity \in {"blocking", "major"}}
Standing(findings) == IF Grave(findings) = {} THEN "clean" ELSE "found"

Due(lens) == stage = "critique" /\ lenses[lens] = "pending" /\ fresh[lens] = "pending"

(* The claim check comes before the review of the evidence lens.           *)
Check ==
    /\ Due("evidence")
    /\ \/ StartCheck("critic", draft, Got) \/ CheckStep
    /\ UNCHANGED <<reading, record, pages, stage, attempt, fresh, sink>>

(* The critic's own findings, of the kind the check replaces.              *)
Own(report) ==
    {Finding("misrepresented_source", "major", p.sentence, {p.number}) : p \in ToSet(Pairs(report))}

EvidenceFindings(own) ==
    Reconcile(own, check.verdicts) \cup IssuesFrom(draft, check.verdicts) \cup Mechanical

ReviewEvidence ==
    /\ Due("evidence") /\ CheckOver
    /\ sink' = sink \o check.verdicts
    /\ \/ \E own \in {{}} \cup {{f} : f \in Own(draft)} :
            fresh' = [fresh EXCEPT !["evidence"] = Standing(EvidenceFindings(own))]
       \/ fresh' = [fresh EXCEPT !["evidence"] = "failed"]
    /\ check' = NoCheck
    /\ UNCHANGED <<memo, reading, record, pages, stage, attempt>>

(* What the completeness critic may come to.  It shares nothing with the   *)
(* evidence critic but the record as the pass began, so when it is at work *)
(* does not matter.                                                        *)
Completeness ==
    {Standing(SourceLoss \cup MechanicalHistory(draft)), "found", "failed"}

(* The pass is recorded when its pool has drained.  A failed review is     *)
(* drawn again; what the claim checks settled is kept either way.          *)
EndPass ==
    /\ stage = "critique" /\ ~ Due("evidence")
    /\ \E completeness \in
           IF lenses["completeness"] = "pending" THEN Completeness ELSE {"pending"} :
         LET result == [fresh EXCEPT !["completeness"] = completeness]
             recorded == [l \in Lenses |-> CASE result[l] = "failed" -> "pending"
                                            [] result[l] = "pending" -> lenses[l]
                                            [] OTHER -> result[l]]
             clean == \A l \in Lenses : recorded[l] = "clean"
             again == IF count.round < MaxRounds THEN {"writing"} ELSE {"stopped"}
         IN /\ lenses' = recorded
            /\ stage' \in IF \E l \in Lenses : recorded[l] = "pending"
                          THEN (IF count.pass + 1 < MaxPasses THEN {"critique"} ELSE {"stopped"})
                          ELSE again \cup (IF clean THEN {"accepted"} ELSE {})
    /\ fresh' = Pending2 /\ sink' = <<>>
    /\ baseline' = [text |-> draft, previous |-> Previous]
    /\ refuted' = MergeRefuted(refuted, SourceStanding(sink))
    /\ count' = [count EXCEPT !.pass = @ + 1]
    /\ UNCHANGED <<claim, reading, draft, log, sets, pages, attempt>>

-----------------------------------------------------------------------------
(* The account refuses a claim check, or the process dies: a new process   *)
(* starts the step over from its checkpoint, its budgets and caches new,   *)
(* and may find the pages changed.                                         *)
Restart ==
    /\ stage \in {"writing", "critique"} /\ count.boot < MaxBoots
    /\ count' = [count EXCEPT !.boot = @ + 1]
    /\ check' = NoCheck /\ memo' = <<>>
    /\ session' = NoSession /\ shown' = shown
    /\ used' = [c \in DOMAIN used |-> 0]
    /\ reader' = [calls |-> 0, failures |-> [w \in Writers |-> 0], disabled |-> {}, cards |-> <<>>]
    /\ attempt' = NoAttempt /\ fresh' = Pending2 /\ sink' = <<>>
    /\ pages' \in PageChoices
    /\ UNCHANGED <<draft, baseline, log, sets, refuted, lenses, stage>>

Next ==
    \/ Write \/ Research \/ HandIn \/ CallFails \/ WalkEnds
    \/ Check \/ ReviewEvidence \/ EndPass \/ Restart

Spec == Init /\ [][Next]_vars

-----------------------------------------------------------------------------
(* The run may stop citing evidence, but not its way to acceptance: a      *)
(* draft accepted while there was still a read to spend has lost, against  *)
(* every earlier draft, no source at all or less than the fraction of it   *)
(* (graph.py, _source_loss_issues_apply; triage.py, source_loss_floor).    *)
KeepsItsEvidence ==
    [][lenses["completeness"] = "pending" /\ lenses'["completeness"] = "clean" /\ ~ ReadsSpent =>
         \A i \in DOMAIN sets :
           LET then == Cardinality(sets[i] \ refuted)
               now == Cardinality(ReadCited(draft, log, refuted, Limit))
           IN now >= then \/ LossWhole * (then - now) < LossPart * then]_vars

(* "Read in full" is what lets a citation stand: nobody gets it for a page *)
(* no writer was shown a word of, and a later failure, refusal or restart  *)
(* never takes it back (reading.py, SourceReader; graph.py,                *)
(* _merge_read_log).                                                       *)
ReadMeansShown == ReadInFull(log) \subseteq shown
ReadingIsKept == [][ReadInFull(log) \subseteq ReadInFull(log')]_vars

(* The check calls a page silent on a claim, which refutes the address and *)
(* makes a finding, only when the body was whole and every character of it *)
(* was in a range the checker found nothing in (claimcheck.py,             *)
(* _check_chunked).                                                        *)
AbsenceIsWholePage ==
    check.at # "none" =>
      \A v \in ToSet(check.verdicts) : v.verdict = "absent" /\ v.complete =>
        LET page == check.got[v.url]
        IN page.whole /\ \A i \in 0..(page.size - 1) :
                           \E r \in v.silent : r.start <= i /\ i < r.end

(* A sentence is called unreadable only when every citation in it was      *)
(* checked, the ones beyond the cap too, and none came back as a document  *)
(* (claimcheck.py, _unreadable_issues).                                    *)
UnreadableFindingIsEarned ==
    CheckOver =>
      \A f \in UnreadableIssues(check.report, check.verdicts) :
        \A i \in DOMAIN Pairs(check.report) :
          Pairs(check.report)[i].sentence = f.where =>
            i <= Len(check.verdicts) /\ AnchoredNonBody(check.verdicts[i])

(* "reconcile drops a critic's misrepresented_source finding only for a    *)
(* settled pair" (docs/decisions.md): a finding about a citation the check *)
(* could not settle stays.                                                 *)
UnsettledCitationKeepsItsFinding ==
    CheckOver =>
      \A f \in Own(check.report) \ Reconcile(Own(check.report), check.verdicts) :
        \E v \in ToSet(check.verdicts) :
          v.sentence = f.where /\ v.number \in f.about /\ Settled(v)
=============================================================================
