----------------------------- MODULE RefineLoop -----------------------------
(***************************************************************************)
(* One run of the refine loop, as its state graph executes it:             *)
(*                                                                         *)
(*   intake -> generate -> adjudicate -> critique -> triage -> orchestrate *)
(*          -> control -> (generate | critique | finalize)                 *)
(*                                                                         *)
(* One action per node; the state is what a checkpoint holds between two   *)
(* nodes, so a crash and resume is a stutter except that the new process   *)
(* may find other models unreachable (Restart).  A node that defers the    *)
(* run because the provider account refuses also leaves the checkpoint as  *)
(* it was, and is a stutter here.                                          *)
(*                                                                         *)
(* Abstractions.  A draft is numbered by first appearance, so a writer     *)
(* that repeats itself returns an old number.  An issue is a key and a     *)
(* severity (0 minor, 1 major, 2 blocking); what a critic of a lens may    *)
(* find is the constant Reports.  A review that did not complete leaves    *)
(* only its author in `used`.  The wording of prompts (patch, rewrite,     *)
(* ops) is left out: the text a writer returns is arbitrary.               *)
(***************************************************************************)
EXTENDS StopDecision, Roles

CONSTANTS
  Paths,               \* how a run may start: "question", "seed" or both
  WriterAttempts,      \* writer calls one generation may spend
  Depth,               \* [Lenses -> critics a full pass asks per lens]
  CritiqueAttempts,    \* re-critiques after a failed lens
  ConfirmAttempts,     \* top-up passes for clearance
  StrikeLimit,         \* failing passes that sideline a critic, 0 for never
  DisputeBudget,       \* disputes a run may have ruled on, 0 when disabled
  MaxPerPass,          \* disputes one revision may raise
  Keys,                \* identities of findings
  CategoryOf,          \* [Keys -> category]
  FloorOf,             \* [Keys -> least severity of the key's category]
  Stylistic,           \* keys of the category that never counts
  Mechanical,          \* keys a fetched page can settle
  Reports,             \* [Lenses -> sets of issues a critic may return]
  Outages,             \* sets of aliases that may be unreachable together
  MaxRestarts          \* bound of the model: resumes of one run

Severities == 0..2
Issues == [key : Keys, sev : Severities]

ASSUME LoopAssumption ==
  /\ Paths \subseteq {"question", "seed"} /\ Paths # {}
  /\ WriterAttempts \in Nat \ {0}
  /\ Depth \in [Lenses -> Nat \ {0}]
  /\ CritiqueAttempts \in Nat /\ ConfirmAttempts \in Nat
  /\ StrikeLimit \in Nat /\ DisputeBudget \in Nat /\ MaxPerPass \in Nat
  /\ IsFiniteSet(Lenses) /\ IsFiniteSet(Keys)
  /\ FloorOf \in [Keys -> Severities]
  /\ Stylistic \subseteq Keys /\ Mechanical \subseteq Keys
  /\ Reports \in [Lenses -> SUBSET (SUBSET Issues)]
  /\ Outages \subseteq SUBSET Aliases
  /\ MaxRestarts \in Nat

VARIABLES
  node,          \* the node that runs next
  report,        \* the current draft, 0 before the first
  author,        \* resolved identity of its author
  rotation,      \* the writer whose turn comes next
  history,       \* every draft so far, in order
  round,         \* drafts written
  pending,       \* lenses the next critique pass reads
  reviews,       \* completed reviews of the current draft
  used,          \* [lens -> identities already asked about this draft]
  tries,         \* [lens -> reviews attempted on this draft]
  strikes,       \* [alias -> failing passes in a row]
  sidelined,     \* aliases dropped from the critic pools of this run
  clean,         \* clean records of the current draft
  defects,       \* fix tasks for the next writer
  view,          \* the bounded view the last triage built
  board,         \* [triaged draft -> its latest scoreboard row]
  stagnation,    \* equal signals in a row
  prevSignature, \* the signal of the last triage
  critiqueLeft, confirmLeft, polishUsed, rewritesUsed, disputeLeft,
  polishNext,    \* the orchestrator's advice, then the next pass's kind
  fatal,         \* no writer produced a draft
  disputes,      \* disputes the last revision raised
  ruled,         \* [key -> "none" or its verdict]
  decision,      \* the controller's last decision
  final,         \* what finalize wrote
  trail,         \* the audit trail: [draft -> what its completed reviews said]
  unreachable,   \* aliases this process runs without
  restarts,      \* resumes so far
  steps          \* node executions so far

draftVars == <<report, author, rotation, history, round>>
reviewVars == <<pending, reviews, used, tries>>
healthVars == <<strikes, sidelined>>
triageVars == <<clean, defects, view, board, stagnation, prevSignature>>
budgetVars == <<critiqueLeft, confirmLeft, polishUsed, rewritesUsed>>
disputeVars == <<disputes, ruled, disputeLeft>>
processVars == <<unreachable, restarts>>
vars == <<node, draftVars, reviewVars, healthVars, triageVars, budgetVars,
          disputeVars, polishNext, fatal, decision, final, trail, processVars, steps>>

Nobody == "(none)"
External == "external"

NoView == [blocking |-> 0, major |-> 0, minor |-> 0, failed |-> 0, round |-> 0,
           polishUsed |-> 0, stagnation |-> 0, cycle |-> FALSE]
NoDecision == [rule |-> 0, action |-> "none", status |-> "none", lenses |-> {},
               polish |-> FALSE, rewrite |-> FALSE]
NoFinal == [status |-> "none", draft |-> 0, round |-> 0, defects |-> {}]

DraftsSoFar == {history[i] : i \in DOMAIN history}

Go(n) == /\ steps' = steps + 1
         /\ node' = n

-----------------------------------------------------------------------------
(* Intake: a seed is the first draft and has no model author. *)

Init ==
  /\ node = "intake" /\ steps = 0
  /\ report = 0 /\ author = Nobody /\ rotation = 0 /\ history = << >> /\ round = 0
  /\ pending = Lenses /\ reviews = {}
  /\ used = [l \in Lenses |-> {}] /\ tries = [l \in Lenses |-> 0]
  /\ strikes = [a \in CriticAliases |-> 0] /\ sidelined = {}
  /\ clean = {} /\ defects = {} /\ view = NoView /\ board = << >>
  /\ stagnation = 0 /\ prevSignature = {}
  /\ critiqueLeft = CritiqueAttempts /\ confirmLeft = ConfirmAttempts
  /\ polishUsed = 0 /\ rewritesUsed = 0 /\ disputeLeft = DisputeBudget
  /\ polishNext = FALSE /\ fatal = FALSE
  /\ disputes = {} /\ ruled = [k \in Keys |-> "none"]
  /\ decision = NoDecision /\ final = NoFinal /\ trail = << >>
  /\ restarts = 0
  /\ unreachable \in {down \in Outages : Staffed(down, {})}

Intake ==
  /\ node = "intake"
  /\ \/ /\ "question" \in Paths
        /\ Go("generate")
        /\ UNCHANGED draftVars
     \/ /\ "seed" \in Paths
        /\ report' = 1 /\ author' = External
        /\ history' = <<1>> /\ round' = 1
        /\ Go("critique")
        /\ UNCHANGED rotation
  /\ UNCHANGED <<reviewVars, healthVars, triageVars, budgetVars, disputeVars,
                 polishNext, fatal, decision, final, trail, processVars>>

-----------------------------------------------------------------------------
(* What the completed reviews of the current draft amount to, once upheld  *)
(* disputes are suppressed and severities raised to their category floor.  *)

Upheld == {k \in Keys : ruled[k] = "upheld"}

Clamped(issues) ==
  {[key |-> i.key, sev |-> Larger(i.sev, FloorOf[i.key])] :
     i \in {j \in issues : j.key \notin Upheld}}

CountsForConvergence(i) == i.key \notin Stylistic /\ i.sev >= 1

Findings ==
  LET raised == {i \in UNION {Clamped(r.issues) : r \in reviews} : i.key \notin Stylistic}
  IN {i \in raised : \A j \in raised : j.key = i.key => j.sev <= i.sev}

CleanRecords ==
  {[artifact |-> r.artifact, lens |-> r.lens, critic |-> r.critic, author |-> r.author] :
     r \in {q \in reviews : \A i \in Clamped(q.issues) : ~ CountsForConvergence(i)}}

(* Fault: a lens counts as read once somebody was asked. *)
UnaskedLenses == {l \in Lenses : used[l] = {}}

UnreviewedLenses == Lenses \ {r.lens : r \in reviews}

Count(issues, sev) == Cardinality({i \in issues : i.sev = sev})

(* Per category, how many blocking and major findings. *)
SignalSignature ==
  LET ofCategory(c) == {i \in Findings : CategoryOf[i.key] = c}
  IN {[category |-> c, blocking |-> Count(ofCategory(c), 2), major |-> Count(ofCategory(c), 1)] :
        c \in {CategoryOf[i.key] : i \in {j \in Findings : j.sev >= 1}}}

(* The identities known to have raised a defect: those whose finding was   *)
(* material.                                                               *)
Provenance(key) ==
  {r.critic : r \in {q \in reviews :
     \E i \in Clamped(q.issues) : i.key = key /\ CountsForConvergence(i)}}

-----------------------------------------------------------------------------
(* Generate: the writers in rotation, up to WriterAttempts calls; the      *)
(* first that answers writes the next draft, old text or new.  Whatever    *)
(* the draft, every per-draft accumulator starts over.                     *)

(* A dispute carries the provenance the arbiter choice will read.          *)
Dispute(d) == [key |-> d.key, provenance |-> Provenance(d.key)]

Elicited ==
  IF polishNext \/ disputeLeft = 0 THEN {{}}
  ELSE {{Dispute(d) : d \in D} :
          D \in {E \in SUBSET {d \in defects : ruled[d.key] # "overruled"} :
                   Cardinality(E) <= MaxPerPass}}

(* Fault: clean records outlive the draft they were given for. *)
ResetAllButClean ==
  /\ reviews' = {} /\ defects' = {} /\ UNCHANGED clean
  /\ used' = [l \in Lenses |-> {}]
  /\ tries' = [l \in Lenses |-> 0]

ResetDraft ==
  /\ clean' = {} /\ reviews' = {} /\ defects' = {}
  /\ used' = [l \in Lenses |-> {}]
  /\ tries' = [l \in Lenses |-> 0]

Generate ==
  /\ node = "generate"
  /\ \E pos \in 0..(WriterAttempts - 1),
        draft \in DraftsSoFar \cup {Cardinality(DraftsSoFar) + 1} :
       /\ author' = IdentityOf[NextWriter(unreachable, rotation + pos)]
       /\ rotation' = rotation + pos + 1
       /\ report' = draft
       /\ history' = Append(history, draft)
  /\ round' = round + 1
  /\ ResetDraft
  /\ polishNext' = FALSE
  /\ pending' = Lenses
  /\ disputes' \in Elicited
  /\ Go("adjudicate")
  /\ UNCHANGED <<healthVars, view, board, stagnation, prevSignature, budgetVars,
                 ruled, disputeLeft, fatal, decision, final, trail, processVars>>

GenerateFails ==
  /\ node = "generate"
  /\ fatal' = TRUE
  /\ Go("control")
  /\ UNCHANGED <<draftVars, reviewVars, healthVars, triageVars, budgetVars,
                 disputeVars, polishNext, decision, final, trail, processVars>>

-----------------------------------------------------------------------------
(* Adjudicate: each disputed key is ruled on once.  A ruling costs one     *)
(* unit of the budget whatever its verdict; a dispute the budget cannot    *)
(* pay for is dismissed.  Only a page or an arbiter upholds.               *)

(* Fault: a dispute that nobody may rule on is never answered. *)
VerdictsOfArbiters(d) ==
  IF FirstArbiters(unreachable, author, d.provenance) # {}
  THEN {"dismissed", "upheld", "overruled"} ELSE {}

Verdicts(d) ==
  {"dismissed"}
  \cup (IF d.key \in Mechanical THEN {"upheld"} ELSE {})
  \cup (IF FirstArbiters(unreachable, author, d.provenance) # {}
        THEN {"upheld", "overruled"} ELSE {})

(* Faults: a ruled dispute is heard again; rulings overdraw the budget. *)
EveryDispute == disputes
PaidOnCredit(new) == Cardinality(new)

NewDisputes == {d \in disputes : ruled[d.key] = "none"}

Paid(new) == IF Cardinality(new) <= disputeLeft THEN Cardinality(new) ELSE disputeLeft

Adjudicate ==
  /\ node = "adjudicate"
  /\ LET new == NewDisputes
         keysOf(D) == {d.key : d \in D}
     IN \E heard \in {H \in SUBSET new : Cardinality(H) = Paid(new)} :
        \E verdict \in [keysOf(heard) -> {"upheld", "overruled", "dismissed"}] :
          /\ \A d \in heard : verdict[d.key] \in Verdicts(d)
          /\ disputeLeft' = disputeLeft - Paid(new)
          /\ ruled' = [k \in Keys |-> CASE k \in keysOf(heard) -> verdict[k]
                                       [] k \in keysOf(new) \ keysOf(heard) -> "dismissed"
                                       [] OTHER -> ruled[k]]
  /\ disputes' = {}
  /\ Go("critique")
  /\ UNCHANGED <<draftVars, reviewVars, healthVars, triageVars, budgetVars,
                 polishNext, fatal, decision, final, trail, processVars>>

-----------------------------------------------------------------------------
(* Critique: the slates of all pending lenses are drawn first, then read   *)
(* concurrently; a pass is recorded whole.                                 *)

(* The aliases outside the critic pools.  Sidelined critics are restored   *)
(* when the roster of this process cannot staff a lens without them.       *)
(* Fault: they stay out whatever the roster. *)
GoneRegardless == unreachable \cup sidelined

Gone == IF Staffed(unreachable, sidelined) THEN unreachable \cup sidelined ELSE unreachable

Wanted(l) ==
  Depth[l] - Cardinality({FamilyOf[r.critic] : r \in {q \in reviews : q.lens = l}})

Slate(l) == CriticSlate(l, author, Gone, used[l], Wanted(l), tries[l])

Slots == UNION {{[lens |-> l, alias |-> Critics[l][i]] : i \in Slate(l)} : l \in pending}

(* A call completes with a report, fails at the call layer, or fails in a  *)
(* way that says nothing about the alias.                                  *)
Outcomes(l) == [class : {"ok"}, issues : Reports[l]]
               \cup [class : {"call", "other"}, issues : {{}}]

(* Striking: every review the alias attempted this pass failed at the call *)
(* layer.  Counts saturate at StrikeLimit, the only value they are         *)
(* compared with.                                                          *)
AliasesWith(outcome, class) == {s.alias : s \in {t \in Slots : outcome[t].class = class}}

Struck(outcome) == AliasesWith(outcome, "call")
                   \ (AliasesWith(outcome, "ok") \cup AliasesWith(outcome, "other"))

NewStrikes(outcome) ==
  [a \in CriticAliases |->
     CASE a \in AliasesWith(outcome, "ok") -> 0
       [] a \in Struck(outcome) /\ strikes[a] < StrikeLimit -> strikes[a] + 1
       [] OTHER -> strikes[a]]

(* As many of the failing critics as the roster can do without. *)
Sideline(outcome) ==
  LET due == {a \in Struck(outcome) \ sidelined :
                StrikeLimit > 0 /\ NewStrikes(outcome)[a] = StrikeLimit}
      fits(S) == S = {} \/ Staffed(unreachable, sidelined \cup S)
  IN {S \in SUBSET due : fits(S) /\ \A a \in due \ S : ~ fits(S \cup {a})}

Critique ==
  /\ node = "critique"
  /\ \E outcome \in [Slots -> UNION {Outcomes(l) : l \in Lenses}] :
       /\ \A s \in Slots : outcome[s] \in Outcomes(s.lens)
       /\ reviews' = reviews \cup
            {[artifact |-> report, author |-> author, lens |-> s.lens,
              critic |-> IdentityOf[s.alias], issues |-> outcome[s].issues] :
                s \in {t \in Slots : outcome[t].class = "ok"}}
       /\ strikes' = NewStrikes(outcome)
       /\ \E S \in Sideline(outcome) : sidelined' = sidelined \cup S
  /\ used' = [l \in Lenses |->
                used[l] \cup {IdentityOf[s.alias] : s \in {t \in Slots : t.lens = l}}]
  /\ tries' = [l \in Lenses |->
                 IF l \in pending THEN tries[l] + Larger(1, Cardinality(Slate(l)))
                 ELSE tries[l]]
  /\ trail' = [d \in DOMAIN trail \cup {report} |->
                  IF d = report
                  THEN [lenses |-> {r.lens : r \in reviews'},
                        issues |-> UNION {r.issues : r \in reviews'}]
                  ELSE trail[d]]
  /\ Go("triage")
  /\ UNCHANGED <<draftVars, pending, triageVars, budgetVars, disputeVars,
                 polishNext, fatal, decision, final, processVars>>

-----------------------------------------------------------------------------
(* Triage: counts, clean records, the stagnation signal, the view and the  *)
(* scoreboard row of this draft.                                           *)

Row == [round |-> round, defects |-> Findings,
        blocking |-> Count(Findings, 2), major |-> Count(Findings, 1),
        minor |-> Count(Findings, 0)]

(* Fault: a draft keeps the row of its first triage. *)
FirstRows == [d \in DOMAIN board \cup {report} |-> IF d \in DOMAIN board THEN board[d] ELSE Row]

LatestRows == [d \in DOMAIN board \cup {report} |-> IF d = report THEN Row ELSE board[d]]

Triage ==
  /\ node = "triage"
  /\ clean' = clean \cup CleanRecords
  /\ defects' = Findings
  /\ stagnation' = IF SignalSignature # {} /\ SignalSignature = prevSignature
                   THEN stagnation + 1 ELSE 0
  /\ prevSignature' = SignalSignature
  /\ view' = [blocking |-> Row.blocking, major |-> Row.major, minor |-> Row.minor,
              failed |-> Cardinality(UnreviewedLenses), round |-> round,
              polishUsed |-> polishUsed, stagnation |-> stagnation',
              cycle |-> DetectCycle(history)]
  /\ board' = LatestRows
  /\ Go("orchestrate")
  /\ UNCHANGED <<draftVars, reviewVars, healthVars, budgetVars, disputeVars,
                 polishNext, fatal, decision, final, trail, processVars>>

(* Orchestrate: a blind model advises for or against a polish pass; a      *)
(* failed call advises against.                                            *)
Orchestrate ==
  /\ node = "orchestrate"
  /\ polishNext' \in BOOLEAN
  /\ Go("control")
  /\ UNCHANGED <<draftVars, reviewVars, healthVars, triageVars, budgetVars,
                 disputeVars, fatal, decision, final, trail, processVars>>

-----------------------------------------------------------------------------
(* Control: the table's decision, and what it costs. *)

ControllerInput ==
  [fatal |-> fatal, failed |-> view.failed, round |-> view.round,
   blocking |-> view.blocking, major |-> view.major, minor |-> view.minor,
   polishUsed |-> view.polishUsed, stagnation |-> view.stagnation, cycle |-> view.cycle,
   status |-> LensStatuses(author, Gone, report, clean, used),
   critiqueLeft |-> critiqueLeft, confirmLeft |-> confirmLeft,
   polish |-> polishNext, rewritesUsed |-> rewritesUsed]

(* Faults: a retry of a failed lens is free; a rewrite leaves the stalled  *)
(* count where it was.                                                     *)
RetryForFree(d) == critiqueLeft
StillStagnant(d) == stagnation

RetriesLeft(d) == IF d.rule = 2 THEN critiqueLeft - 1 ELSE critiqueLeft

StagnationAfter(d) == IF d.rewrite THEN 0 ELSE stagnation

Recritique(d) ==
  /\ d.action = "recritique"
  /\ pending' = d.lenses
  /\ critiqueLeft' = RetriesLeft(d)
  /\ confirmLeft' = IF d.rule = 2 THEN confirmLeft ELSE confirmLeft - 1
  /\ Go("critique")
  /\ UNCHANGED <<polishNext, polishUsed, rewritesUsed, stagnation>>

NextDraft(d) ==
  /\ d.action = "generate"
  /\ polishNext' = d.polish
  /\ polishUsed' = IF d.polish THEN polishUsed + 1 ELSE polishUsed
  /\ rewritesUsed' = IF d.rewrite THEN rewritesUsed + 1 ELSE rewritesUsed
  /\ stagnation' = StagnationAfter(d)
  /\ Go("generate")
  /\ UNCHANGED <<pending, critiqueLeft, confirmLeft>>

Stop(d) ==
  /\ d.action = "terminal"
  /\ Go("finalize")
  /\ UNCHANGED <<pending, critiqueLeft, confirmLeft, polishNext, polishUsed,
                 rewritesUsed, stagnation>>

Control ==
  /\ node = "control"
  /\ \E ci \in {ControllerInput} :
       decision' = Decide(ci, UnreviewedLenses)
  /\ Recritique(decision') \/ NextDraft(decision') \/ Stop(decision')
  /\ UNCHANGED <<draftVars, reviews, used, tries, healthVars, clean, defects, view,
                 board, prevSignature, disputeVars, fatal, final, trail, processVars>>

(* Finalize: a run that concluded well ships its current draft; any other  *)
(* ships the best row of the scoreboard with that row's own defects.       *)
Finalize ==
  /\ node = "finalize"
  /\ final' = IF decision.status \in {"accepted", "converged_unconfirmed"} \/ board = << >>
              THEN [status |-> decision.status, draft |-> report, round |-> round,
                    defects |-> defects]
              ELSE LET d == SelectShipped(board) IN
                   [status |-> decision.status, draft |-> d, round |-> board[d].round,
                    defects |-> board[d].defects]
  /\ Go("done")
  /\ UNCHANGED <<draftVars, reviewVars, healthVars, triageVars, budgetVars,
                 disputeVars, polishNext, fatal, decision, trail, processVars>>

-----------------------------------------------------------------------------
(* The process dies or is stopped and the run resumes from its checkpoint, *)
(* possibly with other models unreachable.  Startup refuses a roster that  *)
(* cannot staff a run, and the run waits for one that can.                 *)
Restart ==
  /\ node \notin {"intake", "done"}
  /\ restarts < MaxRestarts
  /\ restarts' = restarts + 1
  /\ unreachable' \in {down \in Outages : Staffed(down, {})}
  /\ UNCHANGED <<node, draftVars, reviewVars, healthVars, triageVars, budgetVars,
                 disputeVars, polishNext, fatal, decision, final, trail, steps>>

Step == \/ Intake \/ Generate \/ GenerateFails \/ Adjudicate \/ Critique
        \/ Triage \/ Orchestrate \/ Control \/ Finalize

Next == Step \/ Restart

Spec == Init /\ [][Next]_vars

(* The graph runs each node as soon as its predecessor is checkpointed;    *)
(* nothing obliges a process to die.                                       *)
FairSpec == Spec /\ WF_vars(Step)
=============================================================================
