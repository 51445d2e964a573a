------------------------ MODULE RefineLoopProperties ------------------------
(***************************************************************************)
(* What the refine loop owes its reader, stated over RefineLoop.           *)
(***************************************************************************)
EXTENDS RefineLoop

Reviews == [artifact : Nat, author : Identities \cup {External}, lens : Lenses,
            critic : Identities, issues : SUBSET Issues]
Records == [artifact : Nat, lens : Lenses, critic : Identities,
            author : Identities \cup {External}]
Views == [blocking : Nat, major : Nat, minor : Nat, failed : Nat, round : Nat,
          polishUsed : Nat, stagnation : Nat, cycle : BOOLEAN]
Rows == [round : Nat, defects : SUBSET Issues, blocking : Nat, major : Nat, minor : Nat]
Decisions == [rule : 0..14, action : {"none", "generate", "recritique", "terminal"},
              status : Terminals \cup {"none"}, lenses : SUBSET Lenses,
              polish : BOOLEAN, rewrite : BOOLEAN]

(* Every variable keeps the type its node functions assume. *)
TypeOK ==
  /\ node \in {"intake", "generate", "adjudicate", "critique", "triage", "orchestrate",
               "control", "finalize", "done"}
  /\ report \in Nat /\ author \in Identities \cup {External, Nobody}
  /\ rotation \in Nat /\ history \in Seq(Nat) /\ round \in Nat
  /\ pending \subseteq Lenses /\ reviews \subseteq Reviews
  /\ used \in [Lenses -> SUBSET Identities] /\ tries \in [Lenses -> Nat]
  /\ strikes \in [CriticAliases -> 0..StrikeLimit] /\ sidelined \subseteq CriticAliases
  /\ clean \subseteq Records /\ defects \subseteq Issues /\ view \in Views
  /\ DOMAIN board \subseteq Nat /\ \A d \in DOMAIN board : board[d] \in Rows
  /\ stagnation \in Nat
  /\ critiqueLeft \in 0..CritiqueAttempts /\ confirmLeft \in 0..ConfirmAttempts
  /\ polishUsed \in Nat /\ rewritesUsed \in 0..RewriteCap /\ disputeLeft \in 0..DisputeBudget
  /\ polishNext \in BOOLEAN /\ fatal \in BOOLEAN
  /\ ruled \in [Keys -> {"none", "upheld", "overruled", "dismissed"}]
  /\ decision \in Decisions
  /\ final.status \in Terminals \cup {"none"} /\ final.defects \subseteq Issues
  /\ unreachable \in Outages /\ restarts \in 0..MaxRestarts /\ steps \in Nat

-----------------------------------------------------------------------------
Concluded == node = "done"

(* A finding that must be answered: material at its category's floor, not  *)
(* style, and not withdrawn by a ruling that upheld the writer's dispute.  *)
Stands(i) ==
  i.key \notin Stylistic /\ Larger(i.sev, FloorOf[i.key]) >= 1 /\ ruled[i.key] # "upheld"

(* A completed review of the draft under judgement that found nothing that *)
(* stands, by somebody other than the author.                              *)
CleanReview(r) ==
  /\ r \in reviews /\ r.artifact = report /\ r.author = author /\ r.critic # author
  /\ \A i \in r.issues : ~ Stands(i)

(* ACCEPTED means every lens was read and found clean by two non-authors   *)
(* of different model families, on exactly the draft that ships, that no   *)
(* completed review of it holds a finding that stands, and that it is not  *)
(* the first draft.                                                        *)
AcceptedIsDoubleChecked ==
  Concluded /\ final.status = "accepted" =>
    /\ final.draft = report /\ round >= MinTicks
    /\ \A l \in Lenses : \E r, s \in reviews :
         /\ CleanReview(r) /\ CleanReview(s) /\ r.lens = l /\ s.lens = l
         /\ FamilyOf[r.critic] # FamilyOf[s.critic]
    /\ \A r \in reviews : \A i \in r.issues : ~ Stands(i)

(* The weaker verdict is given only where no second family could have been *)
(* asked: a lens confirmed by one family has only one eligible.            *)
UnconfirmedOnlyWhenRosterLimited ==
  [][node = "control" /\ decision'.status = "converged_unconfirmed" =>
       \A l \in Lenses :
         LET families == {FamilyOf[r.critic] : r \in {q \in reviews : CleanReview(q) /\ q.lens = l}}
             askable == {FamilyOf[Reader(l, i)] : i \in EligibleCritics(l, author, Gone)}
         IN families # {} /\ (Cardinality(families) < 2 => Cardinality(askable) < 2)]_vars

(* Fail closed: any verdict but an abort rests on a completed review of    *)
(* every lens of the last draft.                                           *)
ConclusionNeedsEveryLens ==
  Concluded /\ final.status # "aborted" =>
    \A l \in Lenses : \E r \in reviews : r.lens = l

(* The reader is handed every material finding that the audit trail holds  *)
(* on the draft that ships, unless a ruling upheld the dispute of it.      *)
ShipsItsOwnFindings ==
  Concluded /\ final.draft # 0 =>
    \A i \in trail[final.draft].issues :
      Stands(i) =>
        \E d \in final.defects : d.key = i.key /\ d.sev >= i.sev

(* Only a new draft advances the round, and none is written past the cap.  *)
RoundsAreDrafts == round = Len(history) /\ round <= HardCap

(* A run ends on the controller's own budgets: it never comes near the     *)
(* step limit the graph is compiled with, even counting every resume.      *)
Laps == HardCap + PolishCap + CritiqueAttempts + ConfirmAttempts + 2
StepsWithinRecursionLimit == steps < 6 * Laps + 10

(* A critique pass can always be staffed: sidelining, outages and author   *)
(* exclusion together never leave a pending lens without a critic.         *)
EveryPassIsStaffed == node = "critique" => \A l \in pending : Slate(l) # {}

(* A confirmation pass asks, on every lens it re-reads, a model that has   *)
(* not been asked about this draft.                                        *)
TopUpAsksSomeoneNew ==
  [][node = "critique" /\ node' = "triage" /\ decision.rule = 8 =>
       \A l \in pending : used'[l] # used[l]]_vars

(* A stalled run's rewrite is judged on its own signal: the decision after *)
(* a rewrite is never "stalled" again.                                     *)
RewriteIsJudged ==
  [][node = "control" /\ node' # node /\ decision.rewrite => decision'.rule # 13]_vars

(* A key is ruled on once, and a ruling stands. *)
RulingsStand ==
  [][\A k \in Keys : ruled[k] # "none" => ruled'[k] = ruled[k]]_vars

(* The loop ends, whatever the models return. *)
Terminates == <>(node = "done")

-----------------------------------------------------------------------------
(* The loop keeps the acceptance contract. *)
Contract == INSTANCE AcceptanceContract WITH
  Readings  <- Lenses, Houses <- Families, Floor <- MinTicks, Cap <- HardCap,
  drafts    <- round,
  witnesses <- {<<r.lens, FamilyOf[r.critic]>> : r \in clean},
  objection <- \E i \in defects : i.sev >= 1,
  verdict   <- IF node \in {"finalize", "done"} THEN decision.status ELSE "none"

KeepsContract == Contract!Spec

-----------------------------------------------------------------------------
(* Claims of the code's own comments that a run can contradict. *)

(* controller.py, latest_scores_per_artifact: the row that ranks a draft   *)
(* "is the one the most lenses have looked at"; triage.py: "partial counts *)
(* are never used".  So a draft that some lens never read does not beat    *)
(* one that every lens read.                                               *)
PartialCountsNeverRank ==
  Concluded /\ final.draft # 0 /\ (\E d \in DOMAIN trail : trail[d].lenses = Lenses)
    => trail[final.draft].lenses = Lenses
=============================================================================
