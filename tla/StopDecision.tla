---------------------------- MODULE StopDecision ----------------------------
(***************************************************************************)
(* The deterministic controller of the refine loop: one ordered table of   *)
(* fourteen rules, first match wins, and the choice of the draft that a    *)
(* non-accepted run ships.  Everything here is a pure operator on what the *)
(* controller is shown; RefineLoop supplies the state it is applied to.    *)
(*                                                                         *)
(* A controller input `ci` is a record with the fields                     *)
(*   fatal, failed, round, blocking, major, minor, polishUsed, stagnation, *)
(*   cycle        - from the run and its bounded view,                     *)
(*   status       - per lens [cleared, eligible, unused] family counts,    *)
(*   critiqueLeft, confirmLeft, polish, rewritesUsed - budgets and advice. *)
(***************************************************************************)
EXTENDS Integers, Sequences, FiniteSets

CONSTANTS
  MinTicks,         \* no draft is accepted before this round
  HardCap,          \* no draft is written after this round
  PolishCap,        \* polish passes a run may spend
  RewriteCap,       \* whole-document rewrites a stalled run may spend
  StagnationLimit,  \* equal signals in a row that count as stuck
  CyclePeriod,      \* how far back a repeated artifact is a cycle
  Selection         \* which draft a non-accepted run ships

ASSUME BudgetsAssumption ==
  /\ MinTicks \in Nat \ {0} /\ HardCap \in Nat /\ MinTicks < HardCap
  /\ PolishCap \in Nat /\ RewriteCap \in Nat
  /\ StagnationLimit \in Nat \ {0} /\ CyclePeriod \in Nat \ {0}
  /\ Selection \in {"fewest_defects", "latest_unblocked"}

Terminals == {"accepted", "converged_unconfirmed", "exhausted_unresolved",
              "needs_human_review", "aborted"}

-----------------------------------------------------------------------------
(* Clearance of one lens, and of the whole artifact. *)

(* Fault: a top-up is asked for although no unused critic is left. *)
ToppableBlindly(s) == s.cleared < 2

Toppable(s) == s.cleared < 2 /\ s.unused > 0

RosterLimited(s) == s.eligible < 2

Material(ci) == ci.blocking + ci.major

(* Every lens double-checked; or every lens checked, and checked only once *)
(* where the roster has no second family to ask.                           *)

(* Fault: one clean review is taken for two. *)
StrongMetOnce(status) == \A l \in DOMAIN status : status[l].cleared >= 1

StrongMet(status) == \A l \in DOMAIN status : status[l].cleared >= 2

(* Fault: the weak verdict is given to a lens a second family could read. *)
WeakMetAnyway(status) == \A l \in DOMAIN status : status[l].cleared >= 1

WeakMet(status) ==
  \A l \in DOMAIN status :
    /\ status[l].cleared >= 1
    /\ status[l].cleared < 2 => RosterLimited(status[l])

-----------------------------------------------------------------------------
(* The table.  Applies(r, ci) is rule r's own guard; the rule that decides *)
(* is the first that applies.                                              *)

(* Fault: the cap lets one draft too many through. *)
AtCapLate(ci) == ci.round > HardCap

AtCap(ci) == ci.round >= HardCap

Applies(r, ci) ==
  \/ r = 1 /\ ci.fatal
  \/ r = 2 /\ ci.failed > 0 /\ ci.critiqueLeft > 0
  \/ r = 3 /\ ci.failed > 0
  \/ r = 4 /\ ci.round < MinTicks
  \/ r = 5 /\ AtCap(ci) /\ ci.blocking > 0
  \/ r = 6 /\ AtCap(ci) /\ ci.major > 0
  \/ r = 7 /\ Material(ci) = 0 /\ StrongMet(ci.status)
  \/ r = 8 /\ Material(ci) = 0 /\ ci.confirmLeft > 0
           /\ \E l \in DOMAIN ci.status : Toppable(ci.status[l])
  \/ r = 9 /\ Material(ci) = 0 /\ ~ AtCap(ci) /\ ci.minor > 0
           /\ ci.polish /\ ci.polishUsed < PolishCap
  \/ r = 10 /\ Material(ci) = 0 /\ WeakMet(ci.status)
  \/ r = 11 /\ Material(ci) = 0
  \/ r = 12 /\ ci.cycle
  \/ r = 13 /\ ci.stagnation >= StagnationLimit
  \/ r = 14

Rule(ci) == CHOOSE r \in 1..14 :
              Applies(r, ci) /\ \A q \in 1..(r - 1) : ~ Applies(q, ci)

(* Rule 13 first spends a rewrite, and ends the run only when none is left. *)
Rewrites(r, ci) == r = 13 /\ ci.rewritesUsed < RewriteCap

Action(r, ci) ==
  CASE r \in {2, 8} -> "recritique"
    [] r \in {4, 9, 14} \/ Rewrites(r, ci) -> "generate"
    [] OTHER -> "terminal"

TerminalStatus(r, ci) ==
  CASE r \in {1, 3} -> "aborted"
    [] r = 7 -> "accepted"
    [] r = 10 -> "converged_unconfirmed"
    [] r \in {5, 12} \/ (r = 13 /\ ci.blocking > 0) -> "needs_human_review"
    [] OTHER -> "exhausted_unresolved"

(* `unreviewed` is what the graph fills into a rule 2 decision: the lenses *)
(* without a completed review of this artifact.                            *)
RecritiqueLenses(r, ci, unreviewed) ==
  CASE r = 2 -> IF unreviewed = {} THEN DOMAIN ci.status ELSE unreviewed
    [] r = 8 -> {l \in DOMAIN ci.status : Toppable(ci.status[l])}
    [] OTHER -> {}

Decide(ci, unreviewed) ==
  LET r == Rule(ci) IN
  [rule    |-> r,
   action  |-> Action(r, ci),
   status  |-> IF Action(r, ci) = "terminal" THEN TerminalStatus(r, ci) ELSE "none",
   lenses  |-> RecritiqueLenses(r, ci, unreviewed),
   polish  |-> r = 9,
   rewrite |-> Rewrites(r, ci)]

-----------------------------------------------------------------------------
(* A repeat within the last CyclePeriod + 1 artifacts. *)
DetectCycle(history) ==
  \E i, j \in DOMAIN history :
    /\ Len(history) - CyclePeriod <= i /\ i < j
    /\ history[i] = history[j]

(* `board` maps each triaged artifact to its latest row.  Fewer weighted   *)
(* defects win, or fewer blocking ones; among equals the latest round.     *)
Score(row) == IF Selection = "fewest_defects"
              THEN 100 * row.blocking + 10 * row.major + row.minor
              ELSE row.blocking

SelectShipped(board) ==
  CHOOSE d \in DOMAIN board : \A e \in DOMAIN board :
    \/ Score(board[d]) < Score(board[e])
    \/ Score(board[d]) = Score(board[e]) /\ board[d].round >= board[e].round
=============================================================================
