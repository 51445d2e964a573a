------------------------------ MODULE WriterWalk ------------------------------
(***************************************************************************)
(* Generate, in detail: the writers are asked in rotation through the      *)
(* model client until one hands in a draft that may ship.  A draft written *)
(* without reading what it cites, or dropping a read source unread, is set *)
(* aside: its writer is nudged once, then the next one is asked, and the   *)
(* last draft set aside ships when the walk ends without a better one.     *)
(* The chosen draft may then be given bounded repair turns.                *)
(*                                                                         *)
(* RefineLoop sees the whole walk as one step.  Beside a walk, the module  *)
(* lets any other caller use the client.                                   *)
(***************************************************************************)
EXTENDS ModelClient

CONSTANTS
  Pool,            \* the writers in roster order, a sequence of aliases
  WriterAttempts, RepairCap,
  Tooled,          \* retrieval is on, and with it the reading gates
  Starts,          \* rotations the walk may begin at
  Others,          \* aliases other callers use while no walk is on
  OpsMode          \* the draft comes back as edit operations

ASSUME WalkAssumption ==
  /\ Pool \in Seq(Aliases) /\ Len(Pool) > 0
  /\ WriterAttempts \in Nat \ {0} /\ RepairCap \in Nat
  /\ Starts \subseteq Nat /\ Others \subseteq Aliases
  /\ Tooled \in BOOLEAN /\ OpsMode \in BOOLEAN

VARIABLES
  walk,        \* "off", "ready", "asking", "over", "chosen", "repairing" or "done"
  start,       \* the rotation the walk begins at
  offset, pos, \* attempts made, and places advanced in the pool
  tried, nudged,
  held,        \* <<>> or the last draft set aside
  refusedOnce, \* accountRefused: an attempt failed on the account
  chosen,      \* <<>> or the draft that ships
  repairs,
  result,      \* "none", "draft", "aborted", "deferred" or "crashed"
  refusals     \* the provider refused the account during the drafting walk

choiceVars == <<held, refusedOnce, chosen, result>>
placeVars == <<offset, pos, tried, nudged>>
walkVars == <<walk, start, placeVars, choiceVars, repairs, refusals>>
vars == <<clientVars, walkVars>>

(* Either gate sets a draft aside: it cites what nobody has read, or it    *)
(* drops what a writer had read.  Without retrieval there is no gate.      *)
Traits == {"sound"} \cup (IF Tooled THEN {"unread"} ELSE {})

WInit ==
  /\ Init
  /\ walk \in {"off", "ready"} /\ start \in Starts
  /\ offset = 0 /\ pos = 0 /\ tried = {} /\ nudged = {}
  /\ held = <<>> /\ refusedOnce = FALSE /\ chosen = <<>> /\ repairs = 0
  /\ result = "none" /\ refusals = FALSE

InPool(i) == Pool[(i % Len(Pool)) + 1]
Everyone == {Pool[i] : i \in DOMAIN Pool}

Ask ==
  /\ walk = "ready" /\ offset < WriterAttempts
  /\ LET writer == InPool(start + pos)
     IN  /\ Begin(IF Tooled THEN "tools" ELSE "plain", writer)
         /\ tried' = tried \cup {writer}
  /\ walk' = "asking"
  /\ UNCHANGED <<start, offset, pos, nudged, choiceVars, repairs, refusals>>

(* The next attempt, with the same writer or the next in the pool.         *)
Same == /\ walk' = "ready" /\ offset' = offset + 1 /\ UNCHANGED pos
NextOne ==
  /\ walk' = "ready" /\ offset' = offset + 1 /\ pos' = pos + 1
  /\ UNCHANGED nudged

Returned == walk = "asking" /\ at = "idle"

(* The client raised what the walk does not catch: only failures of a call *)
(* are, not an answer of a shape the client could not read.                *)
Crashes ==
  /\ walk \in {"asking", "repairing"} /\ at = "idle"
  /\ outcome = "malformed_response"
  /\ walk' = "done" /\ result' = "crashed"
  /\ UNCHANGED <<clientVars, start, placeVars, held, refusedOnce,
                 chosen, repairs, refusals>>

AttemptFails ==
  /\ Returned
  /\ \/ outcome \notin {"ok", "malformed_response"}
     \/ outcome = "ok" /\ reply.text = "none"
     \/ outcome = "ok" /\ OpsMode
  /\ refusedOnce' = (refusedOnce \/ outcome = AccountClass)
  /\ NextOne
  /\ UNCHANGED <<clientVars, start, tried, held, chosen, result, repairs, refusals>>

Handed == Returned /\ outcome = "ok" /\ reply.text # "none"
Draft(trait) ==
  [writer |-> call.alias, trait |-> trait, read |-> call.read, place |-> pos]

SetsAside(trait) == trait # "sound" /\ ~call.read

(* Fault: the walk ends on the first unread draft it cannot nudge.         *)
SettleForIt == TRUE

NobodyLeft == Everyone \subseteq tried

(* A draft written unread waits while its writer, or another, may do better. *)
SetAside ==
  /\ Handed
  /\ \E trait \in Traits :
       /\ SetsAside(trait)
       /\ held' = <<Draft(trait)>>
       /\ IF call.alias \notin nudged /\ offset + 1 < WriterAttempts
          THEN /\ nudged' = nudged \cup {call.alias} /\ Same
          ELSE IF NobodyLeft
          THEN walk' = "over" /\ UNCHANGED <<offset, pos, nudged>>
          ELSE NextOne
  /\ UNCHANGED <<clientVars, start, tried, refusedOnce, chosen, result,
                 repairs, refusals>>

Accept ==
  /\ Handed
  /\ \E trait \in Traits :
       /\ ~SetsAside(trait)
       /\ chosen' = <<Draft(trait)>>
  /\ walk' = "chosen"
  /\ UNCHANGED <<clientVars, start, placeVars, held, refusedOnce, result,
                 repairs, refusals>>

(* Fault: one refusal among other failures is not worth a deferral.        *)
DefersOnlyOnLast == outcome = AccountClass

Defers == refusedOnce

(* Nobody is left to ask: the held draft ships, or the run waits for the  *)
(* account, or it is over.                                                 *)
Settle ==
  /\ walk = "over" \/ (walk = "ready" /\ offset = WriterAttempts)
  /\ IF held # <<>>
     THEN chosen' = held /\ walk' = "chosen" /\ UNCHANGED result
     ELSE /\ walk' = "done" /\ UNCHANGED chosen
          /\ result' = IF Defers THEN "deferred" ELSE "aborted"
  /\ UNCHANGED <<clientVars, start, placeVars, held, refusedOnce, repairs, refusals>>

-----------------------------------------------------------------------------
(* The repair turns of a chosen draft: its own writer, no tools, and a     *)
(* failure keeps the draft as it is.                                       *)
AskRepair ==
  /\ walk = "chosen" /\ repairs < RepairCap
  /\ Begin("plain", chosen[1].writer)
  /\ walk' = "repairing" /\ repairs' = repairs + 1
  /\ UNCHANGED <<start, placeVars, choiceVars, refusals>>

Repaired ==
  /\ walk = "repairing" /\ at = "idle" /\ outcome = "ok" /\ reply.text # "none"
  /\ walk' = "chosen"
  /\ UNCHANGED <<clientVars, start, placeVars, choiceVars, repairs, refusals>>

Ship ==
  /\ \/ walk = "chosen"
     \/ walk = "repairing" /\ at = "idle" /\ outcome # "malformed_response"
  /\ walk' = "done" /\ result' = "draft"
  /\ UNCHANGED <<clientVars, start, placeVars, held, refusedOnce,
                 chosen, repairs, refusals>>

(* Fault: the rotation goes on from where the walk stopped.                *)
RotationAfterWalk == start + pos + 1

(* Where the next walk begins, and who wrote this draft.                   *)
RotationAfter == start + chosen[1].place + 1
Author == chosen[1].writer

WalkStep ==
  \/ Ask \/ Crashes \/ AttemptFails \/ SetAside \/ Accept \/ Settle
  \/ AskRepair \/ Repaired \/ Ship

ClientStep ==
  /\ Steps
  /\ refusals' = (refusals \/ (walk = "asking" /\ last'.class = AccountClass))
  /\ UNCHANGED <<walk, start, placeVars, choiceVars, repairs>>

AnyCaller ==
  /\ walk = "off"
  /\ \E k \in Kinds, a \in Others : Begin(k, a)
  /\ UNCHANGED walkVars

Next == WalkStep \/ ClientStep \/ AnyCaller

(* The provider answers every exchange or the client's own timeout ends    *)
(* it, and the walk runs on a thread of its own, so both move on.          *)
Spec == WInit /\ [][Next]_vars /\ WF_vars(WalkStep) /\ WF_vars(ClientStep)

-----------------------------------------------------------------------------
Drafts ==
  [writer : Everyone, trait : {"sound", "unread"},
   read : BOOLEAN, place : 0..(WriterAttempts - 1)]

(* Every counter of the client and of the walk stays within its budget,    *)
(* the tool rounds, repairs and modes of a call among them.                *)
TypeOK ==
  /\ call \in [kind : Kinds, alias : Aliases, mode : 1..Len(Modes),
               repairs : 0..RepairRetries, round : 0..MaxToolRounds,
               offering : BOOLEAN, nudged : BOOLEAN,
               open : 0..MaxToolRounds, withdrawn : BOOLEAN,
               read : BOOLEAN]
  /\ at \in {"idle", "waiting", "sent", "replied"}
  /\ attempt \in 0..CallRetries /\ hint \in 0..HintCap
  /\ reply \in Replies /\ lookups \in 0..Lookups
  /\ unrecorded \in 0..1
  /\ modes \in [Aliases -> {Modes[i] : i \in 1..Len(Modes)} \cup {Unknown}]
  /\ toolCapable \in [Aliases -> {"yes", "no", Unknown}]
  /\ offset \in 0..WriterAttempts /\ pos \in 0..WriterAttempts
  /\ nudged \subseteq tried /\ tried \subseteq Everyone
  /\ held \in {<<>>} \cup {<<d>> : d \in Drafts}
  /\ chosen \in {<<>>} \cup {<<d>> : d \in Drafts}
  /\ repairs \in 0..RepairCap

(* The wait before a retry answers the failure that caused it: the hint of *)
(* that very failure is served, up to the cap, and a failure without one   *)
(* never waits longer than the backoff ceiling (_backoff, _retry_after).   *)
RetriesAreSpaced ==
  at = "sent" /\ attempt > 0 =>
    IF last.hint = NoHint THEN waited <= BackoffMax
    ELSE waited = Least(last.hint, HintCap)

(* Every HTTP attempt leaves one record in the audit trail, whichever way  *)
(* it ended and whatever was raised on the way out (_record_call).         *)
EveryAttemptIsRecorded ==
  unrecorded = IF at = "sent" THEN 1 ELSE 0

(* A mode is pinned for the life of the process only if the alias answered *)
(* in it and was seen to answer outside the schema in every stronger one;  *)
(* no failure of a call ever counts as evidence.                           *)
PinnedModeIsProven ==
  \A a \in Aliases : modes[a] # Unknown =>
    \E m \in 1..Len(Modes) :
      /\ Modes[m] = modes[a]
      /\ m \in observed[a].yes /\ 1..(m - 1) \subseteq observed[a].no

(* No request carries a tool call nobody answered, and tools withdrawn     *)
(* once are not offered again in the same call: several providers refuse a *)
(* conversation of the first shape, and a writer handed a spent tool keeps *)
(* calling it.                                                             *)
ConversationIsAnswerable ==
  at \in {"waiting", "sent"} =>
    call.open = 0 /\ (call.withdrawn => ~call.offering)

(* A walk in which the account was refused never renders a verdict on the  *)
(* run, and one that defers it was refused (D-credit-exhaustion-defers).   *)
AccountRefusalIsNoVerdict ==
  /\ result = "aborted" => ~refusals
  /\ result = "deferred" => refusals /\ held = <<>>

(* A draft written without reading ships only when nothing better can come *)
(* back: the attempts are spent, or every writer was asked and its own     *)
(* writer was nudged in vain.                                              *)
UnreadDraftIsLastResort ==
  chosen # <<>> /\ chosen[1].trait # "sound" /\ ~chosen[1].read =>
    \/ offset + 1 >= WriterAttempts
    \/ Everyone \subseteq tried /\ chosen[1].writer \in nudged

(* The rotation a draft leaves behind names its own writer as the last one *)
(* served, also when an earlier draft that was held ships: the next writer *)
(* is chosen from it.                                                      *)
CreditGoesToItsWriter ==
  chosen # <<>> => InPool(RotationAfter - 1) = Author

(* A walk ends, and so does every call, however the models behave.         *)
WalksEnd ==
  /\ walk = "ready" ~> walk = "done"
  /\ at = "waiting" ~> at = "idle"

(* One flaky response does not cost the run (graph.py:1063), and a repair  *)
(* never raises (graph.py:1478).                                           *)
FlakyResponseNeverCostsTheRun == result # "crashed"
=============================================================================
