--------------------------- MODULE SubmissionGate ---------------------------
(***************************************************************************)
(* What stands between a submission and the queue (web/worker.py): the     *)
(* depth check, then a limiter that keeps, per caller, the times of the    *)
(* calls it let through.  Requests run on their own threads; the limiter   *)
(* reads the clock before it takes its lock, so a call may overtake        *)
(* another between the two.                                                *)
(***************************************************************************)
EXTENDS Integers, Sequences, FiniteSets, SequencesExt

CONSTANTS
  Requests, Callers,
  MaxEvents, Window,      \* submissions a caller may make within so much time
  MaxQueueDepth,          \* waiting runs at which a submission is refused, 0 for no limit
  MaxClock, MaxCalls      \* bounds

ASSUME GateAssumption ==
  /\ IsFiniteSet(Requests)
  /\ {MaxEvents, Window, MaxQueueDepth, MaxClock, MaxCalls} \subseteq Nat

VARIABLES
  clock,
  hits,      \* [caller -> times let through and not yet forgotten]
  request,   \* [request -> its state]
  waiting,   \* runs in the queue
  calls,     \* calls begun
  admitted,  \* history: [caller -> every time let through, in the lock's order]
  read,      \* history: [caller -> the latest time a decided call had read]
  overtaken, \* history: callers one of whose calls was decided after a later one
  promised,  \* history: [caller -> when the last refusal said to come back, 0 for none]
  denied     \* history: a call was refused that had waited as it was told

limiter == <<clock, hits, request, waiting, calls>>
record == <<admitted, read, overtaken, promised, denied>>
gateVars == <<limiter, record>>

NotAsking == [at |-> "idle"]

Disabled == MaxEvents = 0 \/ Window = 0

GateInit ==
  /\ clock = 1 /\ waiting = 0 /\ calls = 0 /\ denied = FALSE /\ overtaken = {}
  /\ hits = [c \in Callers |-> << >>] /\ admitted = hits
  /\ read = [c \in Callers |-> 0] /\ promised = read
  /\ request = [r \in Requests |-> NotAsking]

(* A full queue turns the caller away before the limiter hears of it. *)
Arrive(r) ==
  /\ request[r] = NotAsking /\ calls < MaxCalls
  /\ calls' = calls + 1
  /\ \E c \in Callers :
       request' = [request EXCEPT ![r] =
         IF MaxQueueDepth > 0 /\ waiting >= MaxQueueDepth THEN NotAsking
         ELSE [at |-> "asking", caller |-> c]]
  /\ UNCHANGED <<clock, hits, waiting, record>>

ReadClock(r) ==
  /\ request[r].at = "asking"
  /\ request' = [request EXCEPT ![r] =
       IF Disabled THEN [at |-> "allowed"]
       ELSE [at |-> "dated", caller |-> @.caller, now |-> clock]]
  /\ UNCHANGED <<clock, hits, waiting, calls, record>>

(* The times from the first that is still inside the window on. *)
From(times, inside) ==
  SubSeq(times, Min({i \in 1..Len(times) : inside[i]} \cup {Len(times) + 1}), Len(times))

(* A fault: the slot that frees at this very moment is not seen. *)
FreshAfter(times, now) == From(times, [i \in 1..Len(times) |-> times[i] >= now - Window])

(* The head is dropped while it is out of the window; a time recorded      *)
(* behind a later one waits for that one.                                  *)
Fresh(times, now) == From(times, [i \in 1..Len(times) |-> times[i] > now - Window])

(* Under the lock.  A refused call is not recorded. *)
CheckAndRecord(r) ==
  /\ request[r].at = "dated"
  /\ LET c == request[r].caller
         now == request[r].now
         kept == Fresh(hits[c], now)
         full == Len(kept) >= MaxEvents
     IN /\ hits' = [hits EXCEPT ![c] = IF full THEN kept ELSE Append(kept, now)]
        /\ request' = [request EXCEPT ![r] = IF full THEN NotAsking ELSE [at |-> "allowed"]]
        /\ admitted' = [admitted EXCEPT ![c] = IF full THEN @ ELSE Append(@, now)]
        /\ read' = [read EXCEPT ![c] = IF now > @ THEN now ELSE @]
        /\ overtaken' = IF now < read[c] THEN overtaken \cup {c} ELSE overtaken
        /\ promised' = [promised EXCEPT ![c] = IF full THEN kept[1] + Window ELSE 0]
        /\ denied' = (denied \/ (full /\ promised[c] \in 1..now))
  /\ UNCHANGED <<clock, waiting, calls>>

Put(r) ==
  /\ request[r].at = "allowed"
  /\ waiting' = waiting + 1
  /\ request' = [request EXCEPT ![r] = NotAsking]
  /\ UNCHANGED <<clock, hits, calls, record>>

TakeWaiting ==
  /\ waiting > 0 /\ waiting' = waiting - 1
  /\ UNCHANGED <<clock, hits, request, calls, record>>

Tick ==
  /\ clock < MaxClock /\ clock' = clock + 1
  /\ UNCHANGED <<hits, request, waiting, calls, record>>

GateNext ==
  \/ \E r \in Requests : Arrive(r) \/ ReadClock(r) \/ CheckAndRecord(r) \/ Put(r)
  \/ TakeWaiting \/ Tick

GateSpec == GateInit /\ [][GateNext]_gateVars

-----------------------------------------------------------------------------
(* The limit is exact: a caller whose calls were decided in the order they *)
(* read the clock was never let through more than MaxEvents times within   *)
(* the window, and no caller who came back when the last refusal said was  *)
(* refused again with nothing let through in between, however the calls    *)
(* overtook each other (RateLimiter.check_and_record).                     *)
LimitIsExact ==
  /\ ~ denied
  /\ \A c \in Callers \ overtaken : \A i, j \in 1..Len(admitted[c]) :
       j - i >= MaxEvents => admitted[c][j] - admitted[c][i] >= Window
=============================================================================
