---------------------------- MODULE RunLifecycle ----------------------------
(***************************************************************************)
(* Runs across processes: the web worker's queue and threads, the event    *)
(* log each run leaves on disk, and what a booting process does about the  *)
(* runs the last one left behind.                                          *)
(*                                                                         *)
(* The disk holds, per run, its event log, the graph's checkpoints and the *)
(* final verdict; a Kill takes everything else.  The log is kept as what   *)
(* the registry folds it into (Logged): the automatic attempts and the     *)
(* deferrals in a row, and the last event.  Runs are numbered in the order *)
(* of their first event, the order recovery replays them in.               *)
(***************************************************************************)
EXTENDS Integers, Sequences, FiniteSets

CONSTANTS
  Runs,             \* 1..n, the runs there can be
  Workers,          \* worker threads of a process
  Nodes,            \* checkpoints between a run's start and its end
  MaxQueueDepth,    \* waiting runs at which a submission is refused
  MaxResumes,       \* automatic attempts in a row that may come to nothing
  MaxDeferrals,     \* deferrals in a row
  Refining,         \* the question refinement feature is on
  Deployments,      \* configurations a process may boot with
  MaxBoots,         \* bound of the model: processes
  MaxByHand         \* bound of the model: resumes asked for by an owner

ASSUME LifecycleAssumption ==
  /\ IsFiniteSet(Runs) /\ Runs = 1..Cardinality(Runs) /\ IsFiniteSet(Workers)
  /\ Nodes \in Nat \ {0} /\ MaxQueueDepth \in Nat \ {0}
  /\ MaxResumes \in Nat /\ MaxDeferrals \in Nat
  /\ Refining \in BOOLEAN /\ Deployments # {} /\ 0 \notin Deployments
  /\ MaxBoots \in Nat /\ MaxByHand \in Nat

VARIABLES
  ledger,    \* [run -> its event log, folded]
  saved,     \* [run -> nodes checkpointed, Nodes when the graph has ended]
  verdict,   \* [run -> final.json is written]
  stamp,     \* [run -> configuration it was started under, 0 before]
  process, deployed, boots,
  backlog,   \* runs recovery still has to look at
  queue, status,
  job, stage, outcome,   \* of each worker thread
  admitted,  \* submissions past the depth check
  recorded,  \* submissions on disk and not yet in the queue
  asked,     \* resumes past the status check, <<request, run>>
  byHand,    \* resumes asked for so far
  fruitless  \* [run -> attempts in a row that neither progressed nor were deferred]

disk == <<ledger, saved, verdict, stamp>>
machine == <<process, deployed, boots, backlog>>
threads == <<job, stage, outcome>>
requests == <<admitted, recorded, asked, byHand>>
vars == <<disk, machine, queue, status, threads, requests, fruitless>>

NoRun == 0
Live == {"queued", "running"}

(* One more event on a log.  A deferral takes back the attempt it ends; a  *)
(* progress event clears both counts.                                      *)
NoLog == [attempts |-> 0, deferrals |-> 0, last |-> "none"]

(* Fault: the deferral of a run nobody retried is taken back all the same. *)
LoggedBelowZero(log, kind) ==
  [attempts  |-> CASE kind = "auto" -> log.attempts + 1
                   [] kind = "deferred" -> log.attempts - 1
                   [] kind = "progress" -> 0
                   [] OTHER -> log.attempts,
   deferrals |-> CASE kind = "deferred" -> log.deferrals + 1
                   [] kind = "progress" -> 0
                   [] OTHER -> log.deferrals,
   last      |-> IF kind = "auto" THEN "queued" ELSE kind]

Logged(log, kind) ==
  [attempts  |-> CASE kind = "auto" -> log.attempts + 1
                   [] kind = "deferred" /\ log.attempts > 0 -> log.attempts - 1
                   [] kind = "progress" -> 0
                   [] OTHER -> log.attempts,
   deferrals |-> CASE kind = "deferred" -> log.deferrals + 1
                   [] kind = "progress" -> 0
                   [] OTHER -> log.deferrals,
   last      |-> IF kind = "auto" THEN "queued" ELSE kind]

Write(r, kind) == ledger' = [ledger EXCEPT ![r] = Logged(@, kind)]

(* What the registry shows: a verdict, what this process is doing with the *)
(* run, or how the log says it stopped.                                    *)
Summary(r) ==
  CASE verdict[r] -> "finished"
    [] ~ verdict[r] /\ status[r] # "none" -> status[r]
    [] OTHER -> IF ledger[r].last \in {"queued", "abandoned"} THEN ledger[r].last
                ELSE "interrupted"

Born == {r \in Runs : ledger[r].last # "none"}
Held == {job[w] : w \in Workers} \ {NoRun}

Attempts(r, n) == fruitless' = [fruitless EXCEPT ![r] = n]

-----------------------------------------------------------------------------
Init ==
  /\ ledger = [r \in Runs |-> NoLog] /\ saved = [r \in Runs |-> 0]
  /\ verdict = [r \in Runs |-> FALSE] /\ stamp = [r \in Runs |-> 0]
  /\ process = "down" /\ deployed \in Deployments /\ boots = 0 /\ backlog = {}
  /\ queue = << >> /\ status = [r \in Runs |-> "none"]
  /\ job = [w \in Workers |-> NoRun] /\ stage = [w \in Workers |-> "gone"]
  /\ outcome = [w \in Workers |-> "none"]
  /\ admitted = 0 /\ recorded = {} /\ asked = {} /\ byHand = 0
  /\ fruitless = [r \in Runs |-> 0]

-----------------------------------------------------------------------------
(* A process boots, replays what is owed oldest first, then serves.        *)

(* Fault: only runs that were interrupted come back. *)
OnlyInterrupted(r) == r \in Born /\ Summary(r) = "interrupted"

Owed(r) == r \in Born /\ Summary(r) \in {"queued", "interrupted"}

Boot ==
  /\ process = "down" /\ boots < MaxBoots
  /\ process' = "booting" /\ boots' = boots + 1 /\ deployed' \in Deployments
  /\ backlog' = {r \in Runs : Owed(r)}
  /\ stage' = [w \in Workers |-> "idle"]
  /\ UNCHANGED <<disk, queue, status, job, outcome, requests, fruitless>>

(* Put a run back in the queue, unless it is there or running already. *)

(* Fault: the run is marked as queued and never put. *)
Forget(r) == UNCHANGED queue

Put(r) == queue' = Append(queue, r)

(* Fault: the guard on the live status is dropped. *)
EnqueueAgain(r, kind) ==
  /\ status' = [status EXCEPT ![r] = "queued"]
  /\ Put(r)
  /\ Write(r, kind)

Resume(r, kind) ==
  IF status[r] # "none" THEN UNCHANGED <<status, queue, ledger>>
  ELSE /\ status' = [status EXCEPT ![r] = "queued"]
       /\ Put(r)
       /\ Write(r, kind)

(* Fault: the cap is compared before the attempt is counted in. *)
GivenUpLate(r) == ledger[r].deferrals >= MaxDeferrals \/ ledger[r].attempts > MaxResumes

GivenUp(r) == ledger[r].deferrals >= MaxDeferrals \/ ledger[r].attempts + 1 > MaxResumes

Recover ==
  /\ process = "booting"
  /\ \E r \in backlog :
       /\ \A q \in backlog : r <= q
       /\ IF GivenUp(r) THEN Write(r, "abandoned") /\ UNCHANGED <<queue, status>>
                        ELSE Resume(r, "auto")
       /\ backlog' = backlog \ {r}
  /\ UNCHANGED <<saved, verdict, stamp, process, deployed, boots, threads, requests,
                 fruitless>>

Serve ==
  /\ process = "booting" /\ backlog = {}
  /\ process' = "up"
  /\ UNCHANGED <<disk, deployed, boots, backlog, queue, status, threads, requests,
                 fruitless>>

-----------------------------------------------------------------------------
(* Requests, each on a thread of its own: what is checked and what is done *)
(* are two steps.                                                          *)

Serving == process \in {"up", "stopping"}

Admit ==
  /\ process = "up" /\ Len(queue) < MaxQueueDepth
  /\ Cardinality(Born) + admitted < Cardinality(Runs)
  /\ admitted' = admitted + 1
  /\ UNCHANGED <<disk, machine, queue, status, threads, recorded, asked, byHand,
                 fruitless>>

(* The question, the owner and the queued event; with the refinement       *)
(* feature possibly one event more.                                        *)
Record ==
  /\ Serving /\ admitted > 0
  /\ LET r == Cardinality(Born) + 1 IN
       /\ \E kind \in {"queued"} \cup (IF Refining THEN {"refinement"} ELSE {}) :
            Write(r, kind)
       /\ recorded' = recorded \cup {r}
  /\ admitted' = admitted - 1
  /\ UNCHANGED <<saved, verdict, stamp, machine, queue, status, threads, asked, byHand,
                 fruitless>>

Enqueue ==
  /\ Serving
  /\ \E r \in recorded :
       /\ status' = [status EXCEPT ![r] = "queued"]
       /\ Put(r)
       /\ recorded' = recorded \ {r}
  /\ UNCHANGED <<disk, machine, threads, admitted, asked, byHand, fruitless>>

AskResume ==
  /\ process = "up" /\ byHand < MaxByHand
  /\ \E r \in Born : /\ Summary(r) \in {"interrupted", "abandoned"}
                     /\ asked' = asked \cup {<<byHand, r>>}
  /\ byHand' = byHand + 1
  /\ UNCHANGED <<disk, machine, queue, status, threads, admitted, recorded, fruitless>>

ResumeByHand ==
  /\ Serving
  /\ \E req \in asked : /\ Resume(req[2], "queued")
                        /\ asked' = asked \ {req}
  /\ UNCHANGED <<saved, verdict, stamp, machine, threads, admitted, recorded, byHand,
                 fruitless>>

-----------------------------------------------------------------------------
(* A worker thread. *)

End(w, what) == /\ stage' = [stage EXCEPT ![w] = "ended"]
                /\ outcome' = [outcome EXCEPT ![w] = what]
                /\ UNCHANGED job

Take(w) ==
  /\ stage[w] = "idle" /\ process \in {"booting", "up"} /\ queue # << >>
  /\ job' = [job EXCEPT ![w] = Head(queue)]
  /\ stage' = [stage EXCEPT ![w] = "building"]
  /\ status' = [status EXCEPT ![Head(queue)] = "running"]
  /\ queue' = Tail(queue)
  /\ Attempts(Head(queue), fruitless[Head(queue)] + 1)
  /\ UNCHANGED <<disk, machine, outcome, requests>>

(* While the process stops, an idle thread leaves; a job it had already    *)
(* taken off the queue is dropped.                                         *)
Leave(w) ==
  /\ stage[w] = "idle" /\ process = "stopping"
  /\ stage' = [stage EXCEPT ![w] = "gone"]
  /\ queue' \in {queue} \cup (IF queue = << >> THEN {} ELSE {Tail(queue)})
  /\ UNCHANGED <<disk, machine, status, job, outcome, requests, fruitless>>

(* Startup validation refuses the whole deployment. *)
Refused(w) ==
  /\ stage[w] = "building"
  /\ Write(job[w], "deferred")
  /\ Attempts(job[w], fruitless[job[w]] - 1)
  /\ End(w, "none")
  /\ UNCHANGED <<saved, verdict, stamp, machine, queue, status, requests>>

(* The runtime is built; a checkpoint made under another configuration is  *)
(* not resumed, one of an ended graph has nothing left to do, and a run    *)
(* that starts while the process stops may pause before its first node.    *)
Start(w) ==
  /\ stage[w] = "building"
  /\ LET r == job[w] IN
       \/ /\ stamp[r] \notin {0, deployed}
          /\ Write(r, "abandoned") /\ End(w, "abandoned")
          /\ UNCHANGED stamp
       \/ /\ stamp[r] \in {0, deployed} /\ saved[r] = Nodes
          /\ Write(r, "startup") /\ End(w, "finished")
          /\ UNCHANGED stamp
       \/ /\ stamp[r] \in {0, deployed} /\ saved[r] < Nodes
          /\ Write(r, "startup")
          /\ stamp' = [stamp EXCEPT ![r] = deployed]
          /\ stage' = [stage EXCEPT ![w] = "running"]
          /\ UNCHANGED <<job, outcome>>
       \/ /\ stamp[r] \in {0, deployed} /\ saved[r] < Nodes /\ process = "stopping"
          /\ ledger' = [ledger EXCEPT ![r] = Logged(Logged(@, "startup"), "pause")]
          /\ stamp' = [stamp EXCEPT ![r] = deployed]
          /\ End(w, "none")
  /\ UNCHANGED <<saved, verdict, machine, queue, status, requests, fruitless>>

(* A node works, leaving a progress event before its checkpoint; the last  *)
(* one writes the verdict first.                                           *)
LastNode(r) == saved[r] = Nodes - 1

Progress(w) ==
  /\ stage[w] = "running"
  /\ Write(job[w], "progress")
  /\ Attempts(job[w], 0)
  /\ verdict' = [verdict EXCEPT ![job[w]] = LastNode(job[w])]
  /\ UNCHANGED <<saved, stamp, machine, queue, status, threads, requests>>

(* The checkpoint, and right after it the look at the stop flag. *)
Checkpoint(w) ==
  /\ stage[w] = "running"
  /\ LET r == job[w] IN
       /\ LastNode(r) => verdict[r]
       /\ saved' = [saved EXCEPT ![r] = @ + 1]
       /\ \/ /\ process = "stopping"
             /\ Write(r, "pause") /\ End(w, "none")
          \/ /\ process # "stopping" /\ LastNode(r)
             /\ End(w, "finished") /\ UNCHANGED ledger
          \/ /\ process # "stopping" /\ ~ LastNode(r)
             /\ UNCHANGED <<ledger, threads>>
  /\ UNCHANGED <<verdict, stamp, machine, queue, status, requests, fruitless>>

(* The provider account refuses to pay: the node is not checkpointed.      *)
AccountRefuses(w) ==
  /\ stage[w] = "running" /\ ~ LastNode(job[w])
  /\ Write(job[w], "deferred")
  /\ Attempts(job[w], IF fruitless[job[w]] = 0 THEN 0 ELSE fruitless[job[w]] - 1)
  /\ End(w, "none")
  /\ UNCHANGED <<saved, verdict, stamp, machine, queue, status, requests>>

(* Anything else that escapes the graph. *)
Crash(w) ==
  /\ stage[w] \in {"building", "running"}
  /\ End(w, "interrupted")
  /\ UNCHANGED <<disk, machine, queue, status, requests, fruitless>>

(* The live status is dropped whatever happened; a paused thread leaves.   *)
(* (The owner is then told of the outcome, but for a pause or a deferral.) *)
Finish(w) ==
  /\ stage[w] = "ended"
  /\ status' = [status EXCEPT ![job[w]] = "none"]
  /\ job' = [job EXCEPT ![w] = NoRun]
  /\ outcome' = [outcome EXCEPT ![w] = "none"]
  /\ stage' = [stage EXCEPT ![w] = IF ledger[job[w]].last = "pause" THEN "gone" ELSE "idle"]
  /\ UNCHANGED <<disk, machine, queue, requests, fruitless>>

-----------------------------------------------------------------------------
(* The platform asks the process to stop, or takes it away. *)

Stop ==
  /\ process = "up"
  /\ process' = "stopping"
  /\ UNCHANGED <<disk, deployed, boots, backlog, queue, status, threads, requests,
                 fruitless>>

Kill ==
  /\ process # "down"
  /\ process' = "down" /\ backlog' = {} /\ queue' = << >>
  /\ status' = [r \in Runs |-> "none"]
  /\ job' = [w \in Workers |-> NoRun] /\ stage' = [w \in Workers |-> "gone"]
  /\ outcome' = [w \in Workers |-> "none"]
  /\ admitted' = 0 /\ recorded' = {} /\ asked' = {}
  /\ UNCHANGED <<disk, deployed, boots, byHand, fruitless>>

Work(w) == \/ Take(w) \/ Leave(w) \/ Refused(w) \/ Start(w) \/ Progress(w)
           \/ Checkpoint(w) \/ AccountRefuses(w) \/ Crash(w) \/ Finish(w)

Next == \/ Boot \/ Recover \/ Serve
        \/ Admit \/ Record \/ Enqueue \/ AskResume \/ ResumeByHand
        \/ Stop \/ Kill
        \/ \E w \in Workers : Work(w)

Spec == Init /\ [][Next]_vars

(* Threads and requests run; nothing obliges the platform to restart the   *)
(* process, an owner to ask, or a call to fail.                            *)
FairSpec ==
  /\ Spec
  /\ WF_vars(Recover) /\ WF_vars(Serve)
  /\ WF_vars(Record) /\ WF_vars(Enqueue) /\ WF_vars(ResumeByHand)
  /\ \A w \in Workers : WF_vars(Work(w))
-----------------------------------------------------------------------------
Kinds == {"auto", "queued", "refinement", "startup", "progress", "pause", "deferred",
          "abandoned"}
Logs == [attempts : Nat, deferrals : Nat, last : (Kinds \ {"auto"}) \cup {"none"}]

(* Every variable keeps its type. *)
TypeOK ==
  /\ ledger \in [Runs -> Logs]
  /\ saved \in [Runs -> 0..Nodes] /\ verdict \in [Runs -> BOOLEAN]
  /\ stamp \in [Runs -> Deployments \cup {0}]
  /\ process \in {"down", "booting", "up", "stopping"} /\ deployed \in Deployments
  /\ boots \in 0..MaxBoots /\ backlog \subseteq Runs /\ queue \in Seq(Runs)
  /\ status \in [Runs -> Live \cup {"none"}]
  /\ job \in [Workers -> Runs \cup {NoRun}]
  /\ stage \in [Workers -> {"gone", "idle", "building", "running", "ended"}]
  /\ outcome \in [Workers -> {"none", "finished", "abandoned", "interrupted"}]
  /\ admitted \in Nat /\ recorded \subseteq Runs /\ asked \subseteq Nat \X Runs
  /\ byHand \in 0..MaxByHand /\ fruitless \in [Runs -> Nat]

(* No two threads drive one run, and none drives a run that is waiting:    *)
(* they would write one checkpoint and one log.                            *)
OneDriver ==
  /\ \A w, v \in Workers : job[w] = job[v] /\ job[w] # NoRun => w = v
  /\ \A i, j \in DOMAIN queue : queue[i] = queue[j] => i = j
  /\ \A i \in DOMAIN queue : queue[i] \notin Held

(* What a serving process shows as waiting is in its queue or about to be, *)
(* unless a thread took it up and died before its first event, and what it *)
(* shows as running is on a thread: recovery leaves no owed run behind.    *)
LiveStatusIsReal ==
  process = "up" =>
    \A r \in Born :
      /\ Summary(r) = "queued" =>
           (\E i \in DOMAIN queue : queue[i] = r) \/ r \in recorded \/ fruitless[r] > 0
      /\ Summary(r) = "running" => r \in Held

(* A run that fails every time is not tried forever: the attempts in a row *)
(* that came to nothing are the first one, the automatic ones the cap      *)
(* allows, and those somebody asked for.                                   *)
FruitlessAttemptsAreCapped ==
  \A r \in Runs : fruitless[r] <= 1 + MaxResumes + byHand

(* A process that stays up gets every run it has accepted off its hands.   *)
LiveRunsSettle ==
  \A r \in Runs : (process = "up" /\ (status[r] # "none" \/ r \in recorded)) ~>
                  (process # "up" \/ (status[r] = "none" /\ r \notin recorded))

-----------------------------------------------------------------------------
(* Claims of the repository's documents that a run can contradict. *)

(* docs/decisions.md, D-redeploy-survival: "a restart storm cannot spend   *)
(* the budget on runs it never actually executed".                         *)
AbandonedWasExecuted ==
  \A r \in Runs :
    ledger[r].last = "abandoned" /\ ledger[r].deferrals < MaxDeferrals => fruitless[r] > 0

(* worker.py: "a shutdown pause is the one stop that is not news - the run *)
(* resumes on the next boot".                                              *)
PausedRunResumes == \A r \in Runs : ledger[r].last = "pause" => ~ verdict[r]
=============================================================================
