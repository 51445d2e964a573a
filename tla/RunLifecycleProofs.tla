------------------------- MODULE RunLifecycleProofs -------------------------
(***************************************************************************)
(* What holds of RunLifecycle for any number of runs, threads, nodes and   *)
(* processes and any caps.  With the refinement feature on, a submission   *)
(* passes through a state in which its run looks interrupted, so that the  *)
(* theorems about who drives a run assume it is off.                       *)
(***************************************************************************)
EXTENDS RunLifecycle, FiniteSetTheorems, TLAPS

(* Runs are born in order, and the submissions past the depth check still  *)
(* find a number.                                                          *)
InOrder == \E n \in Nat : Born = 1..n /\ n + admitted <= Cardinality(Runs)

(* Nothing is done about a run before its first event.                     *)
BornFirst ==
  /\ \A r \in Runs : status[r] # "none" \/ r \in recorded \/ verdict[r] => r \in Born
  /\ backlog \subseteq Born
  /\ \A q \in asked : q[2] \in Born

(* A run on disk that is not yet in the queue is in nobody's hands; only a *)
(* serving process has such runs.                                          *)
Fresh ==
  /\ \A r \in recorded : /\ ledger[r].last = "queued" /\ status[r] = "none" /\ ~ verdict[r]
                         /\ \A q \in asked : q[2] # r
  /\ ~ Serving => recorded = {}

(* The status table knows what the queue and the threads hold, once each.  *)
InQueue(q, s) ==
  /\ \A i \in DOMAIN q : s[q[i]] = "queued"
  /\ \A i, j \in DOMAIN q : q[i] = q[j] => i = j

Tabled ==
  /\ InQueue(queue, status)
  /\ \A w \in Workers : job[w] # NoRun => status[job[w]] = "running"
  /\ \A w, v \in Workers : job[w] = job[v] /\ job[w] # NoRun => w = v

(* A thread has a job exactly while it works on one; it starts a run that  *)
(* is not complete, in an attempt that is counted.                         *)
Staged ==
  /\ \A w \in Workers : job[w] # NoRun <=> stage[w] \in {"building", "running", "ended"}
  /\ \A w \in Workers : stage[w] = "running" => saved[job[w]] < Nodes
  /\ \A w \in Workers : stage[w] = "building" => fruitless[job[w]] >= 1
  /\ process = "down" => \A w \in Workers : job[w] = NoRun

Inv == TypeOK /\ InOrder /\ BornFirst /\ Fresh /\ Tabled /\ Staged

-----------------------------------------------------------------------------
LEMMA RunNumbers ==
  /\ Cardinality(Runs) \in Nat /\ Runs = 1..Cardinality(Runs) /\ NoRun \notin Runs
  /\ \A n \in Nat : Cardinality(1..n) = n
<1>1. Cardinality(Runs) \in Nat
  BY LifecycleAssumption, FS_CardinalityType
<1>2. \A n \in Nat : Cardinality(1..n) = n
  BY FS_Interval
<1> QED BY <1>1, <1>2, LifecycleAssumption DEF NoRun

(* Every event keeps the log's type and becomes its last.                  *)
LEMMA LoggedType ==
  ASSUME NEW log \in Logs, NEW kind \in Kinds
  PROVE  /\ Logged(log, kind) \in Logs
         /\ Logged(log, kind).last = IF kind = "auto" THEN "queued" ELSE kind
  BY DEF Logged, Logs, Kinds

(* An event on the log of a run that has one changes no other log.         *)
LEMMA WriteKeeps ==
  ASSUME ledger \in [Runs -> Logs], NEW r \in Born, NEW kind \in Kinds, Write(r, kind)
  PROVE  /\ ledger' \in [Runs -> Logs]
         /\ Born' = Born
         /\ \A s \in Runs : s # r => ledger'[s] = ledger[s]
         /\ ledger'[r].last = IF kind = "auto" THEN "queued" ELSE kind
<1>1. Logged(ledger[r], kind) \in Logs
      /\ Logged(ledger[r], kind).last = IF kind = "auto" THEN "queued" ELSE kind
  BY LoggedType DEF Born
<1>2. Logged(ledger[r], kind).last # "none"
  BY <1>1 DEF Kinds
<1> QED BY <1>1, <1>2 DEF Write, Born

(* The numbering survives what neither adds a run nor admits one.          *)
LEMMA OrderKept ==
  ASSUME InOrder, TypeOK, Born' = Born, admitted' \in Nat, admitted' <= admitted
  PROVE  InOrder'
<1> PICK n \in Nat : Born = 1..n /\ n + admitted <= Cardinality(Runs)
  BY DEF InOrder
<1>1. n + admitted' <= Cardinality(Runs)
  BY RunNumbers DEF TypeOK
<1> QED BY <1>1 DEF InOrder

(* What a thread works on has a first event and a running status.          *)
LEMMA JobIsBorn ==
  ASSUME TypeOK, BornFirst, Tabled, NEW w \in Workers, job[w] # NoRun
  PROVE  job[w] \in Born /\ job[w] \in Runs /\ status[job[w]] = "running"
<1>1. job[w] \in Runs /\ status[job[w]] = "running"
  BY DEF TypeOK, Tabled
<1> QED BY <1>1 DEF BornFirst

(* The queue's half of Tabled, over appending and removing a run.          *)
LEMMA PutQueue ==
  ASSUME NEW q \in Seq(Runs), NEW s \in [Runs -> Live \cup {"none"}], InQueue(q, s),
         NEW r \in Runs, s[r] = "none"
  PROVE  /\ Append(q, r) \in Seq(Runs)
         /\ InQueue(Append(q, r), [s EXCEPT ![r] = "queued"])
  BY DEF InQueue, Live

LEMMA TakeQueue ==
  ASSUME NEW q \in Seq(Runs), NEW s \in [Runs -> Live \cup {"none"}], InQueue(q, s),
         q # << >>
  PROVE  /\ Head(q) \in Runs /\ s[Head(q)] = "queued" /\ Tail(q) \in Seq(Runs)
         /\ InQueue(Tail(q), s)
         /\ InQueue(Tail(q), [s EXCEPT ![Head(q)] = "running"])
  BY DEF InQueue, Live

LEMMA InitInv == Init => Inv
<1> SUFFICES ASSUME Init PROVE Inv OBVIOUS
<1> USE LifecycleAssumption, RunNumbers DEF Init
<1>1. TypeOK BY DEF TypeOK, NoLog, Logs, Kinds, Live, NoRun
<1>2. InOrder
  <2>1. Born = 1..0 BY DEF Born, NoLog
  <2> QED BY <2>1 DEF InOrder
<1>3. BornFirst BY DEF BornFirst
<1>4. Fresh BY DEF Fresh
<1>5. Tabled BY DEF Tabled, InQueue
<1>6. Staged BY DEF Staged
<1> QED BY <1>1, <1>2, <1>3, <1>4, <1>5, <1>6 DEF Inv
-----------------------------------------------------------------------------
(* Every step keeps the invariant.  First a process's own steps.           *)

LEMMA BootInv == ASSUME Inv, Boot PROVE Inv'
<1> USE DEF Inv, Boot, disk, requests
<1>1. TypeOK'
  BY LifecycleAssumption DEF TypeOK
<1>2. Born' = Born /\ InOrder'
  BY OrderKept DEF Born, TypeOK
<1>3. BornFirst'
  BY <1>2 DEF BornFirst, Owed
<1>4. Fresh'
  BY DEF Fresh, Serving
<1>5. Tabled'
  BY DEF Tabled
<1>6. Staged'
  BY DEF Staged
<1> QED BY <1>1, <1>2, <1>3, <1>4, <1>5, <1>6

(* Putting a run back, by recovery or by hand, touches the queue, the      *)
(* status table and the log together, or nothing.                          *)
LEMMA ResumeKeeps ==
  ASSUME TypeOK, InOrder, BornFirst, Tabled,
         NEW r \in Born, NEW kind \in {"auto", "queued"}, Resume(r, kind),
         UNCHANGED <<job, verdict>>
  PROVE  /\ ledger' \in [Runs -> Logs] /\ Born' = Born
         /\ queue' \in Seq(Runs) /\ status' \in [Runs -> Live \cup {"none"}]
         /\ \A s \in Runs : s # r => ledger'[s] = ledger[s] /\ status'[s] = status[s]
         /\ Tabled'
<1>1. CASE status[r] # "none"
  BY <1>1 DEF Resume, TypeOK, Tabled, Born
<1>2. CASE status[r] = "none"
  <2>1. /\ status' = [status EXCEPT ![r] = "queued"] /\ queue' = Append(queue, r)
        /\ Write(r, kind) /\ r \in Runs
    BY <1>2 DEF Resume, Put, Born
  <2>2. /\ ledger' \in [Runs -> Logs] /\ Born' = Born
        /\ \A s \in Runs : s # r => ledger'[s] = ledger[s]
    BY <2>1, WriteKeeps DEF TypeOK, Kinds
  <2>3. queue' \in Seq(Runs) /\ InQueue(queue', status')
    BY <1>2, <2>1, PutQueue DEF TypeOK, Tabled
  <2>4. status' \in [Runs -> Live \cup {"none"}]
        /\ \A s \in Runs : s # r => status'[s] = status[s]
    BY <2>1 DEF TypeOK, Live
  <2>5. \A w \in Workers : job[w] # NoRun => status'[job[w]] = "running"
    <3> SUFFICES ASSUME NEW w \in Workers, job[w] # NoRun PROVE status'[job[w]] = "running"
      OBVIOUS
    <3>1. job[w] \in Runs /\ status[job[w]] = "running"
      BY JobIsBorn
    <3> QED BY <3>1, <1>2, <2>4
  <2> QED BY <2>2, <2>3, <2>4, <2>5 DEF Tabled
<1> QED BY <1>1, <1>2

LEMMA RecoverInv == ASSUME Inv, Recover PROVE Inv'
<1> USE DEF Inv
<1> PICK r \in backlog :
       /\ IF GivenUp(r) THEN Write(r, "abandoned") /\ UNCHANGED <<queue, status>>
                        ELSE Resume(r, "auto")
       /\ backlog' = backlog \ {r}
  BY DEF Recover
<1>0. /\ r \in Born /\ process = "booting" /\ r \in Runs
      /\ UNCHANGED <<saved, verdict, stamp, process, deployed, boots, threads, requests,
                     fruitless>>
  BY DEF Recover, BornFirst, Born
<1>1. /\ ledger' \in [Runs -> Logs] /\ Born' = Born
      /\ queue' \in Seq(Runs) /\ status' \in [Runs -> Live \cup {"none"}]
      /\ \A s \in Runs : s # r => ledger'[s] = ledger[s] /\ status'[s] = status[s]
      /\ Tabled'
  <2>1. CASE GivenUp(r)
    <3>1. Write(r, "abandoned") /\ UNCHANGED <<queue, status>>
      BY <2>1
    <3> QED BY <1>0, <3>1, WriteKeeps DEF TypeOK, Kinds, Tabled, threads
  <2>2. CASE ~ GivenUp(r)
    BY <1>0, <2>2, ResumeKeeps DEF threads
  <2> QED BY <2>1, <2>2
<1>2. TypeOK'
  BY <1>0, <1>1 DEF TypeOK, threads, requests
<1>3. InOrder'
  BY <1>0, <1>1, OrderKept DEF TypeOK, requests
<1>4. BornFirst'
  BY <1>0, <1>1 DEF BornFirst, requests
<1>5. Fresh'
  BY <1>0 DEF Fresh, Serving, requests
<1>6. Staged'
  BY <1>0 DEF Staged, threads
<1> QED BY <1>1, <1>2, <1>3, <1>4, <1>5, <1>6

LEMMA ServeInv == ASSUME Inv, Serve PROVE Inv'
<1> USE DEF Inv, Serve, disk, threads, requests
<1>1. TypeOK'
  BY DEF TypeOK
<1>2. Born' = Born /\ InOrder'
  BY OrderKept DEF Born, TypeOK
<1>3. BornFirst' /\ Fresh'
  BY <1>2 DEF BornFirst, Fresh, Serving
<1>4. Tabled' /\ Staged'
  BY DEF Tabled, Staged
<1> QED BY <1>1, <1>2, <1>3, <1>4

LEMMA StopInv == ASSUME Inv, Stop PROVE Inv'
<1> USE DEF Inv, Stop, disk, threads, requests
<1>1. TypeOK'
  BY DEF TypeOK
<1>2. Born' = Born /\ InOrder'
  BY OrderKept DEF Born, TypeOK
<1>3. BornFirst' /\ Fresh'
  BY <1>2 DEF BornFirst, Fresh, Serving
<1>4. Tabled' /\ Staged'
  BY DEF Tabled, Staged
<1> QED BY <1>1, <1>2, <1>3, <1>4

LEMMA KillInv == ASSUME Inv, Kill PROVE Inv'
<1> USE RunNumbers DEF Inv, Kill, disk
<1>1. TypeOK'
  BY DEF TypeOK, Live, NoRun
<1>2. Born' = Born /\ InOrder'
  BY OrderKept DEF Born, TypeOK
<1>3. BornFirst' /\ Fresh'
  BY <1>2 DEF BornFirst, Fresh
<1>4. Tabled' /\ Staged'
  BY DEF Tabled, Staged, InQueue
<1> QED BY <1>1, <1>2, <1>3, <1>4
-----------------------------------------------------------------------------
(* The requests. *)

LEMMA AdmitInv == ASSUME Inv, Admit PROVE Inv'
<1> USE DEF Inv, Admit, disk, machine, threads
<1>1. TypeOK'
  BY DEF TypeOK
<1>2. Born' = Born
  BY DEF Born
<1>3. InOrder'
  <2> PICK n \in Nat : Born = 1..n /\ n + admitted <= Cardinality(Runs)
    BY DEF InOrder
  <2>1. Cardinality(Born) = n
    BY RunNumbers
  <2>2. n + admitted' <= Cardinality(Runs)
    BY <2>1, RunNumbers DEF TypeOK
  <2> QED BY <1>2, <2>2 DEF InOrder
<1>4. BornFirst' /\ Fresh'
  BY <1>2 DEF BornFirst, Fresh, Serving
<1>5. Tabled' /\ Staged'
  BY DEF Tabled, Staged
<1> QED BY <1>1, <1>3, <1>4, <1>5

(* The new run takes the first free number, which nothing mentions yet.    *)
LEMMA RecordInv == ASSUME ~ Refining, Inv, Record PROVE Inv'
<1> USE DEF Inv
<1>0. /\ Serving /\ admitted > 0 /\ admitted' = admitted - 1
      /\ UNCHANGED <<saved, verdict, stamp, machine, queue, status, threads, asked, byHand,
                     fruitless>>
  BY DEF Record
<1> PICK n \in Nat : Born = 1..n /\ n + admitted <= Cardinality(Runs)
  BY DEF InOrder
<1> DEFINE r == n + 1
<1>1. r = Cardinality(Born) + 1 /\ r \in Runs /\ r \notin Born
  <2>1. Cardinality(Born) = n
    BY RunNumbers
  <2>2. n + 1 <= Cardinality(Runs)
    BY <1>0, RunNumbers DEF TypeOK
  <2> QED BY <2>1, <2>2, RunNumbers
<1>2. Write(r, "queued") /\ recorded' = recorded \cup {r}
  BY <1>1 DEF Record
<1>3. /\ ledger' \in [Runs -> Logs] /\ ledger'[r].last = "queued"
      /\ \A s \in Runs : s # r => ledger'[s] = ledger[s]
  <2>1. Logged(ledger[r], "queued") \in Logs /\ Logged(ledger[r], "queued").last = "queued"
    BY <1>1, LoggedType DEF TypeOK, Kinds
  <2> QED BY <1>1, <1>2, <2>1 DEF Write, TypeOK
<1>4. Born' = Born \cup {r}
  BY <1>1, <1>3 DEF Born
<1>5. status[r] = "none" /\ ~ verdict[r] /\ \A q \in asked : q[2] # r
  BY <1>1 DEF BornFirst
<1>6. TypeOK'
  BY <1>0, <1>1, <1>2, <1>3 DEF TypeOK, machine, threads
<1>7. InOrder'
  <2>1. Born' = 1..(n + 1)
    BY <1>4
  <2>2. n + 1 + admitted' <= Cardinality(Runs)
    BY <1>0, RunNumbers DEF TypeOK
  <2> QED BY <2>1, <2>2 DEF InOrder
<1>8. BornFirst'
  BY <1>0, <1>2, <1>4 DEF BornFirst, machine
<1>9. Fresh'
  BY <1>0, <1>1, <1>2, <1>3, <1>5 DEF Fresh, Serving, machine, TypeOK
<1>10. Tabled' /\ Staged'
  BY <1>0 DEF Tabled, Staged, machine, threads
<1> QED BY <1>6, <1>7, <1>8, <1>9, <1>10

LEMMA EnqueueInv == ASSUME Inv, Enqueue PROVE Inv'
<1> USE DEF Inv
<1> PICK r \in recorded : /\ status' = [status EXCEPT ![r] = "queued"]
                          /\ Put(r) /\ recorded' = recorded \ {r}
  BY DEF Enqueue
<1>0. UNCHANGED <<disk, machine, threads, admitted, asked, byHand, fruitless>>
  BY DEF Enqueue
<1>1. r \in Runs /\ r \in Born /\ status[r] = "none" /\ queue' = Append(queue, r)
  BY DEF Fresh, BornFirst, TypeOK, Put
<1>2. queue' \in Seq(Runs) /\ InQueue(queue', status')
  BY <1>1, PutQueue DEF TypeOK, Tabled
<1>3. TypeOK'
  BY <1>0, <1>1, <1>2 DEF TypeOK, disk, machine, threads, Live
<1>4. Born' = Born /\ InOrder'
  BY <1>0, OrderKept DEF Born, TypeOK, disk
<1>5. BornFirst'
  BY <1>0, <1>1, <1>4 DEF BornFirst, disk, machine, TypeOK
<1>6. Fresh'
  BY <1>0 DEF Fresh, disk, machine, TypeOK, Serving
<1>7. Tabled'
  <2>1. \A w \in Workers : job[w] # NoRun => status'[job[w]] = "running"
    BY <1>1, JobIsBorn DEF TypeOK
  <2> QED BY <1>0, <1>2, <2>1 DEF Tabled, threads
<1>8. Staged'
  BY <1>0 DEF Staged, disk, machine, threads
<1> QED BY <1>3, <1>4, <1>5, <1>6, <1>7, <1>8

(* A run on disk and not yet in the queue shows as queued: nobody may ask  *)
(* for it.                                                                 *)
LEMMA AskResumeInv == ASSUME Inv, AskResume PROVE Inv'
<1> USE DEF Inv
<1> PICK r \in Born : /\ Summary(r) \in {"interrupted", "abandoned"}
                      /\ asked' = asked \cup {<<byHand, r>>}
  BY DEF AskResume
<1>0. /\ byHand < MaxByHand /\ byHand' = byHand + 1
      /\ UNCHANGED <<disk, machine, queue, status, threads, admitted, recorded, fruitless>>
  BY DEF AskResume
<1>1. r \notin recorded
  BY DEF Fresh, Summary
<1>2. TypeOK'
  BY <1>0, LifecycleAssumption DEF TypeOK, disk, machine, threads, Born
<1>3. Born' = Born /\ InOrder'
  BY <1>0, OrderKept DEF Born, TypeOK, disk
<1>4. BornFirst' /\ Fresh'
  BY <1>0, <1>1, <1>3 DEF BornFirst, Fresh, Serving, disk, machine
<1>5. Tabled' /\ Staged'
  BY <1>0 DEF Tabled, Staged, disk, machine, threads
<1> QED BY <1>2, <1>3, <1>4, <1>5

LEMMA ResumeByHandInv == ASSUME Inv, ResumeByHand PROVE Inv'
<1> USE DEF Inv
<1> PICK req \in asked : Resume(req[2], "queued") /\ asked' = asked \ {req}
  BY DEF ResumeByHand
<1> DEFINE r == req[2]
<1>0. /\ r \in Born /\ r \notin recorded
      /\ UNCHANGED <<saved, verdict, stamp, machine, threads, admitted, recorded, byHand,
                     fruitless>>
  BY DEF ResumeByHand, BornFirst, Fresh
<1>1. /\ ledger' \in [Runs -> Logs] /\ Born' = Born
      /\ queue' \in Seq(Runs) /\ status' \in [Runs -> Live \cup {"none"}]
      /\ \A s \in Runs : s # r => ledger'[s] = ledger[s] /\ status'[s] = status[s]
      /\ Tabled'
  BY <1>0, ResumeKeeps DEF threads
<1>2. TypeOK'
  BY <1>0, <1>1 DEF TypeOK, machine, threads
<1>3. InOrder'
  BY <1>0, <1>1, OrderKept DEF TypeOK
<1>4. BornFirst'
  BY <1>0, <1>1 DEF BornFirst, machine
<1>5. Fresh'
  BY <1>0, <1>1 DEF Fresh, Serving, machine, TypeOK
<1>6. Staged'
  BY <1>0 DEF Staged, machine, threads
<1> QED BY <1>1, <1>2, <1>3, <1>4, <1>5, <1>6
-----------------------------------------------------------------------------
(* The threads. *)

(* What a thread writes about its run disturbs nothing said of the others. *)
LEMMA WorkKeeps ==
  ASSUME Inv, NEW w \in Workers, job[w] # NoRun, Born' = Born,
         UNCHANGED <<machine, queue, status, requests>>,
         \A s \in Runs : s # job[w] => ledger'[s] = ledger[s] /\ verdict'[s] = verdict[s]
  PROVE  InOrder' /\ BornFirst' /\ Fresh'
<1> USE DEF Inv
<1>0. job[w] \in Born /\ job[w] \in Runs /\ status[job[w]] = "running"
  BY JobIsBorn
<1>1. InOrder'
  BY OrderKept DEF TypeOK, requests
<1>2. BornFirst'
  BY <1>0 DEF BornFirst, machine, requests
<1>3. Fresh'
  BY <1>0 DEF Fresh, Serving, machine, requests, TypeOK
<1> QED BY <1>1, <1>2, <1>3

(* A thread that ends an attempt keeps its job until it drops the status.  *)
LEMMA EndKeeps ==
  ASSUME Inv, NEW w \in Workers, job[w] # NoRun,
         NEW what \in {"none", "finished", "abandoned", "interrupted"}, End(w, what),
         UNCHANGED <<machine, queue, status>>,
         \A s \in Runs : s # job[w] => saved'[s] = saved[s] /\ fruitless'[s] = fruitless[s]
  PROVE  /\ Tabled' /\ Staged'
         /\ job' \in [Workers -> Runs \cup {NoRun}]
         /\ stage' \in [Workers -> {"gone", "idle", "building", "running", "ended"}]
         /\ outcome' \in [Workers -> {"none", "finished", "abandoned", "interrupted"}]
<1> USE DEF Inv, End
<1>1. Tabled'
  BY DEF Tabled
<1>2. \A v \in Workers : v # w => stage'[v] = stage[v] /\ job[v] # job[w]
  BY DEF Tabled, TypeOK
<1>3. stage'[w] = "ended"
  BY DEF TypeOK
<1>4. Staged'
  <2>1. \A v \in Workers : job'[v] # NoRun <=> stage'[v] \in {"building", "running", "ended"}
    BY <1>2, <1>3 DEF Staged
  <2>2. \A v \in Workers : stage'[v] = "running" => saved'[job'[v]] < Nodes
    BY <1>2, <1>3 DEF Staged, TypeOK
  <2>3. \A v \in Workers : stage'[v] = "building" => fruitless'[job'[v]] >= 1
    BY <1>2, <1>3 DEF Staged, TypeOK
  <2> QED BY <2>1, <2>2, <2>3 DEF Staged, machine
<1> QED BY <1>1, <1>4 DEF TypeOK

LEMMA TakeInv == ASSUME Inv, NEW w \in Workers, Take(w) PROVE Inv'
<1> USE DEF Inv
<1> DEFINE r == Head(queue)
<1>0. /\ stage[w] = "idle" /\ process \in {"booting", "up"} /\ queue # << >>
      /\ job' = [job EXCEPT ![w] = r] /\ stage' = [stage EXCEPT ![w] = "building"]
      /\ status' = [status EXCEPT ![r] = "running"] /\ queue' = Tail(queue)
      /\ fruitless' = [fruitless EXCEPT ![r] = fruitless[r] + 1]
      /\ UNCHANGED <<disk, machine, outcome, requests>>
  BY DEF Take, Attempts
<1>1. /\ r \in Runs /\ status[r] = "queued" /\ queue' \in Seq(Runs)
      /\ InQueue(queue', status')
  BY <1>0, TakeQueue DEF TypeOK, Tabled
<1>2. \A v \in Workers : job[v] # r
  BY <1>1, JobIsBorn, RunNumbers
<1>3. TypeOK'
  <2>1. job' \in [Workers -> Runs \cup {NoRun}] /\ status' \in [Runs -> Live \cup {"none"}]
    BY <1>0, <1>1 DEF TypeOK, Live
  <2>2. fruitless' \in [Runs -> Nat]
    BY <1>0, <1>1 DEF TypeOK
  <2>3. stage' \in [Workers -> {"gone", "idle", "building", "running", "ended"}]
    BY <1>0 DEF TypeOK
  <2> QED BY <1>0, <1>1, <2>1, <2>2, <2>3 DEF TypeOK, disk, machine, requests
<1>4. Born' = Born /\ InOrder'
  BY <1>0, OrderKept DEF Born, TypeOK, disk, requests
<1>5. BornFirst' /\ Fresh'
  BY <1>0, <1>1, <1>4 DEF BornFirst, Fresh, Serving, disk, machine, requests, TypeOK
<1>6. Tabled'
  <2>1. job' \in [Workers -> Runs \cup {NoRun}] /\ job'[w] = r
        /\ \A v \in Workers : v # w => job'[v] = job[v]
    BY <1>0, <1>3 DEF TypeOK
  <2>2. \A v \in Workers : job'[v] # NoRun => status'[job'[v]] = "running"
    BY <1>0, <1>1, <2>1 DEF TypeOK, Tabled
  <2>3. \A v, u \in Workers : job'[v] = job'[u] /\ job'[v] # NoRun => v = u
    BY <1>2, <2>1 DEF Tabled
  <2> QED BY <1>1, <2>2, <2>3 DEF Tabled
<1>7. Staged'
  <2>1. /\ job'[w] = r /\ stage'[w] = "building" /\ fruitless'[r] >= 1 /\ r # NoRun
        /\ \A s \in Runs : s # r => fruitless'[s] = fruitless[s]
    BY <1>0, <1>1, RunNumbers DEF TypeOK
  <2>2. \A v \in Workers : v # w => job'[v] = job[v] /\ stage'[v] = stage[v]
    BY <1>0 DEF TypeOK
  <2>3. \A v \in Workers : stage'[v] = "building" => fruitless'[job'[v]] >= 1
    <3> SUFFICES ASSUME NEW v \in Workers, v # w, stage[v] = "building"
                 PROVE  fruitless'[job[v]] >= 1
      BY <2>1, <2>2
    <3>1. job[v] \in Runs /\ job[v] # r /\ fruitless[job[v]] >= 1
      BY <1>2 DEF Staged, TypeOK
    <3> QED BY <2>1, <3>1
  <2>4. \A v \in Workers : stage'[v] = "running" => saved'[job'[v]] < Nodes
    BY <1>0, <2>1, <2>2 DEF Staged, disk
  <2>5. process # "down" /\ process' = process
    BY <1>0 DEF machine
  <2> QED BY <2>1, <2>2, <2>3, <2>4, <2>5 DEF Staged
<1> QED BY <1>3, <1>4, <1>5, <1>6, <1>7

LEMMA LeaveInv == ASSUME Inv, NEW w \in Workers, Leave(w) PROVE Inv'
<1> USE DEF Inv
<1>0. /\ stage[w] = "idle" /\ stage' = [stage EXCEPT ![w] = "gone"]
      /\ queue' = queue \/ (queue # << >> /\ queue' = Tail(queue))
      /\ UNCHANGED <<disk, machine, status, job, outcome, requests, fruitless>>
  BY DEF Leave
<1>1. queue' \in Seq(Runs) /\ InQueue(queue', status')
  <2>1. queue \in Seq(Runs) /\ status \in [Runs -> Live \cup {"none"}]
        /\ InQueue(queue, status) /\ status' = status
    BY <1>0 DEF TypeOK, Tabled
  <2>2. CASE queue' = queue
    BY <2>1, <2>2
  <2>3. CASE queue # << >> /\ queue' = Tail(queue)
    BY <2>1, <2>3, TakeQueue
  <2> QED BY <1>0, <2>2, <2>3
<1>2. TypeOK'
  BY <1>0, <1>1 DEF TypeOK, disk, machine, requests
<1>3. Born' = Born /\ InOrder'
  BY <1>0, OrderKept DEF Born, TypeOK, disk, requests
<1>4. BornFirst' /\ Fresh'
  BY <1>0, <1>3 DEF BornFirst, Fresh, Serving, disk, machine, requests
<1>5. Tabled' /\ Staged'
  BY <1>0, <1>1 DEF Tabled, Staged, TypeOK, disk, machine
<1> QED BY <1>2, <1>3, <1>4, <1>5

(* The attempt that a deferral takes back was counted when the job was     *)
(* taken.                                                                  *)
LEMMA RefusedInv == ASSUME Inv, NEW w \in Workers, Refused(w) PROVE Inv'
<1> USE DEF Inv
<1> DEFINE r == job[w]
<1>0. /\ stage[w] = "building" /\ Write(r, "deferred") /\ End(w, "none")
      /\ fruitless' = [fruitless EXCEPT ![r] = fruitless[r] - 1]
      /\ UNCHANGED <<saved, verdict, stamp, machine, queue, status, requests>>
  BY DEF Refused, Attempts
<1>1. r # NoRun /\ fruitless[r] >= 1
  BY <1>0 DEF Staged
<1>2. r \in Born /\ r \in Runs
  BY <1>1, JobIsBorn
<1>3. /\ ledger' \in [Runs -> Logs] /\ Born' = Born
      /\ \A s \in Runs : s # r => ledger'[s] = ledger[s]
  BY <1>0, <1>2, WriteKeeps DEF TypeOK, Kinds
<1>4. InOrder' /\ BornFirst' /\ Fresh'
  BY <1>0, <1>1, <1>3, WorkKeeps
<1>5. fruitless' \in [Runs -> Nat] /\ \A s \in Runs : s # r => fruitless'[s] = fruitless[s]
  BY <1>0, <1>1, <1>2 DEF TypeOK
<1>6. /\ Tabled' /\ Staged'
      /\ job' \in [Workers -> Runs \cup {NoRun}]
      /\ stage' \in [Workers -> {"gone", "idle", "building", "running", "ended"}]
      /\ outcome' \in [Workers -> {"none", "finished", "abandoned", "interrupted"}]
  BY <1>0, <1>1, <1>5, EndKeeps
<1>7. TypeOK'
  BY <1>0, <1>3, <1>5, <1>6 DEF TypeOK, machine, requests
<1> QED BY <1>4, <1>6, <1>7

LEMMA ProgressInv == ASSUME Inv, NEW w \in Workers, Progress(w) PROVE Inv'
<1> USE DEF Inv
<1> DEFINE r == job[w]
<1>0. /\ stage[w] = "running" /\ Write(r, "progress")
      /\ fruitless' = [fruitless EXCEPT ![r] = 0]
      /\ verdict' = [verdict EXCEPT ![r] = LastNode(r)]
      /\ UNCHANGED <<saved, stamp, machine, queue, status, threads, requests>>
  BY DEF Progress, Attempts
<1>1. r # NoRun
  BY <1>0 DEF Staged
<1>2. r \in Born /\ r \in Runs
  BY <1>1, JobIsBorn
<1>3. /\ ledger' \in [Runs -> Logs] /\ Born' = Born
      /\ \A s \in Runs : s # r => ledger'[s] = ledger[s]
  BY <1>0, <1>2, WriteKeeps DEF TypeOK, Kinds
<1>4. /\ verdict' \in [Runs -> BOOLEAN]
      /\ \A s \in Runs : s # r => verdict'[s] = verdict[s]
  BY <1>0 DEF TypeOK, LastNode
<1>5. InOrder' /\ BornFirst' /\ Fresh'
  BY <1>0, <1>1, <1>3, <1>4, WorkKeeps
<1>6. TypeOK'
  BY <1>0, <1>3, <1>4 DEF TypeOK, machine, requests, threads
<1>7. Tabled'
  BY <1>0 DEF Tabled, threads
<1>8. Staged'
  BY <1>0 DEF Staged, Tabled, TypeOK, threads, machine
<1> QED BY <1>5, <1>6, <1>7, <1>8

LEMMA AccountRefusesInv == ASSUME Inv, NEW w \in Workers, AccountRefuses(w) PROVE Inv'
<1> USE DEF Inv
<1> DEFINE r == job[w]
           k == IF fruitless[r] = 0 THEN 0 ELSE fruitless[r] - 1
<1>0. /\ stage[w] = "running" /\ Write(r, "deferred") /\ End(w, "none")
      /\ fruitless' = [fruitless EXCEPT ![r] = k]
      /\ UNCHANGED <<saved, verdict, stamp, machine, queue, status, requests>>
  BY DEF AccountRefuses, Attempts
<1>1. r # NoRun
  BY <1>0 DEF Staged
<1>2. r \in Born /\ r \in Runs
  BY <1>1, JobIsBorn
<1>3. /\ ledger' \in [Runs -> Logs] /\ Born' = Born
      /\ \A s \in Runs : s # r => ledger'[s] = ledger[s]
  BY <1>0, <1>2, WriteKeeps DEF TypeOK, Kinds
<1>4. InOrder' /\ BornFirst' /\ Fresh'
  BY <1>0, <1>1, <1>3, WorkKeeps
<1>5. fruitless' \in [Runs -> Nat] /\ \A s \in Runs : s # r => fruitless'[s] = fruitless[s]
  BY <1>0, <1>2 DEF TypeOK
<1>6. /\ Tabled' /\ Staged'
      /\ job' \in [Workers -> Runs \cup {NoRun}]
      /\ stage' \in [Workers -> {"gone", "idle", "building", "running", "ended"}]
      /\ outcome' \in [Workers -> {"none", "finished", "abandoned", "interrupted"}]
  BY <1>0, <1>1, <1>5, EndKeeps
<1>7. TypeOK'
  BY <1>0, <1>3, <1>5, <1>6 DEF TypeOK, machine, requests
<1> QED BY <1>4, <1>6, <1>7

LEMMA CrashInv == ASSUME Inv, NEW w \in Workers, Crash(w) PROVE Inv'
<1> USE DEF Inv
<1>0. /\ stage[w] \in {"building", "running"} /\ End(w, "interrupted")
      /\ UNCHANGED <<disk, machine, queue, status, requests, fruitless>>
  BY DEF Crash
<1>1. job[w] # NoRun /\ Born' = Born
  BY <1>0 DEF Staged, Born, disk
<1>2. InOrder' /\ BornFirst' /\ Fresh'
  BY <1>0, <1>1, WorkKeeps DEF disk
<1>3. /\ Tabled' /\ Staged'
      /\ job' \in [Workers -> Runs \cup {NoRun}]
      /\ stage' \in [Workers -> {"gone", "idle", "building", "running", "ended"}]
      /\ outcome' \in [Workers -> {"none", "finished", "abandoned", "interrupted"}]
  BY <1>0, <1>1, EndKeeps DEF disk
<1>4. TypeOK'
  BY <1>0, <1>3 DEF TypeOK, disk, machine, requests
<1> QED BY <1>2, <1>3, <1>4

LEMMA FinishInv == ASSUME Inv, NEW w \in Workers, Finish(w) PROVE Inv'
<1> USE DEF Inv
<1> DEFINE r == job[w]
<1>0. /\ stage[w] = "ended" /\ status' = [status EXCEPT ![r] = "none"]
      /\ job' = [job EXCEPT ![w] = NoRun] /\ outcome' = [outcome EXCEPT ![w] = "none"]
      /\ stage' = [stage EXCEPT ![w] = IF ledger[r].last = "pause" THEN "gone" ELSE "idle"]
      /\ UNCHANGED <<disk, machine, queue, requests, fruitless>>
  BY DEF Finish
<1>1. r # NoRun
  BY <1>0 DEF Staged
<1>2. r \in Born /\ r \in Runs /\ status[r] = "running"
  BY <1>1, JobIsBorn
<1>3. TypeOK'
  BY <1>0 DEF TypeOK, disk, machine, requests
<1>4. Born' = Born /\ InOrder'
  BY <1>0, OrderKept DEF Born, TypeOK, disk, requests
<1>5. BornFirst' /\ Fresh'
  BY <1>0, <1>4 DEF BornFirst, Fresh, Serving, disk, machine, requests, TypeOK
<1>6. Tabled'
  <2>1. InQueue(queue', status')
    BY <1>0, <1>2 DEF Tabled, InQueue, TypeOK
  <2>2. \A v \in Workers : job'[v] # NoRun => v # w /\ job'[v] = job[v] /\ job[v] # r
    BY <1>0, <1>1 DEF TypeOK, Tabled
  <2>3. \A v \in Workers : job'[v] # NoRun => status'[job'[v]] = "running"
    BY <1>0, <2>2 DEF Tabled, TypeOK
  <2>4. \A v, u \in Workers : job'[v] = job'[u] /\ job'[v] # NoRun => v = u
    BY <2>2 DEF Tabled
  <2> QED BY <2>1, <2>3, <2>4 DEF Tabled
<1>7. Staged'
  BY <1>0 DEF Staged, TypeOK, disk, machine
<1> QED BY <1>3, <1>4, <1>5, <1>6, <1>7

LEMMA StartInv == ASSUME Inv, NEW w \in Workers, Start(w) PROVE Inv'
<1> USE DEF Inv
<1> DEFINE r == job[w]
<1>0. /\ stage[w] = "building"
      /\ UNCHANGED <<saved, verdict, machine, queue, status, requests, fruitless>>
  BY DEF Start
<1>1. r # NoRun
  BY <1>0 DEF Staged
<1>2. r \in Born /\ r \in Runs
  BY <1>1, JobIsBorn
<1>3. \/ Write(r, "abandoned")
      \/ Write(r, "startup")
      \/ ledger' = [ledger EXCEPT ![r] = Logged(Logged(@, "startup"), "pause")]
  BY DEF Start
<1>4. /\ ledger' \in [Runs -> Logs] /\ Born' = Born
      /\ \A s \in Runs : s # r => ledger'[s] = ledger[s]
  <2>1. CASE Write(r, "abandoned") \/ Write(r, "startup")
    BY <1>2, <2>1, WriteKeeps DEF TypeOK, Kinds
  <2>2. CASE ledger' = [ledger EXCEPT ![r] = Logged(Logged(@, "startup"), "pause")]
    <3>1. Logged(ledger[r], "startup") \in Logs
      BY <1>2, LoggedType DEF TypeOK, Kinds
    <3>2. LET log == Logged(Logged(ledger[r], "startup"), "pause")
          IN  log \in Logs /\ log.last = "pause"
      BY <3>1, LoggedType DEF Kinds
    <3> QED BY <1>2, <2>2, <3>2 DEF TypeOK, Born
  <2> QED BY <1>3, <2>1, <2>2
<1>5. InOrder' /\ BornFirst' /\ Fresh'
  BY <1>0, <1>1, <1>4, WorkKeeps
<1>6. \/ \E what \in {"none", "finished", "abandoned"} : End(w, what)
      \/ /\ stage' = [stage EXCEPT ![w] = "running"] /\ UNCHANGED <<job, outcome>>
         /\ saved[r] < Nodes
  BY DEF Start
<1>7. /\ Tabled' /\ Staged'
      /\ job' \in [Workers -> Runs \cup {NoRun}]
      /\ stage' \in [Workers -> {"gone", "idle", "building", "running", "ended"}]
      /\ outcome' \in [Workers -> {"none", "finished", "abandoned", "interrupted"}]
  <2>1. CASE \E what \in {"none", "finished", "abandoned"} : End(w, what)
    BY <1>0, <1>1, <2>1, EndKeeps
  <2>2. CASE /\ stage' = [stage EXCEPT ![w] = "running"] /\ UNCHANGED <<job, outcome>>
             /\ saved[r] < Nodes
    BY <1>0, <1>1, <2>2 DEF Tabled, Staged, TypeOK, machine
  <2> QED BY <1>6, <2>1, <2>2
<1>8. stamp' \in [Runs -> Deployments \cup {0}]
  <2>1. stamp' = stamp \/ stamp' = [stamp EXCEPT ![r] = deployed]
    BY DEF Start
  <2> QED BY <2>1 DEF TypeOK
<1>9. TypeOK'
  BY <1>0, <1>4, <1>7, <1>8 DEF TypeOK, machine, requests
<1> QED BY <1>5, <1>7, <1>9

LEMMA CheckpointInv == ASSUME Inv, NEW w \in Workers, Checkpoint(w) PROVE Inv'
<1> USE DEF Inv
<1> DEFINE r == job[w]
<1>0. /\ stage[w] = "running" /\ saved' = [saved EXCEPT ![r] = @ + 1]
      /\ UNCHANGED <<verdict, stamp, machine, queue, status, requests, fruitless>>
  BY DEF Checkpoint
<1>1. r # NoRun /\ saved[r] < Nodes
  BY <1>0 DEF Staged
<1>2. r \in Born /\ r \in Runs
  BY <1>1, JobIsBorn
<1>3. /\ saved' \in [Runs -> 0..Nodes] /\ saved'[r] = saved[r] + 1
      /\ \A s \in Runs : s # r => saved'[s] = saved[s]
  BY <1>0, <1>1, <1>2, LifecycleAssumption DEF TypeOK
<1>4. /\ ledger' \in [Runs -> Logs] /\ Born' = Born
      /\ \A s \in Runs : s # r => ledger'[s] = ledger[s]
  <2>1. UNCHANGED ledger \/ Write(r, "pause")
    BY DEF Checkpoint
  <2>2. CASE UNCHANGED ledger
    BY <2>2 DEF TypeOK, Born
  <2>3. CASE Write(r, "pause")
    BY <1>2, <2>3, WriteKeeps DEF TypeOK, Kinds
  <2> QED BY <2>1, <2>2, <2>3
<1>5. InOrder' /\ BornFirst' /\ Fresh'
  BY <1>0, <1>1, <1>4, WorkKeeps
<1>6. /\ Tabled' /\ Staged'
      /\ job' \in [Workers -> Runs \cup {NoRun}]
      /\ stage' \in [Workers -> {"gone", "idle", "building", "running", "ended"}]
      /\ outcome' \in [Workers -> {"none", "finished", "abandoned", "interrupted"}]
  <2>1. CASE \E what \in {"none", "finished"} : End(w, what)
    BY <1>0, <1>1, <1>3, <2>1, EndKeeps
  <2>2. CASE ~ LastNode(r) /\ UNCHANGED threads
    <3>1. saved'[r] < Nodes
      BY <1>1, <1>2, <1>3, <2>2, LifecycleAssumption DEF LastNode, TypeOK
    <3>2. \A v \in Workers : stage[v] = "running" => saved'[job[v]] < Nodes
      BY <1>3, <3>1 DEF Staged, TypeOK
    <3> QED BY <1>0, <2>2, <3>2 DEF Tabled, Staged, TypeOK, threads, machine
  <2> QED BY <2>1, <2>2 DEF Checkpoint
<1>7. TypeOK'
  BY <1>0, <1>3, <1>4, <1>6 DEF TypeOK, machine, requests
<1> QED BY <1>5, <1>6, <1>7
-----------------------------------------------------------------------------
LEMMA StutterInv == ASSUME Inv, UNCHANGED vars PROVE Inv'
<1> USE DEF Inv, vars, disk, machine, threads, requests
<1>1. TypeOK'
  BY DEF TypeOK
<1>2. InOrder'
  BY DEF InOrder, Born
<1>3. BornFirst' /\ Fresh'
  BY DEF BornFirst, Fresh, Born, Serving
<1>4. Tabled' /\ Staged'
  BY DEF Tabled, Staged
<1> QED BY <1>1, <1>2, <1>3, <1>4

LEMMA NextInv == ASSUME ~ Refining, Inv, [Next]_vars PROVE Inv'
<1>1. CASE Boot \/ Recover \/ Serve
  BY <1>1, BootInv, RecoverInv, ServeInv
<1>2. CASE Admit \/ Record \/ Enqueue
  BY <1>2, AdmitInv, RecordInv, EnqueueInv
<1>3. CASE AskResume \/ ResumeByHand \/ Stop \/ Kill
  BY <1>3, AskResumeInv, ResumeByHandInv, StopInv, KillInv
<1>4. CASE \E w \in Workers : Work(w)
  <2> PICK w \in Workers : Work(w)
    BY <1>4
  <2>1. CASE Take(w) \/ Leave(w) \/ Refused(w) \/ Start(w)
    BY <2>1, TakeInv, LeaveInv, RefusedInv, StartInv
  <2>2. CASE Progress(w) \/ Checkpoint(w) \/ AccountRefuses(w) \/ Crash(w) \/ Finish(w)
    BY <2>2, ProgressInv, CheckpointInv, AccountRefusesInv, CrashInv, FinishInv
  <2> QED BY <2>1, <2>2 DEF Work
<1>5. CASE UNCHANGED vars
  BY <1>5, StutterInv
<1> QED BY <1>1, <1>2, <1>3, <1>4, <1>5 DEF Next

(* The inductive invariant holds in every state a process or its           *)
(* successors can reach.                                                   *)
THEOREM Invariance == ASSUME ~ Refining PROVE Spec => []Inv
<1>1. Init => Inv
  BY InitInv
<1>2. Inv /\ [Next]_vars => Inv'
  BY NextInv
<1> QED BY <1>1, <1>2, PTL DEF Spec

(* The log's counts never go below zero, no checkpoint is made of a        *)
(* complete run and no run is numbered that the disk has no room for.      *)
THEOREM TypeCorrect == ASSUME ~ Refining PROVE Spec => []TypeOK
<1>1. Inv => TypeOK
  BY DEF Inv
<1> QED BY <1>1, Invariance, PTL

(* No two threads of a process drive one run and none drives a run that is *)
(* waiting, whatever recovery, submissions and resumes by hand put back,   *)
(* and however they interleave.                                            *)
THEOREM OneDriverAlways == ASSUME ~ Refining PROVE Spec => []OneDriver
<1>1. Inv => OneDriver
  <2> SUFFICES ASSUME Inv PROVE OneDriver
    OBVIOUS
  <2>1. \A i \in DOMAIN queue : queue[i] \notin Held
    <3> SUFFICES ASSUME NEW i \in DOMAIN queue, NEW w \in Workers, queue[i] = job[w],
                        job[w] # NoRun
                 PROVE  FALSE
      BY DEF Held
    <3> QED BY DEF Inv, Tabled, InQueue
  <2> QED BY <2>1 DEF Inv, Tabled, InQueue, OneDriver
<1> QED BY <1>1, Invariance, PTL
-----------------------------------------------------------------------------
(* The cap on attempts that come to nothing.  Such an attempt is the       *)
(* first one, an automatic one the log counts, or one somebody asked for;  *)
(* a run that waits, and a request not yet served, each stand for an       *)
(* attempt that is still to come.                                          *)
Waiting(r) == IF status[r] = "queued" \/ r \in recorded THEN 1 ELSE 0

Covered(r) ==
  fruitless[r] + Waiting(r) + Cardinality(asked) <= 1 + ledger[r].attempts + byHand

Counted ==
  /\ IsFiniteSet(asked) /\ Cardinality(asked) <= byHand
  /\ \A r \in Runs : ledger[r].attempts <= MaxResumes
  /\ \A r \in Runs : r \notin Born => fruitless[r] = 0
  /\ \A r \in Runs : Covered(r)

LEMMA LoggedAttempts ==
  ASSUME NEW log \in Logs, NEW kind \in Kinds
  PROVE  LET n == Logged(log, kind).attempts IN
         /\ kind = "auto" => n = log.attempts + 1
         /\ kind = "deferred" => n <= log.attempts /\ n >= log.attempts - 1
         /\ kind = "progress" => n = 0
         /\ kind \notin {"auto", "deferred", "progress"} => n = log.attempts
  BY DEF Logged, Logs, Kinds

(* A step that touches one run at most has that run alone to account for.  *)
LEMMA OneRun ==
  ASSUME Counted, NEW r \in Runs, Born \subseteq Born', UNCHANGED <<asked, byHand>>,
         \A s \in Runs : s # r => /\ ledger'[s] = ledger[s] /\ status'[s] = status[s]
                                 /\ fruitless'[s] = fruitless[s]
                                 /\ (s \in recorded' <=> s \in recorded),
         r \in Born', ledger'[r].attempts <= MaxResumes, Covered(r)'
  PROVE  Counted'
<1>1. ASSUME NEW s \in Runs, s # r PROVE Covered(s)' /\ ledger'[s].attempts <= MaxResumes
  BY <1>1 DEF Counted, Covered, Waiting
<1>2. \A s \in Runs : s \notin Born' => fruitless'[s] = 0
  BY DEF Counted
<1> QED BY <1>1, <1>2 DEF Counted

(* The sums below are of naturals.                                         *)
LEMMA Naturals ==
  ASSUME TypeOK, Counted, NEW r \in Runs
  PROVE  /\ Cardinality(asked) \in Nat /\ byHand \in Nat /\ fruitless[r] \in Nat
         /\ ledger[r] \in Logs /\ ledger[r].attempts \in Nat
         /\ Waiting(r) \in {0, 1} /\ MaxResumes \in Nat
  BY FS_CardinalityType, LifecycleAssumption DEF TypeOK, Counted, Waiting, Logs

LEMMA InitCounted == Init => Counted
<1> SUFFICES ASSUME Init PROVE Counted
  OBVIOUS
<1>1. IsFiniteSet(asked) /\ Cardinality(asked) = 0
  BY FS_EmptySet DEF Init
<1>2. \A r \in Runs : Covered(r) /\ ledger[r].attempts = 0 /\ fruitless[r] = 0
  BY <1>1 DEF Init, Covered, Waiting, NoLog
<1> QED BY <1>1, <1>2, LifecycleAssumption DEF Counted, Init

(* Steps that count nothing. *)
LEMMA IdleCounted ==
  ASSUME Inv, Counted, UNCHANGED <<ledger, asked, byHand, fruitless, recorded>>,
         \A r \in Runs : status'[r] = "queued" => status[r] = "queued"
  PROVE  Counted'
<1>1. Born' = Born
  BY DEF Born
<1>2. ASSUME NEW r \in Runs PROVE Covered(r)'
  <2>1. Waiting(r)' \in {0, 1} /\ Waiting(r)' <= Waiting(r)
    BY DEF Waiting
  <2> QED BY <2>1, Naturals DEF Counted, Covered, Inv
<1> QED BY <1>1, <1>2 DEF Counted

LEMMA RecoverCounted == ASSUME Inv, Counted, Recover PROVE Counted'
<1> USE DEF Inv
<1> PICK r \in backlog :
       /\ IF GivenUp(r) THEN Write(r, "abandoned") /\ UNCHANGED <<queue, status>>
                        ELSE Resume(r, "auto")
       /\ backlog' = backlog \ {r}
  BY DEF Recover
<1>0. /\ r \in Born /\ r \in Runs
      /\ UNCHANGED <<recorded, asked, byHand, fruitless>>
  BY DEF Recover, BornFirst, Born, requests
<1>1. CASE GivenUp(r)
  <2>1. Write(r, "abandoned") /\ UNCHANGED status
    BY <1>1
  <2>2. Born' = Born /\ \A s \in Runs : s # r => ledger'[s] = ledger[s]
    BY <1>0, <2>1, WriteKeeps DEF TypeOK, Kinds
  <2>3. ledger'[r].attempts = ledger[r].attempts
    BY <1>0, <2>1, LoggedAttempts DEF Write, TypeOK, Kinds
  <2>4. Covered(r)' /\ ledger'[r].attempts <= MaxResumes
    BY <1>0, <2>1, <2>3 DEF Counted, Covered, Waiting
  <2> QED BY <1>0, <2>1, <2>2, <2>4, OneRun
<1>2. CASE ~ GivenUp(r) /\ status[r] # "none"
  <2>1. UNCHANGED <<status, ledger>>
    BY <1>2 DEF Resume
  <2> QED BY <1>0, <2>1, IdleCounted
<1>3. CASE ~ GivenUp(r) /\ status[r] = "none"
  <2>1. Write(r, "auto") /\ status' = [status EXCEPT ![r] = "queued"]
    BY <1>3 DEF Resume
  <2>2. Born' = Born /\ \A s \in Runs : s # r => ledger'[s] = ledger[s]
    BY <1>0, <2>1, WriteKeeps DEF TypeOK, Kinds
  <2>3. ledger'[r].attempts = ledger[r].attempts + 1
    BY <1>0, <2>1, LoggedAttempts DEF Write, TypeOK, Kinds
  <2>4. ledger'[r].attempts <= MaxResumes
    BY <1>0, <1>3, <2>3, Naturals DEF GivenUp
  <2>5. Covered(r)'
    <3>1. Waiting(r)' = 1
      BY <1>0, <2>1 DEF Waiting, TypeOK
    <3> QED BY <1>0, <2>3, <3>1, Naturals DEF Counted, Covered
  <2> QED BY <1>0, <2>1, <2>2, <2>4, <2>5, OneRun DEF TypeOK
<1> QED BY <1>1, <1>2, <1>3

LEMMA RecordCounted == ASSUME ~ Refining, Inv, Counted, Record PROVE Counted'
<1> USE DEF Inv
<1> PICK n \in Nat : Born = 1..n /\ n + admitted <= Cardinality(Runs)
  BY DEF InOrder
<1> DEFINE r == n + 1
<1>1. r = Cardinality(Born) + 1 /\ r \in Runs /\ r \notin Born
  <2>1. Cardinality(Born) = n
    BY RunNumbers
  <2>2. n + 1 <= Cardinality(Runs)
    BY RunNumbers DEF TypeOK, Record
  <2> QED BY <2>1, <2>2, RunNumbers
<1>2. Write(r, "queued") /\ recorded' = recorded \cup {r}
      /\ UNCHANGED <<status, asked, byHand, fruitless>>
  BY <1>1 DEF Record
<1>3. /\ ledger'[r].attempts = ledger[r].attempts /\ ledger'[r].last = "queued"
      /\ \A s \in Runs : s # r => ledger'[s] = ledger[s]
  BY <1>1, <1>2, LoggedAttempts, LoggedType DEF Write, TypeOK, Kinds
<1>4. Born' = Born \cup {r}
  BY <1>1, <1>3 DEF Born
<1>5. Covered(r)' /\ ledger'[r].attempts <= MaxResumes
  <2>1. fruitless'[r] = 0 /\ Waiting(r)' = 1
    BY <1>1, <1>2 DEF Waiting, Counted
  <2> QED BY <1>1, <1>2, <1>3, <2>1, Naturals DEF Counted, Covered
<1> QED BY <1>1, <1>2, <1>3, <1>4, <1>5, OneRun

LEMMA EnqueueCounted == ASSUME Inv, Counted, Enqueue PROVE Counted'
<1> USE DEF Inv
<1> PICK r \in recorded : /\ status' = [status EXCEPT ![r] = "queued"]
                          /\ recorded' = recorded \ {r}
  BY DEF Enqueue
<1>0. r \in Born /\ r \in Runs /\ UNCHANGED <<ledger, asked, byHand, fruitless>>
  BY DEF Enqueue, BornFirst, TypeOK, disk
<1>1. Waiting(r)' = 1 /\ Waiting(r) = 1
  BY <1>0 DEF Waiting, TypeOK
<1>2. Covered(r)' /\ ledger'[r].attempts <= MaxResumes /\ Born' = Born
  BY <1>0, <1>1 DEF Counted, Covered, Born
<1> QED BY <1>0, <1>2, OneRun DEF TypeOK

LEMMA AskResumeCounted == ASSUME Inv, Counted, AskResume PROVE Counted'
<1> USE DEF Inv
<1> PICK r \in Born : asked' = asked \cup {<<byHand, r>>}
  BY DEF AskResume
<1>0. byHand' = byHand + 1 /\ UNCHANGED <<ledger, status, recorded, fruitless>>
  BY DEF AskResume, disk
<1>1. /\ IsFiniteSet(asked') /\ Cardinality(asked') \in Nat
      /\ Cardinality(asked') <= Cardinality(asked) + 1
  <2>1. IsFiniteSet(asked) /\ Cardinality(asked) \in Nat
    BY FS_CardinalityType DEF Counted
  <2>2. /\ IsFiniteSet(asked')
        /\ \/ Cardinality(asked') = Cardinality(asked)
           \/ Cardinality(asked') = Cardinality(asked) + 1
    BY <2>1, FS_AddElement
  <2> QED BY <2>1, <2>2
<1>2. ASSUME NEW s \in Runs PROVE Covered(s)'
  <2>1. Waiting(s)' = Waiting(s)
    BY <1>0 DEF Waiting
  <2> QED BY <1>0, <1>1, <2>1, Naturals DEF Counted, Covered
<1>3. Cardinality(asked') <= byHand'
  BY <1>0, <1>1, FS_CardinalityType DEF Counted, TypeOK
<1>4. Born' = Born
  BY <1>0 DEF Born
<1> QED BY <1>0, <1>1, <1>2, <1>3, <1>4 DEF Counted

LEMMA ResumeByHandCounted == ASSUME Inv, Counted, ResumeByHand PROVE Counted'
<1> USE DEF Inv
<1> PICK req \in asked : Resume(req[2], "queued") /\ asked' = asked \ {req}
  BY DEF ResumeByHand
<1> DEFINE r == req[2]
<1>0. r \in Born /\ r \in Runs /\ UNCHANGED <<byHand, fruitless, recorded>>
  BY DEF ResumeByHand, BornFirst, Born
<1>1. IsFiniteSet(asked') /\ Cardinality(asked') = Cardinality(asked) - 1
  BY FS_RemoveElement DEF Counted
<1>2. /\ Born' = Born
      /\ \A s \in Runs : ledger'[s].attempts = ledger[s].attempts
      /\ \A s \in Runs : s # r => status'[s] = status[s]
  <2>1. CASE status[r] # "none"
    BY <2>1 DEF Resume, Born
  <2>2. CASE status[r] = "none"
    <3>1. Write(r, "queued") /\ status' = [status EXCEPT ![r] = "queued"]
      BY <2>2 DEF Resume
    <3>2. Born' = Born /\ \A s \in Runs : s # r => ledger'[s] = ledger[s]
      BY <1>0, <3>1, WriteKeeps DEF TypeOK, Kinds
    <3>3. ledger'[r].attempts = ledger[r].attempts
      BY <1>0, <3>1, LoggedAttempts DEF Write, TypeOK, Kinds
    <3> QED BY <1>0, <3>1, <3>2, <3>3 DEF TypeOK
  <2> QED BY <2>1, <2>2
<1>3. ASSUME NEW s \in Runs PROVE Covered(s)'
  <2>1. Waiting(s)' \in {0, 1} /\ Waiting(s)' <= Waiting(s) + 1
    BY DEF Waiting
  <2> QED BY <1>0, <1>1, <1>2, <2>1, Naturals DEF Counted, Covered
<1>4. Cardinality(asked') <= byHand'
  BY <1>0, <1>1, FS_CardinalityType DEF Counted, TypeOK
<1> QED BY <1>0, <1>1, <1>2, <1>3, <1>4 DEF Counted

LEMMA TakeCounted == ASSUME Inv, Counted, NEW w \in Workers, Take(w) PROVE Counted'
<1> USE DEF Inv
<1>1. queue # << >> /\ Head(queue) \in Runs /\ status[Head(queue)] = "queued"
  BY TakeQueue DEF Take, TypeOK, Tabled
<1> PICK r \in Runs : r = Head(queue)
  BY <1>1
<1>2. /\ status' = [status EXCEPT ![r] = "running"]
      /\ fruitless' = [fruitless EXCEPT ![r] = fruitless[r] + 1]
      /\ UNCHANGED <<ledger, recorded, asked, byHand>>
  BY DEF Take, Attempts, disk, requests
<1>3. r \in Born /\ r \notin recorded /\ Born' = Born
  BY <1>1, <1>2 DEF BornFirst, Fresh, Born
<1>4. Waiting(r) = 1 /\ Waiting(r)' = 0 /\ fruitless'[r] = fruitless[r] + 1
  BY <1>1, <1>2, <1>3 DEF Waiting, TypeOK
<1>5. Covered(r)' /\ ledger'[r].attempts <= MaxResumes
  BY <1>2, <1>4, Naturals DEF Counted, Covered
<1> QED BY <1>2, <1>3, <1>5, OneRun DEF TypeOK

(* What a thread does to the counts of the run it works on.                *)
LEMMA WorkCounted ==
  ASSUME Inv, Counted, NEW w \in Workers, NEW r \in Runs, r = job[w], r # NoRun,
         Born' = Born, UNCHANGED <<status, requests>>,
         \A s \in Runs : s # r => ledger'[s] = ledger[s] /\ fruitless'[s] = fruitless[s],
         ledger'[r].attempts \in Nat, ledger'[r].attempts <= ledger[r].attempts,
         fruitless'[r] \in Nat,
         \/ fruitless'[r] = 0
         \/ fruitless'[r] - ledger'[r].attempts <= fruitless[r] - ledger[r].attempts
  PROVE  Counted'
<1> USE DEF Inv
<1>1. r \in Born /\ status[r] = "running"
  BY JobIsBorn
<1>2. Waiting(r) = 0 /\ Waiting(r)' = 0 /\ UNCHANGED <<recorded, asked, byHand>>
  BY <1>1 DEF Waiting, Fresh, requests
<1>3. Covered(r)' /\ ledger'[r].attempts <= MaxResumes
  BY <1>1, <1>2, Naturals DEF Counted, Covered
<1> QED BY <1>1, <1>2, <1>3, OneRun

(* One event on the log of the run a thread works on.                      *)
LEMMA EventCounts ==
  ASSUME Inv, NEW w \in Workers, NEW r \in Runs, r = job[w], r # NoRun,
         NEW kind \in Kinds \ {"auto"}, Write(r, kind)
  PROVE  /\ Born' = Born /\ \A s \in Runs : s # r => ledger'[s] = ledger[s]
         /\ ledger[r].attempts \in Nat /\ ledger'[r].attempts \in Nat
         /\ ledger'[r].attempts <= ledger[r].attempts
         /\ kind = "deferred" => ledger'[r].attempts >= ledger[r].attempts - 1
         /\ kind = "progress" => ledger'[r].attempts = 0
         /\ kind \notin {"deferred", "progress"} =>
              ledger'[r].attempts = ledger[r].attempts
<1> USE DEF Inv
<1>1. r \in Born /\ ledger[r] \in Logs
  BY JobIsBorn DEF TypeOK
<1>2. ledger'[r] = Logged(ledger[r], kind)
  BY DEF Write, TypeOK
<1>3. ledger[r].attempts \in Nat /\ ledger'[r].attempts \in Nat
  BY <1>1, <1>2, LoggedType DEF Logs
<1>4. Born' = Born /\ \A s \in Runs : s # r => ledger'[s] = ledger[s]
  BY <1>1, WriteKeeps DEF TypeOK
<1> QED BY <1>1, <1>2, <1>3, <1>4, LoggedAttempts

LEMMA RefusedCounted == ASSUME Inv, Counted, NEW w \in Workers, Refused(w) PROVE Counted'
<1> USE DEF Inv
<1>1. job[w] \in Runs /\ job[w] # NoRun /\ fruitless[job[w]] >= 1
  BY RunNumbers, JobIsBorn DEF Refused, Staged
<1> PICK r \in Runs : r = job[w]
  BY <1>1
<1>2. /\ Write(r, "deferred") /\ UNCHANGED <<status, requests>>
      /\ fruitless' = [fruitless EXCEPT ![r] = fruitless[r] - 1]
  BY DEF Refused, Attempts
<1>3. /\ fruitless'[r] = fruitless[r] - 1 /\ fruitless'[r] \in Nat /\ fruitless[r] \in Nat
      /\ \A s \in Runs : s # r => fruitless'[s] = fruitless[s]
  BY <1>1, <1>2 DEF TypeOK
<1>4. /\ Born' = Born /\ \A s \in Runs : s # r => ledger'[s] = ledger[s]
      /\ ledger[r].attempts \in Nat /\ ledger'[r].attempts \in Nat
      /\ ledger'[r].attempts <= ledger[r].attempts
      /\ ledger'[r].attempts >= ledger[r].attempts - 1
  BY <1>1, <1>2, EventCounts DEF Kinds
<1>5. fruitless'[r] - ledger'[r].attempts <= fruitless[r] - ledger[r].attempts
  BY <1>3, <1>4
<1> QED BY <1>1, <1>2, <1>3, <1>4, <1>5, WorkCounted

LEMMA AccountRefusesCounted ==
  ASSUME Inv, Counted, NEW w \in Workers, AccountRefuses(w) PROVE Counted'
<1> USE DEF Inv
<1>1. job[w] \in Runs /\ job[w] # NoRun
  BY RunNumbers, JobIsBorn DEF AccountRefuses, Staged
<1> PICK r \in Runs : r = job[w]
  BY <1>1
<1> DEFINE k == IF fruitless[r] = 0 THEN 0 ELSE fruitless[r] - 1
<1>2. /\ Write(r, "deferred") /\ UNCHANGED <<status, requests>>
      /\ fruitless' = [fruitless EXCEPT ![r] = k]
  BY DEF AccountRefuses, Attempts
<1>3. /\ fruitless'[r] = k /\ k \in Nat /\ fruitless[r] \in Nat
      /\ \A s \in Runs : s # r => fruitless'[s] = fruitless[s]
  BY <1>2 DEF TypeOK
<1>4. /\ Born' = Born /\ \A s \in Runs : s # r => ledger'[s] = ledger[s]
      /\ ledger[r].attempts \in Nat /\ ledger'[r].attempts \in Nat
      /\ ledger'[r].attempts <= ledger[r].attempts
      /\ ledger'[r].attempts >= ledger[r].attempts - 1
  BY <1>1, <1>2, EventCounts DEF Kinds
<1>5. \/ fruitless'[r] = 0
      \/ fruitless'[r] - ledger'[r].attempts <= fruitless[r] - ledger[r].attempts
  BY <1>3, <1>4
<1> QED BY <1>1, <1>2, <1>3, <1>4, <1>5, WorkCounted

LEMMA ProgressCounted == ASSUME Inv, Counted, NEW w \in Workers, Progress(w) PROVE Counted'
<1> USE DEF Inv
<1>1. job[w] \in Runs /\ job[w] # NoRun
  BY RunNumbers, JobIsBorn DEF Progress, Staged
<1> PICK r \in Runs : r = job[w]
  BY <1>1
<1>2. /\ Write(r, "progress") /\ UNCHANGED <<status, requests>>
      /\ fruitless' = [fruitless EXCEPT ![r] = 0]
  BY DEF Progress, Attempts
<1>3. fruitless'[r] = 0 /\ \A s \in Runs : s # r => fruitless'[s] = fruitless[s]
  BY <1>2 DEF TypeOK
<1>4. /\ Born' = Born /\ \A s \in Runs : s # r => ledger'[s] = ledger[s]
      /\ ledger'[r].attempts \in Nat /\ ledger'[r].attempts <= ledger[r].attempts
  BY <1>1, <1>2, EventCounts DEF Kinds
<1> QED BY <1>1, <1>2, <1>3, <1>4, WorkCounted

LEMMA StartCounted == ASSUME Inv, Counted, NEW w \in Workers, Start(w) PROVE Counted'
<1> USE DEF Inv
<1>1. job[w] \in Runs /\ job[w] # NoRun
  BY RunNumbers, JobIsBorn DEF Start, Staged
<1> PICK r \in Runs : r = job[w]
  BY <1>1
<1>2. /\ UNCHANGED <<status, requests, fruitless>> /\ fruitless[r] \in Nat
      /\ \/ Write(r, "abandoned") \/ Write(r, "startup")
         \/ ledger' = [ledger EXCEPT ![r] = Logged(Logged(@, "startup"), "pause")]
  BY DEF Start, TypeOK
<1>3. /\ Born' = Born /\ \A s \in Runs : s # r => ledger'[s] = ledger[s]
      /\ ledger'[r].attempts = ledger[r].attempts /\ ledger[r].attempts \in Nat
  <2>1. CASE Write(r, "abandoned") \/ Write(r, "startup")
    BY <1>1, <2>1, EventCounts DEF Kinds
  <2>2. CASE ledger' = [ledger EXCEPT ![r] = Logged(Logged(@, "startup"), "pause")]
    <3>1. ledger[r] \in Logs /\ ledger[r].attempts \in Nat /\ r \in Born
      BY <1>1, Naturals, JobIsBorn
    <3>2. Logged(ledger[r], "startup") \in Logs
          /\ Logged(ledger[r], "startup").attempts = ledger[r].attempts
      BY <3>1, LoggedType, LoggedAttempts DEF Kinds
    <3>3. ledger'[r].attempts = ledger[r].attempts /\ ledger'[r].last = "pause"
      BY <2>2, <3>2, LoggedType, LoggedAttempts DEF Kinds, TypeOK
    <3> QED BY <2>2, <3>1, <3>3 DEF Born, TypeOK
  <2> QED BY <1>2, <2>1, <2>2
<1> QED BY <1>1, <1>2, <1>3, WorkCounted

LEMMA CheckpointCounted ==
  ASSUME Inv, Counted, NEW w \in Workers, Checkpoint(w) PROVE Counted'
<1> USE DEF Inv
<1>1. job[w] \in Runs /\ job[w] # NoRun
  BY RunNumbers, JobIsBorn DEF Checkpoint, Staged
<1> PICK r \in Runs : r = job[w]
  BY <1>1
<1>2. /\ UNCHANGED <<status, requests, fruitless>> /\ fruitless[r] \in Nat
      /\ UNCHANGED ledger \/ Write(r, "pause")
  BY DEF Checkpoint, TypeOK
<1>3. /\ Born' = Born /\ \A s \in Runs : s # r => ledger'[s] = ledger[s]
      /\ ledger'[r].attempts = ledger[r].attempts /\ ledger[r].attempts \in Nat
  <2>1. CASE UNCHANGED ledger
    BY <2>1, Naturals DEF Born
  <2>2. CASE Write(r, "pause")
    BY <1>1, <2>2, EventCounts DEF Kinds
  <2> QED BY <1>2, <2>1, <2>2
<1> QED BY <1>1, <1>2, <1>3, WorkCounted

LEMMA KillCounted == ASSUME Inv, Counted, Kill PROVE Counted'
<1> USE DEF Inv, Kill, disk
<1>1. Born' = Born
  BY DEF Born
<1>2. asked' = {} /\ IsFiniteSet(asked') /\ Cardinality(asked') = 0
  BY FS_EmptySet
<1>3. ASSUME NEW r \in Runs PROVE Covered(r)'
  <2>1. Waiting(r)' = 0
    BY DEF Waiting
  <2> QED BY <1>2, <2>1, Naturals DEF Counted, Covered
<1>4. byHand \in Nat
  BY DEF TypeOK
<1> QED BY <1>1, <1>2, <1>3, <1>4 DEF Counted

LEMMA NextCounted == ASSUME ~ Refining, Inv, Counted, [Next]_vars PROVE Counted'
<1>1. CASE \/ Boot \/ Serve \/ Admit \/ Stop \/ UNCHANGED vars
           \/ \E w \in Workers : Leave(w) \/ Crash(w)
  <2>1. UNCHANGED <<ledger, status, asked, byHand, fruitless, recorded>>
    BY <1>1 DEF Boot, Serve, Admit, Stop, Leave, Crash, vars, disk, machine, requests
  <2> QED BY <2>1, IdleCounted
<1>2. CASE \E w \in Workers : Finish(w)
  <2>1. UNCHANGED <<ledger, asked, byHand, fruitless, recorded>>
    BY <1>2 DEF Finish, disk, requests
  <2>2. \A r \in Runs : status'[r] = "queued" => status[r] = "queued"
    BY <1>2 DEF Finish, Inv, TypeOK
  <2> QED BY <2>1, <2>2, IdleCounted
<1>3. CASE Recover \/ Record \/ Enqueue \/ AskResume \/ ResumeByHand \/ Kill
  BY <1>3, RecoverCounted, RecordCounted, EnqueueCounted, AskResumeCounted,
     ResumeByHandCounted, KillCounted
<1>4. CASE \E w \in Workers : \/ Take(w) \/ Refused(w) \/ Start(w) \/ Progress(w)
                              \/ Checkpoint(w) \/ AccountRefuses(w)
  BY <1>4, TakeCounted, RefusedCounted, StartCounted, ProgressCounted, CheckpointCounted,
     AccountRefusesCounted
<1> QED BY <1>1, <1>2, <1>3, <1>4 DEF Next, Work

(* A run that fails every time is not tried forever, however boots, kills, *)
(* deferrals and resumes by hand follow on each other.                     *)
THEOREM AttemptsAreCapped == ASSUME ~ Refining PROVE Spec => []FruitlessAttemptsAreCapped
<1>1. Init => Inv /\ Counted
  BY InitInv, InitCounted
<1>2. Inv /\ Counted /\ [Next]_vars => Inv' /\ Counted'
  BY NextInv, NextCounted
<1>3. Inv /\ Counted => FruitlessAttemptsAreCapped
  <2> SUFFICES ASSUME Inv, Counted, NEW r \in Runs
               PROVE  fruitless[r] <= 1 + MaxResumes + byHand
    BY DEF FruitlessAttemptsAreCapped
  <2>1. Covered(r) /\ ledger[r].attempts <= MaxResumes
    BY DEF Counted
  <2> QED BY <2>1, Naturals DEF Inv, Covered
<1> QED BY <1>1, <1>2, <1>3, PTL DEF Spec

-----------------------------------------------------------------------------
(* The status a serving process shows: what the table says is where the    *)
(* run really is, and a run the table says nothing of is one recovery      *)
(* still has to look at, or one that was dealt with.                       *)

(* What the table says is where the run is; a stopping process alone may   *)
(* drop a run it had queued.                                               *)
Placed ==
  /\ process # "stopping" =>
       \A r \in Runs : status[r] = "queued" => \E i \in DOMAIN queue : queue[i] = r
  /\ \A r \in Runs : status[r] = "running" => \E w \in Workers : job[w] = r

(* A run whose log says it waits and of which the table says nothing.      *)
Waits(r) == r \in Born /\ ledger[r].last = "queued" /\ status[r] = "none" /\ ~ verdict[r]

Accounted ==
  /\ process = "up" => backlog = {}
  /\ process \in {"booting", "up"} =>
       \A r \in Runs : Waits(r) => r \in backlog \/ r \in recorded \/ fruitless[r] > 0

(* A thread's log no longer says that its run waits once it has started,   *)
(* and when it ends without having started, the attempt is counted.        *)
OpenedAt(w) ==
  /\ stage[w] = "running" => ledger[job[w]].last # "queued"
  /\ stage[w] = "ended" => ledger[job[w]].last # "queued" \/ fruitless[job[w]] > 0

Opened == \A w \in Workers : OpenedAt(w)

Shown == Placed /\ Accounted /\ Opened

-----------------------------------------------------------------------------
LEMMA InitShown == Init => Shown
  BY DEF Init, Shown, Placed, Accounted, Opened, OpenedAt, NoLog, Waits, Live

(* A process's own steps. *)

LEMMA BootShown == ASSUME Inv, Shown, Boot PROVE Shown'
<1> USE DEF Inv, Shown, Boot, disk, requests
<1>1. Placed'
  BY DEF Placed
<1>2. Accounted'
  <2> SUFFICES ASSUME NEW r \in Runs, Waits(r)' PROVE r \in backlog'
    BY DEF Accounted
  <2>1. Waits(r)
    BY DEF Waits, Born
  <2> QED BY <2>1 DEF Waits, Owed, Summary
<1>3. Opened'
  BY DEF Opened, OpenedAt
<1> QED BY <1>1, <1>2, <1>3

(* A run that is put back is in the queue, or was there or on a thread.    *)
LEMMA ResumeShown ==
  ASSUME Inv, Shown, NEW r \in Born, NEW kind \in {"auto", "queued"}, Resume(r, kind),
         UNCHANGED <<process, verdict, recorded, fruitless, threads>>,
         backlog' = backlog \/ (r \in backlog /\ backlog' = backlog \ {r})
  PROVE  Shown'
<1> USE DEF Inv, Shown, threads
<1>1. CASE status[r] # "none"
  <2>1. UNCHANGED <<status, queue, ledger>>
    BY <1>1 DEF Resume
  <2>2. Placed' /\ Opened'
    BY <2>1 DEF Placed, Opened, OpenedAt
  <2>3. Accounted'
    BY <1>1, <2>1 DEF Accounted, Waits, Born
  <2> QED BY <2>2, <2>3
<1>2. CASE status[r] = "none"
  <2>1. /\ status' = [status EXCEPT ![r] = "queued"] /\ queue' = Append(queue, r)
        /\ Write(r, kind) /\ r \in Runs
    BY <1>2 DEF Resume, Put, Born
  <2>2. Born' = Born /\ \A s \in Runs : s # r => ledger'[s] = ledger[s]
    BY <2>1, WriteKeeps DEF TypeOK, Kinds
  <2>3. status'[r] = "queued" /\ \A s \in Runs : s # r => status'[s] = status[s]
    BY <2>1 DEF TypeOK
  <2>4. /\ \A i \in DOMAIN queue : i \in DOMAIN queue' /\ queue'[i] = queue[i]
        /\ \E i \in DOMAIN queue' : queue'[i] = r
    <3>1. Len(queue') = Len(queue) + 1 /\ queue'[Len(queue) + 1] = r
          /\ Len(queue) \in Nat /\ DOMAIN queue = 1..Len(queue)
          /\ DOMAIN queue' = 1..(Len(queue) + 1)
          /\ \A i \in 1..Len(queue) : queue'[i] = queue[i]
      BY <2>1 DEF TypeOK
    <3> QED BY <3>1
  <2>5. Placed'
    BY <2>3, <2>4 DEF Placed
  <2>6. Accounted'
    BY <2>2, <2>3 DEF Accounted, Waits
  <2>7. Opened'
    <3> SUFFICES ASSUME NEW w \in Workers PROVE OpenedAt(w)'
      BY DEF Opened
    <3>1. job[w] # NoRun => job[w] \in Runs /\ job[w] # r
      BY <1>2, JobIsBorn
    <3>2. stage[w] \in {"running", "ended"} => ledger'[job[w]] = ledger[job[w]]
      BY <2>2, <3>1 DEF Staged
    <3> QED BY <3>2 DEF Opened, OpenedAt
  <2> QED BY <2>5, <2>6, <2>7
<1> QED BY <1>1, <1>2

LEMMA RecoverShown == ASSUME Inv, Shown, Recover PROVE Shown'
<1> USE DEF Inv, Shown
<1> PICK r \in backlog :
       /\ IF GivenUp(r) THEN Write(r, "abandoned") /\ UNCHANGED <<queue, status>>
                        ELSE Resume(r, "auto")
       /\ backlog' = backlog \ {r}
  BY DEF Recover
<1>0. r \in Born /\ r \in Runs /\ UNCHANGED <<process, verdict, recorded, fruitless, threads>>
  BY DEF Recover, BornFirst, Born, requests
<1>1. CASE ~ GivenUp(r)
  BY <1>0, <1>1, ResumeShown
<1>2. CASE GivenUp(r)
  <2>1. Write(r, "abandoned") /\ UNCHANGED <<queue, status>>
    BY <1>2
  <2>2. /\ Born' = Born /\ ledger'[r].last = "abandoned"
        /\ \A s \in Runs : s # r => ledger'[s] = ledger[s]
    BY <1>0, <2>1, WriteKeeps DEF TypeOK, Kinds
  <2>3. Placed'
    BY <1>0, <2>1 DEF Placed, threads
  <2>4. Accounted'
    BY <1>0, <2>1, <2>2 DEF Accounted, Waits
  <2>5. Opened'
    <3> SUFFICES ASSUME NEW w \in Workers PROVE OpenedAt(w)'
      BY DEF Opened
    <3>1. stage[w] \in {"running", "ended"} => job[w] \in Runs
      BY DEF Staged, TypeOK
    <3> QED BY <1>0, <2>2, <3>1 DEF Opened, OpenedAt, threads
  <2> QED BY <2>3, <2>4, <2>5
<1> QED BY <1>1, <1>2

(* What touches neither the queue, nor the table, nor a log.               *)
LEMMA IdleShown ==
  ASSUME Inv, Shown,
         UNCHANGED <<ledger, verdict, queue, status, threads, recorded, fruitless>>,
         \/ UNCHANGED <<process, backlog>>
         \/ process = "booting" /\ process' = "up" /\ backlog = {} /\ backlog' = {}
         \/ process' = "stopping"
  PROVE  Shown'
<1> USE DEF Inv, Shown, threads
<1>1. Placed'
  BY DEF Placed, TypeOK
<1>2. Accounted'
  BY DEF Accounted, Waits, Born
<1>3. Opened'
  BY DEF Opened, OpenedAt
<1> QED BY <1>1, <1>2, <1>3

LEMMA KillShown == ASSUME Inv, Shown, Kill PROVE Shown'
<1> USE DEF Kill, Shown
<1>1. Placed' /\ Accounted'
  BY DEF Placed, Accounted
<1>2. Opened'
  BY DEF Opened, OpenedAt
<1> QED BY <1>1, <1>2
-----------------------------------------------------------------------------
(* The requests. *)

LEMMA RecordShown == ASSUME ~ Refining, Inv, Shown, Record PROVE Shown'
<1> USE DEF Inv, Shown
<1>0. /\ admitted > 0
      /\ UNCHANGED <<verdict, machine, queue, status, threads, fruitless>>
  BY DEF Record
<1> PICK n \in Nat : Born = 1..n /\ n + admitted <= Cardinality(Runs)
  BY DEF InOrder
<1> DEFINE r == n + 1
<1>1. r = Cardinality(Born) + 1 /\ r \in Runs /\ r \notin Born
  <2>1. Cardinality(Born) = n
    BY RunNumbers
  <2>2. n + 1 <= Cardinality(Runs)
    BY <1>0, RunNumbers DEF TypeOK
  <2> QED BY <2>1, <2>2, RunNumbers
<1>2. Write(r, "queued") /\ recorded' = recorded \cup {r}
  BY <1>1 DEF Record
<1>3. \A s \in Runs : s # r => ledger'[s] = ledger[s]
  BY <1>1, <1>2 DEF Write, TypeOK
<1>4. Placed'
  BY <1>0 DEF Placed, machine, threads
<1>5. Accounted'
  <2> SUFFICES ASSUME process' \in {"booting", "up"}, NEW s \in Runs, Waits(s)', s # r
               PROVE  s \in backlog' \/ s \in recorded' \/ fruitless'[s] > 0
    BY <1>0, <1>2 DEF Accounted, machine
  <2>1. Waits(s)
    BY <1>0, <1>3 DEF Waits, Born
  <2> QED BY <1>0, <1>2, <2>1 DEF Accounted, machine
<1>6. Opened'
  <2> SUFFICES ASSUME NEW w \in Workers PROVE OpenedAt(w)'
    BY DEF Opened
  <2>1. stage[w] \in {"running", "ended"} => job[w] \in Runs /\ job[w] # r
    BY <1>1, JobIsBorn DEF Staged
  <2> QED BY <1>0, <1>3, <2>1 DEF Opened, OpenedAt, threads
<1> QED BY <1>4, <1>5, <1>6

LEMMA EnqueueShown == ASSUME Inv, Shown, Enqueue PROVE Shown'
<1> USE DEF Inv, Shown
<1> PICK r \in recorded : /\ status' = [status EXCEPT ![r] = "queued"]
                          /\ Put(r) /\ recorded' = recorded \ {r}
  BY DEF Enqueue
<1>0. UNCHANGED <<disk, machine, threads, fruitless>> /\ r \in Runs
  BY DEF Enqueue, TypeOK
<1>1. status'[r] = "queued" /\ \A s \in Runs : s # r => status'[s] = status[s]
  BY <1>0 DEF TypeOK
<1>2. /\ \A i \in DOMAIN queue : i \in DOMAIN queue' /\ queue'[i] = queue[i]
      /\ \E i \in DOMAIN queue' : queue'[i] = r
  <2>1. queue' = Append(queue, r) /\ queue \in Seq(Runs)
    BY DEF Put, TypeOK
  <2>2. Len(queue') = Len(queue) + 1 /\ queue'[Len(queue) + 1] = r
        /\ Len(queue) \in Nat /\ DOMAIN queue = 1..Len(queue)
        /\ DOMAIN queue' = 1..(Len(queue) + 1)
        /\ \A i \in 1..Len(queue) : queue'[i] = queue[i]
    BY <1>0, <2>1
  <2> QED BY <2>2
<1>3. Placed'
  BY <1>0, <1>1, <1>2 DEF Placed, machine, threads
<1>4. Accounted'
  BY <1>0, <1>1 DEF Accounted, Waits, Born, disk, machine
<1>5. Opened'
  BY <1>0 DEF Opened, OpenedAt, disk, threads
<1> QED BY <1>3, <1>4, <1>5
-----------------------------------------------------------------------------
(* The threads. *)

LEMMA TakeShown == ASSUME Inv, Shown, NEW w \in Workers, Take(w) PROVE Shown'
<1> USE DEF Inv, Shown
<1>1. queue # << >> /\ Head(queue) \in Runs /\ status[Head(queue)] = "queued"
  BY TakeQueue DEF Take, TypeOK, Tabled
<1> PICK r \in Runs : r = Head(queue)
  BY <1>1
<1>2. /\ stage[w] = "idle" /\ stage' = [stage EXCEPT ![w] = "building"]
      /\ job' = [job EXCEPT ![w] = r] /\ status' = [status EXCEPT ![r] = "running"]
      /\ queue' = Tail(queue) /\ fruitless' = [fruitless EXCEPT ![r] = fruitless[r] + 1]
      /\ UNCHANGED <<disk, machine, requests>>
  BY DEF Take, Attempts
<1>3. status'[r] = "running" /\ \A s \in Runs : s # r => status'[s] = status[s]
  BY <1>2 DEF TypeOK
<1>4. job'[w] = r /\ \A v \in Workers : v # w => job'[v] = job[v]
  BY <1>2 DEF TypeOK
<1>5. Placed'
  <2>1. ASSUME NEW s \in Runs, s # r, \E i \in DOMAIN queue : queue[i] = s
        PROVE  \E i \in DOMAIN queue' : queue'[i] = s
    <3> PICK i \in DOMAIN queue : queue[i] = s
      BY <2>1
    <3>1. i # 1
      BY <1>1, <2>1 DEF TypeOK
    <3>2. queue \in Seq(Runs) /\ queue # << >> /\ queue' = Tail(queue)
      BY <1>1, <1>2 DEF TypeOK
    <3>3. i - 1 \in DOMAIN Tail(queue) /\ Tail(queue)[i - 1] = s
      BY <3>1, <3>2
    <3> QED BY <3>2, <3>3
  <2>2. \A s \in Runs : status[s] = "running" => \E v \in Workers : job'[v] = s
    <3> SUFFICES ASSUME NEW s \in Runs, NEW v \in Workers, job[v] = s
                 PROVE  \E u \in Workers : job'[u] = s
      BY DEF Placed
    <3>1. v # w
      BY <1>2, RunNumbers DEF Staged
    <3> QED BY <1>4, <3>1
  <2> QED BY <1>2, <1>3, <1>4, <2>1, <2>2 DEF Placed, machine
<1>6. Accounted'
  BY <1>2, <1>3 DEF Accounted, Waits, Born, TypeOK, disk, machine, requests
<1>7. Opened'
  <2> SUFFICES ASSUME NEW v \in Workers, v # w PROVE OpenedAt(v)'
    BY <1>2 DEF Opened, OpenedAt, TypeOK
  <2>1. stage'[v] = stage[v] /\ job'[v] = job[v]
    BY <1>2, <1>4 DEF TypeOK
  <2>2. stage[v] = "ended" => job[v] \in Runs
    BY DEF Staged, TypeOK
  <2>3. \A s \in Runs : fruitless[s] > 0 => fruitless'[s] > 0
    BY <1>2 DEF TypeOK
  <2> QED BY <1>2, <2>1, <2>2, <2>3 DEF Opened, OpenedAt, disk
<1> QED BY <1>5, <1>6, <1>7

LEMMA LeaveShown == ASSUME Inv, Shown, NEW w \in Workers, Leave(w) PROVE Shown'
<1> USE DEF Inv, Shown, Leave, disk, machine
<1>1. Placed' /\ Accounted'
  BY DEF Placed, Accounted
<1>2. Opened'
  BY DEF Opened, OpenedAt, TypeOK
<1> QED BY <1>1, <1>2

(* A thread at work changes no run but its own, which shows as running.    *)
LEMMA WorkShown ==
  ASSUME Inv, Shown, NEW w \in Workers, NEW r \in Runs, r = job[w],
         UNCHANGED <<machine, queue, status, requests, job>>, Born' = Born,
         \A s \in Runs : s # r => /\ ledger'[s] = ledger[s] /\ verdict'[s] = verdict[s]
                                  /\ fruitless'[s] = fruitless[s],
         \A v \in Workers : v # w => stage'[v] = stage[v],
         OpenedAt(w)'
  PROVE  Shown'
<1> USE DEF Inv, Shown
<1>1. r # NoRun /\ status[r] = "running"
  BY RunNumbers, JobIsBorn
<1>2. Placed'
  BY DEF Placed, machine
<1>3. Accounted'
  <2> SUFFICES ASSUME process' \in {"booting", "up"}, NEW s \in Runs, Waits(s)'
               PROVE  s \in backlog' \/ s \in recorded' \/ fruitless'[s] > 0
    BY DEF Accounted, machine
  <2>1. s # r
    BY <1>1 DEF Waits
  <2>2. Waits(s)
    BY <2>1 DEF Waits
  <2> QED BY <2>1, <2>2 DEF Accounted, machine, requests
<1>4. Opened'
  <2> SUFFICES ASSUME NEW v \in Workers, v # w PROVE OpenedAt(v)'
    BY DEF Opened
  <2>1. stage[v] \in {"running", "ended"} => job[v] \in Runs /\ job[v] # r
    BY <1>1 DEF Staged, Tabled, TypeOK
  <2> QED BY <2>1 DEF Opened, OpenedAt
<1> QED BY <1>2, <1>3, <1>4

(* A thread that has a job, and one event on its log.                      *)
LEMMA AtWork ==
  ASSUME Inv, NEW w \in Workers, stage[w] \in {"building", "running", "ended"}
  PROVE  job[w] \in Runs /\ job[w] \in Born /\ job[w] # NoRun
  BY RunNumbers, JobIsBorn DEF Inv, Staged

LEMMA RefusedShown == ASSUME Inv, Shown, NEW w \in Workers, Refused(w) PROVE Shown'
<1> USE DEF Inv
<1>1. job[w] \in Runs /\ job[w] \in Born
  BY AtWork DEF Refused
<1> PICK r \in Runs : r = job[w]
  BY <1>1
<1>2. /\ Write(r, "deferred") /\ End(w, "none")
      /\ fruitless' = [fruitless EXCEPT ![r] = fruitless[r] - 1]
      /\ UNCHANGED <<verdict, machine, queue, status, requests>>
  BY DEF Refused, Attempts
<1>3. /\ Born' = Born /\ ledger'[r].last = "deferred"
      /\ \A s \in Runs : s # r => ledger'[s] = ledger[s]
  BY <1>1, <1>2, WriteKeeps DEF TypeOK, Kinds
<1>4. /\ stage'[w] = "ended" /\ job' = job
      /\ \A v \in Workers : v # w => stage'[v] = stage[v]
  BY <1>2 DEF End, TypeOK
<1>5. \A s \in Runs : s # r => fruitless'[s] = fruitless[s]
  BY <1>2 DEF TypeOK
<1>6. OpenedAt(w)'
  BY <1>3, <1>4 DEF OpenedAt
<1> QED BY <1>2, <1>3, <1>4, <1>5, <1>6, WorkShown

LEMMA AccountRefusesShown ==
  ASSUME Inv, Shown, NEW w \in Workers, AccountRefuses(w) PROVE Shown'
<1> USE DEF Inv
<1>1. job[w] \in Runs /\ job[w] \in Born
  BY AtWork DEF AccountRefuses
<1> PICK r \in Runs : r = job[w]
  BY <1>1
<1>2. /\ Write(r, "deferred") /\ End(w, "none")
      /\ \E k : fruitless' = [fruitless EXCEPT ![r] = k]
      /\ UNCHANGED <<verdict, machine, queue, status, requests>>
  BY DEF AccountRefuses, Attempts
<1>3. /\ Born' = Born /\ ledger'[r].last = "deferred"
      /\ \A s \in Runs : s # r => ledger'[s] = ledger[s]
  BY <1>1, <1>2, WriteKeeps DEF TypeOK, Kinds
<1>4. /\ stage'[w] = "ended" /\ job' = job
      /\ \A v \in Workers : v # w => stage'[v] = stage[v]
  BY <1>2 DEF End, TypeOK
<1>5. \A s \in Runs : s # r => fruitless'[s] = fruitless[s]
  BY <1>2 DEF TypeOK
<1>6. OpenedAt(w)'
  BY <1>3, <1>4 DEF OpenedAt
<1> QED BY <1>2, <1>3, <1>4, <1>5, <1>6, WorkShown

LEMMA ProgressShown == ASSUME Inv, Shown, NEW w \in Workers, Progress(w) PROVE Shown'
<1> USE DEF Inv
<1>1. job[w] \in Runs /\ job[w] \in Born
  BY AtWork DEF Progress
<1> PICK r \in Runs : r = job[w]
  BY <1>1
<1>2. /\ Write(r, "progress") /\ fruitless' = [fruitless EXCEPT ![r] = 0]
      /\ verdict' = [verdict EXCEPT ![r] = LastNode(r)]
      /\ UNCHANGED <<machine, queue, status, requests, threads>>
  BY DEF Progress, Attempts
<1>3. /\ Born' = Born /\ ledger'[r].last = "progress"
      /\ \A s \in Runs : s # r => ledger'[s] = ledger[s]
  BY <1>1, <1>2, WriteKeeps DEF TypeOK, Kinds
<1>4. \A s \in Runs : s # r => fruitless'[s] = fruitless[s] /\ verdict'[s] = verdict[s]
  BY <1>2 DEF TypeOK
<1>5. OpenedAt(w)'
  BY <1>2, <1>3 DEF OpenedAt, threads
<1> QED BY <1>2, <1>3, <1>4, <1>5, WorkShown DEF threads

LEMMA StartShown == ASSUME Inv, Shown, NEW w \in Workers, Start(w) PROVE Shown'
<1> USE DEF Inv
<1>1. job[w] \in Runs /\ job[w] \in Born
  BY AtWork DEF Start
<1> PICK r \in Runs : r = job[w]
  BY <1>1
<1>2. /\ UNCHANGED <<verdict, machine, queue, status, requests, fruitless>>
      /\ \/ Write(r, "abandoned") \/ Write(r, "startup")
         \/ ledger' = [ledger EXCEPT ![r] = Logged(Logged(@, "startup"), "pause")]
  BY DEF Start
<1>3. /\ Born' = Born /\ ledger'[r].last # "queued"
      /\ \A s \in Runs : s # r => ledger'[s] = ledger[s]
  <2>1. CASE Write(r, "abandoned") \/ Write(r, "startup")
    BY <1>1, <2>1, WriteKeeps DEF TypeOK, Kinds
  <2>2. CASE ledger' = [ledger EXCEPT ![r] = Logged(Logged(@, "startup"), "pause")]
    <3>1. Logged(ledger[r], "startup") \in Logs
      BY LoggedType DEF TypeOK, Kinds
    <3>2. ledger'[r].last = "pause"
      BY <2>2, <3>1, LoggedType DEF TypeOK, Kinds
    <3> QED BY <1>1, <2>2, <3>2 DEF Born, TypeOK
  <2> QED BY <1>2, <2>1, <2>2
<1>4. job' = job /\ \A v \in Workers : v # w => stage'[v] = stage[v]
  <2>1. UNCHANGED job /\ \E what : stage' = [stage EXCEPT ![w] = what]
    BY DEF Start, End
  <2> QED BY <2>1 DEF TypeOK
<1>5. OpenedAt(w)'
  BY <1>3, <1>4 DEF OpenedAt
<1> QED BY <1>2, <1>3, <1>4, <1>5, WorkShown

LEMMA CheckpointShown == ASSUME Inv, Shown, NEW w \in Workers, Checkpoint(w) PROVE Shown'
<1> USE DEF Inv
<1>1. job[w] \in Runs /\ job[w] \in Born /\ stage[w] = "running"
  BY AtWork DEF Checkpoint
<1> PICK r \in Runs : r = job[w]
  BY <1>1
<1>2. /\ UNCHANGED <<verdict, machine, queue, status, requests, fruitless>>
      /\ UNCHANGED ledger \/ Write(r, "pause")
  BY DEF Checkpoint
<1>3. /\ Born' = Born /\ ledger'[r].last # "queued"
      /\ \A s \in Runs : s # r => ledger'[s] = ledger[s]
  <2>1. CASE UNCHANGED ledger
    BY <1>1, <2>1 DEF Born, Shown, Opened, OpenedAt
  <2>2. CASE Write(r, "pause")
    BY <1>1, <2>2, WriteKeeps DEF TypeOK, Kinds
  <2> QED BY <1>2, <2>1, <2>2
<1>4. job' = job /\ \A v \in Workers : v # w => stage'[v] = stage[v]
  <2>1. UNCHANGED job /\ (UNCHANGED stage \/ stage' = [stage EXCEPT ![w] = "ended"])
    BY DEF Checkpoint, End, threads
  <2> QED BY <2>1 DEF TypeOK
<1>5. OpenedAt(w)'
  BY <1>3, <1>4 DEF OpenedAt
<1> QED BY <1>2, <1>3, <1>4, <1>5, WorkShown

(* An attempt that dies before its first event was counted when the job    *)
(* was taken.                                                              *)
LEMMA CrashShown == ASSUME Inv, Shown, NEW w \in Workers, Crash(w) PROVE Shown'
<1> USE DEF Inv
<1>1. job[w] \in Runs /\ stage[w] \in {"building", "running"}
  BY AtWork DEF Crash
<1> PICK r \in Runs : r = job[w]
  BY <1>1
<1>2. End(w, "interrupted") /\ UNCHANGED <<disk, machine, queue, status, requests, fruitless>>
  BY DEF Crash
<1>3. /\ stage'[w] = "ended" /\ job' = job
      /\ \A v \in Workers : v # w => stage'[v] = stage[v]
  BY <1>2 DEF End, TypeOK
<1>4. ledger[r].last # "queued" \/ fruitless[r] > 0
  <2>1. CASE stage[w] = "building"
    BY <2>1 DEF Staged, TypeOK
  <2>2. CASE stage[w] = "running"
    BY <2>2 DEF Shown, Opened, OpenedAt
  <2> QED BY <1>1, <2>1, <2>2
<1>5. OpenedAt(w)'
  BY <1>2, <1>3, <1>4 DEF OpenedAt, disk
<1> QED BY <1>2, <1>3, <1>5, WorkShown DEF disk, Born

LEMMA FinishShown == ASSUME Inv, Shown, NEW w \in Workers, Finish(w) PROVE Shown'
<1> USE DEF Inv, Shown
<1>1. job[w] \in Runs /\ job[w] # NoRun /\ stage[w] = "ended"
  BY AtWork DEF Finish
<1> PICK r \in Runs : r = job[w]
  BY <1>1
<1>2. /\ status' = [status EXCEPT ![r] = "none"] /\ job' = [job EXCEPT ![w] = NoRun]
      /\ stage' = [stage EXCEPT ![w] = IF ledger[r].last = "pause" THEN "gone" ELSE "idle"]
      /\ UNCHANGED <<disk, machine, queue, requests, fruitless>>
  BY DEF Finish
<1>3. status'[r] = "none" /\ \A s \in Runs : s # r => status'[s] = status[s]
  BY <1>2 DEF TypeOK
<1>4. \A v \in Workers : v # w => job'[v] = job[v] /\ stage'[v] = stage[v]
  BY <1>2 DEF TypeOK
<1>5. Placed'
  <2>1. \A s \in Runs : status'[s] = "running" => \E v \in Workers : job'[v] = s
    <3> SUFFICES ASSUME NEW s \in Runs, status'[s] = "running"
                 PROVE  \E v \in Workers : job'[v] = s
      OBVIOUS
    <3>1. s # r /\ status[s] = "running"
      BY <1>3
    <3> PICK v \in Workers : job[v] = s
      BY <3>1 DEF Placed
    <3> QED BY <1>4, <3>1
  <2>2. \A s \in Runs : status'[s] = "queued" => status[s] = "queued"
    BY <1>3
  <2> QED BY <1>2, <2>1, <2>2 DEF Placed, machine
<1>6. Accounted'
  <2> SUFFICES ASSUME process' \in {"booting", "up"}, NEW s \in Runs, Waits(s)'
               PROVE  s \in backlog' \/ s \in recorded' \/ fruitless'[s] > 0
    BY <1>2 DEF Accounted, machine
  <2>1. CASE s = r
    BY <1>1, <1>2, <2>1 DEF Opened, OpenedAt, Waits, disk
  <2>2. CASE s # r
    BY <1>2, <1>3, <2>2 DEF Accounted, Waits, Born, disk, machine, requests
  <2> QED BY <2>1, <2>2
<1>7. Opened'
  <2>1. stage'[w] \in {"gone", "idle"}
    BY <1>2 DEF TypeOK
  <2> QED BY <1>2, <1>4, <2>1 DEF Opened, OpenedAt, disk
<1> QED BY <1>5, <1>6, <1>7
-----------------------------------------------------------------------------
LEMMA NextShown == ASSUME ~ Refining, Inv, Shown, [Next]_vars PROVE Shown'
<1>1. CASE Serve \/ Stop \/ Admit \/ AskResume \/ UNCHANGED vars
  <2>1. UNCHANGED <<ledger, verdict, queue, status, threads, recorded, fruitless>>
    BY <1>1 DEF Serve, Stop, Admit, AskResume, vars, disk, machine, requests
  <2>2. \/ UNCHANGED <<process, backlog>>
        \/ process = "booting" /\ process' = "up" /\ backlog = {} /\ backlog' = {}
        \/ process' = "stopping"
    BY <1>1 DEF Serve, Stop, Admit, AskResume, vars, machine
  <2> QED BY <2>1, <2>2, IdleShown
<1>2. CASE ResumeByHand
  <2> PICK req \in asked : Resume(req[2], "queued")
    BY <1>2 DEF ResumeByHand
  <2>1. req[2] \in Born
    BY DEF Inv, BornFirst
  <2>2. UNCHANGED <<process, verdict, recorded, fruitless, threads, backlog>>
    BY <1>2 DEF ResumeByHand, machine
  <2> QED BY <2>1, <2>2, ResumeShown
<1>3. CASE Boot \/ Recover \/ Record \/ Enqueue \/ Kill
  BY <1>3, BootShown, RecoverShown, RecordShown, EnqueueShown, KillShown
<1>4. CASE \E w \in Workers : \/ Take(w) \/ Leave(w) \/ Refused(w) \/ Start(w) \/ Progress(w)
  BY <1>4, TakeShown, LeaveShown, RefusedShown, StartShown, ProgressShown
<1>5. CASE \E w \in Workers : Checkpoint(w) \/ AccountRefuses(w) \/ Crash(w) \/ Finish(w)
  BY <1>5, CheckpointShown, AccountRefusesShown, CrashShown, FinishShown
<1> QED BY <1>1, <1>2, <1>3, <1>4, <1>5 DEF Next, Work

(* What a serving process shows as waiting is in its queue, on its way     *)
(* there or counted as an attempt, and what it shows as running is on a    *)
(* thread: recovery leaves no owed run behind and no thread a status.      *)
THEOREM StatusIsReal == ASSUME ~ Refining PROVE Spec => []LiveStatusIsReal
<1>1. Init => Inv /\ Shown
  BY InitInv, InitShown
<1>2. Inv /\ Shown /\ [Next]_vars => Inv' /\ Shown'
  BY NextInv, NextShown
<1>3. Inv /\ Shown => LiveStatusIsReal
  <2> SUFFICES ASSUME Inv, Shown, process = "up", NEW r \in Born
               PROVE  /\ Summary(r) = "queued" => \/ \E i \in DOMAIN queue : queue[i] = r
                                                  \/ r \in recorded \/ fruitless[r] > 0
                      /\ Summary(r) = "running" => r \in Held
    BY DEF LiveStatusIsReal
  <2>0. r \in Runs /\ r # NoRun
    BY RunNumbers DEF Born
  <2>1. status[r] = "queued" => \E i \in DOMAIN queue : queue[i] = r
    BY <2>0 DEF Shown, Placed
  <2>2. Waits(r) => r \in recorded \/ fruitless[r] > 0
    BY <2>0 DEF Shown, Accounted
  <2>3. Summary(r) = "queued" => status[r] = "queued" \/ Waits(r)
    BY <2>0 DEF Summary, Waits, Inv, TypeOK, Live
  <2>4. Summary(r) = "running" => status[r] = "running"
    BY <2>0 DEF Summary
  <2>5. status[r] = "running" => r \in Held
    BY <2>0 DEF Shown, Placed, Held
  <2> QED BY <2>1, <2>2, <2>3, <2>4, <2>5
<1> QED BY <1>1, <1>2, <1>3, PTL DEF Spec
=============================================================================
