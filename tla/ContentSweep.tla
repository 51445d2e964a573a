---------------------------- MODULE ContentSweep ----------------------------
(***************************************************************************)
(* The retention sweep (web/retention.py, store.py) beside the worker: one *)
(* background thread that takes the content of old runs, while their       *)
(* owners submit and resume runs and threads drive them.                   *)
(***************************************************************************)
EXTENDS Integers, FiniteSets

CONSTANTS
  Runs,        \* 1..n, in the order of their names
  Workers,
  MaxResumes   \* bound

ASSUME SweepAssumption ==
  /\ IsFiniteSet(Runs) /\ Runs = 1..Cardinality(Runs) /\ MaxResumes \in Nat

VARIABLES
  status,    \* [run -> "new", "queued", "running" or "stopped"]
  old,       \* runs whose directory was last changed before the window
  content,   \* runs whose drafts are on disk
  sweep,     \* the sweeping thread
  resumes,
  joined,    \* history: runs that became live since the sweep asked who is
  broken     \* history: runs whose content was taken while they were live

sweepVars == <<status, old, content, sweep, resumes, joined, broken>>

Asleep == [at |-> "asleep"]

SweepInit ==
  /\ status = [r \in Runs |-> "new"] /\ old = {} /\ content = {}
  /\ sweep = Asleep /\ resumes = 0 /\ joined = {} /\ broken = {}

Live(r) == status[r] \in {"queued", "running"}

(* A fault: only runs a thread is driving count as live. *)
RunningOnly == {r \in Runs : status[r] = "running"}

(* The live table of the worker: queued and running alike. *)
Active == {r \in Runs : Live(r)}

Submit(r) ==
  /\ status[r] = "new"
  /\ status' = [status EXCEPT ![r] = "queued"] /\ joined' = joined \cup {r}
  /\ UNCHANGED <<old, content, sweep, resumes, broken>>

Resume(r) ==
  /\ status[r] = "stopped" /\ resumes < MaxResumes
  /\ resumes' = resumes + 1
  /\ status' = [status EXCEPT ![r] = "queued"] /\ joined' = joined \cup {r}
  /\ UNCHANGED <<old, content, sweep, broken>>

TakeRun(r) ==
  /\ status[r] = "queued" /\ Cardinality({s \in Runs : status[s] = "running"}) < Cardinality(Workers)
  /\ status' = [status EXCEPT ![r] = "running"]
  /\ UNCHANGED <<old, content, sweep, resumes, joined, broken>>

(* A draft, a critique, a checkpoint, the report.  Only a file that is new *)
(* in the run's own directory makes it young; most are not.                *)
WriteContent(r) ==
  /\ status[r] = "running"
  /\ content' = content \cup {r}
  /\ old' \in {old, old \ {r}}
  /\ UNCHANGED <<status, sweep, resumes, joined, broken>>

Stop(r) ==
  /\ status[r] = "running"
  /\ status' = [status EXCEPT ![r] = "stopped"]
  /\ UNCHANGED <<old, content, sweep, resumes, joined, broken>>

(* The window passes over a directory nothing was added to. *)
Age(r) ==
  /\ status[r] # "new" /\ r \notin old
  /\ old' = old \cup {r}
  /\ UNCHANGED <<status, content, sweep, resumes, joined, broken>>

-----------------------------------------------------------------------------
(* Who is live is asked first, then the directory is read. *)
SnapshotLive ==
  /\ sweep = Asleep
  /\ sweep' = [at |-> "listing", skip |-> Active]
  /\ joined' = {}
  /\ UNCHANGED <<status, old, content, resumes, broken>>

ListExpired ==
  /\ sweep.at = "listing"
  /\ sweep' = [at |-> "purging", skip |-> sweep.skip, todo |-> old]
  /\ UNCHANGED <<status, old, content, resumes, joined, broken>>

(* In the order of the names.  Taking the content rewrites the directory,  *)
(* which is young again.                                                   *)
Purge ==
  /\ sweep.at = "purging"
  /\ \E r \in sweep.todo : LET taken == r \notin sweep.skip IN
        /\ \A s \in sweep.todo : r <= s
        /\ content' = IF taken THEN content \ {r} ELSE content
        /\ old' = IF taken THEN old \ {r} ELSE old
        /\ broken' = IF taken /\ Live(r) THEN broken \cup {[run |-> r, joined |-> r \in joined]}
                     ELSE broken
        /\ sweep' = [sweep EXCEPT !.todo = @ \ {r}]
  /\ UNCHANGED <<status, resumes, joined>>

(* The pass is over, or an error of the filesystem ended it. *)
Rest ==
  /\ sweep.at = "purging"
  /\ sweep' = Asleep
  /\ UNCHANGED <<status, old, content, resumes, joined, broken>>

SweepNext ==
  \/ \E r \in Runs : Submit(r) \/ Resume(r) \/ TakeRun(r) \/ WriteContent(r) \/ Stop(r) \/ Age(r)
  \/ SnapshotLive \/ ListExpired \/ Purge \/ Rest

SweepSpec == SweepInit /\ [][SweepNext]_sweepVars

-----------------------------------------------------------------------------
(* A run loses its content while it is live only if it became live after   *)
(* the pass had asked who is (RetentionSweeper.sweep_once).                *)
SweepSparesTheLive == \A b \in broken : b.joined

(* "Live runs must never be swept, however old their id looks"             *)
(* (web/retention.py:43), not even one resumed in the middle of a pass.    *)
LiveRunsAreNeverSwept == broken = {}
=============================================================================
