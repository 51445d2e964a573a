----------------------------- MODULE EdgeProofs -----------------------------
(***************************************************************************)
(* What holds at the edges of a run: of its start (Startup), and of the    *)
(* four mechanisms of the web application that keep a state of their own - *)
(* the fitness gate, the limiter before the queue, the device notices and  *)
(* the retention sweep - for any number of processes, callers, devices and *)
(* runs.                                                                   *)
(***************************************************************************)
EXTENDS Startup, ContentSweep, SubmissionGate, DeviceNotices, FoldLemmas

(***************************************************************************)
(* The fitness gate decides on the last exam each critic sat: what it      *)
(* misses or makes up was in an exam that a process which had read the     *)
(* file before, or was forced, wrote over, or that a torn file hid.        *)
(***************************************************************************)

(* The file says of a slot what was last graded, unless its last rewrite   *)
(* lost that, or it cannot be read.                                        *)
FileFollows ==
  /\ file # Torn => \A s \in Slots \ erased : file[s] = graded[s]
  /\ \A s \in Slots : Empty[s] = NoEntry

(* So does what a process is about to write back, but for what it has      *)
(* measured itself and what it cannot have read.                           *)
InHand(a, last) ==
  /\ "at" \in DOMAIN a
  /\ a.at # "idle" =>
       /\ {"due", "cache", "missed"} \subseteq DOMAIN a
       /\ \A s \in Slots \ a.missed :
            a.at = "measuring" \/ s \notin a.due => a.cache[s] = last[s]

HandsFollow == DOMAIN audition = Auditioners /\ \A p \in Auditioners : InHand(audition[p], graded)

Admitted ==
  /\ "cited" \notin DOMAIN start
  /\ start.enforce => start.known \subseteq start.lost

Cites == "cited" \in DOMAIN start => start.cited \subseteq start.known \cup start.lost

Gated ==
  /\ start.at \in {"probing", "building", "started"} => Admitted
  /\ Cites

StartInv == FileFollows /\ HandsFollow /\ Gated

-----------------------------------------------------------------------------
(* What the gate knows of is in the file, or was lost; and the reverse.    *)
LEMMA JudgedAsGraded ==
  ASSUME FileFollows, NEW s \in Slots, file # Torn, s \notin erased
  PROVE  s \in UnfitSlots(CachedJudgements(LoadCache))
           <=> Usable(graded[s], AnyMode) /\ Judge(graded[s].metrics) = "unfit"
<1>1. LoadCache[s] = graded[s] /\ LoadCache = file
  BY DEF LoadCache, FileFollows
<1>2. DOMAIN CachedJudgements(file) = {t \in Slots : Usable(file[t], AnyMode)}
  BY DEF CachedJudgements
<1>3. Usable(file[s], AnyMode) => CachedJudgements(file)[s] = Judge(file[s].metrics)
  BY DEF CachedJudgements
<1> QED BY <1>1, <1>2, <1>3 DEF UnfitSlots

(* A file that cannot be read refuses nobody.                              *)
LEMMA TornRefusesNobody ==
  ASSUME FileFollows, file = Torn
  PROVE  UnfitSlots(CachedJudgements(LoadCache)) = {}
<1>1. DOMAIN CachedJudgements(LoadCache) = {t \in Slots : Usable(Empty[t], AnyMode)}
  BY DEF CachedJudgements, LoadCache
<1>2. \A t \in Slots : ~ Usable(Empty[t], AnyMode)
  BY DEF FileFollows, Usable
<1> QED BY <1>1, <1>2 DEF UnfitSlots

LEMMA GateKeeps ==
  ASSUME StartInv, Gate
  PROVE  StartInv'
<1> DEFINE unfit == UnfitSlots(CachedJudgements(LoadCache))
           known == {s \in Slots : Usable(graded[s], AnyMode)
                                     /\ Judge(graded[s].metrics) = "unfit"}
           lost == IF file = Torn THEN Slots ELSE erased
           healthy == NoPoolEmptied(Full) /\ RosterHealthy(Full)
<1>1. PICK enforce \in Enforced : start' =
            CASE ~ healthy -> Refused("startup_refused")
              [] healthy /\ enforce /\ unfit # {} ->
                   [at |-> "refused", code |-> "startup_refused",
                    cited |-> unfit, known |-> known, lost |-> lost]
              [] OTHER -> [at |-> "probing", enforce |-> enforce, known |-> known, lost |-> lost]
  BY DEF Gate
<1>2. unfit \subseteq Slots
  BY DEF UnfitSlots, CachedJudgements
<1>3. unfit \subseteq known \cup lost /\ known \subseteq unfit \cup lost
  <2>1. CASE file = Torn
    BY <1>2, <2>1
  <2>2. CASE file # Torn
    <3>1. \A s \in Slots \ erased : s \in unfit <=> s \in known
      BY <2>2, JudgedAsGraded DEF StartInv
    <3> QED BY <1>2, <2>2, <3>1
  <2> QED BY <2>1, <2>2
<1> HIDE DEF unfit, known, lost, healthy
<1>4. \/ start' = Refused("startup_refused")
      \/ start' = [at |-> "refused", code |-> "startup_refused",
                   cited |-> unfit, known |-> known, lost |-> lost]
      \/ /\ start' = [at |-> "probing", enforce |-> enforce, known |-> known, lost |-> lost]
         /\ enforce => unfit = {}
  BY <1>1
<1>5. Gated'
  BY <1>3, <1>4 DEF Gated, Admitted, Cites, Refused
<1> QED BY <1>5 DEF StartInv, FileFollows, HandsFollow, InHand, Gate

(* Nothing after the gate touches what it found.                           *)
LEMMA LaterKeeps ==
  ASSUME StartInv, ProbeRoster \/ BuildRuntime
  PROVE  StartInv'
<1>1. start.at \in {"probing", "building"} /\ Admitted
  BY DEF StartInv, Gated, ProbeRoster, BuildRuntime
<1>2. CASE ProbeRoster
  <2>1. PICK down, roster :
          \/ start' = [at |-> "building", roster |-> roster, down |-> down,
                       enforce |-> start.enforce, known |-> start.known, lost |-> start.lost]
          \/ start' = [at |-> "refused", code |-> "roster_unreachable", down |-> down]
    BY <1>2 DEF ProbeRoster
  <2>2. Gated'
    BY <1>1, <2>1 DEF Gated, Admitted, Cites
  <2> QED BY <1>2, <2>2 DEF StartInv, FileFollows, HandsFollow, InHand, ProbeRoster
<1>3. CASE BuildRuntime
  <2>1. PICK c \in Settings :
          \/ start' = Refused("startup_refused")
          \/ start' = [at |-> "started", roster |-> start.roster, down |-> start.down,
                       settings |-> c, clients |-> Clients(c),
                       enforce |-> start.enforce, known |-> start.known, lost |-> start.lost]
    BY <1>3 DEF BuildRuntime
  <2>2. Gated'
    BY <1>1, <2>1 DEF Gated, Admitted, Cites, Refused
  <2> QED BY <1>3, <2>2 DEF StartInv, FileFollows, HandsFollow, InHand, BuildRuntime
<1> QED BY <1>2, <1>3

LEMMA RefusalKeeps ==
  ASSUME StartInv, ResolveFails \/ ProbeIncapable
  PROVE  StartInv'
  BY DEF StartInv, Gated, Cites, FileFollows, HandsFollow, InHand, ResolveFails, ProbeIncapable,
         Refused

(* Nothing but an audition touches what is in hand, the file and its       *)
(* history; and no audition touches the start.                             *)
LEMMA StartRests ==
  ASSUME StartInv, UNCHANGED start, FileFollows', HandsFollow'
  PROVE  StartInv'
  BY DEF StartInv, Gated, Admitted, Cites

(* A process that reads the file has what the file has.                    *)
LEMMA LoadKeeps ==
  ASSUME StartInv, NEW p \in Auditioners, ProbeAndLoad(p)
  PROVE  StartInv'
<1>1. PICK scope \in Scopes \ {{}}, force \in Forced, modes \in PinnedModes :
        LET cache == IF force THEN Empty ELSE LoadCache
            due == {s \in scope : ~ Usable(cache[s], {modes[s]})}
        IN audition' = [audition EXCEPT ![p] =
             IF due = {} THEN Resting
             ELSE [at |-> "measuring", due |-> due, cache |-> cache, day |-> day,
                   regime |-> regime, modes |-> [s \in due |-> modes[s]],
                   missed |-> IF force \/ file = Torn THEN Slots ELSE erased]]
  BY DEF ProbeAndLoad
<1> DEFINE missed == IF force \/ file = Torn THEN Slots ELSE erased
           cache == IF force THEN Empty ELSE LoadCache
           due == {s \in scope : ~ Usable(cache[s], {modes[s]})}
           begins == [at |-> "measuring", due |-> due, cache |-> cache, day |-> day,
                      regime |-> regime, modes |-> [s \in due |-> modes[s]],
                      missed |-> missed]
<1>2. UNCHANGED <<file, graded, erased, start>>
  BY DEF ProbeAndLoad
<1>3. \A s \in Slots \ missed : cache[s] = graded[s]
  BY DEF StartInv, FileFollows, LoadCache
<1>4. audition' = [audition EXCEPT ![p] = begins] \/ audition' = [audition EXCEPT ![p] = Resting]
  BY <1>1
<1> HIDE DEF missed, cache, due
<1>5. InHand(begins, graded') /\ InHand(Resting, graded')
  BY <1>2, <1>3 DEF InHand, Resting
<1> QED BY <1>2, <1>4, <1>5, StartRests DEF StartInv, FileFollows, HandsFollow, InHand

(* Measuring changes what is in hand where it is due only.                 *)
LEMMA MeasureKeeps ==
  ASSUME StartInv, NEW p \in Auditioners, RunAudition(p)
  PROVE  StartInv'
<1> DEFINE a == audition[p]
<1>1. PICK results, earned :
        audition' = [audition EXCEPT ![p] =
          [at |-> "saving", due |-> a.due, cache |-> Recorded(a, results),
           earned |-> earned, missed |-> a.missed]]
  BY Zenon DEF RunAudition
<1>2. UNCHANGED <<file, graded, erased, start>> /\ a.at = "measuring"
  BY DEF RunAudition
<1>3. InHand(a, graded)
  BY DEF StartInv, HandsFollow
<1>4. \A s \in Slots \ a.due : Recorded(a, results)[s] = a.cache[s]
  BY DEF Recorded
<1>5. \A s \in Slots \ a.missed : a.cache[s] = graded[s]
  BY <1>2, <1>3 DEF InHand
<1> DEFINE recorded == Recorded(a, results)
           measured == [at |-> "saving", due |-> a.due, cache |-> recorded,
                        earned |-> earned, missed |-> a.missed]
<1>6. audition' = [audition EXCEPT ![p] = measured]
  BY <1>1
<1> HIDE DEF recorded, a
<1>7. \A s \in Slots \ a.missed : s \notin a.due => recorded[s] = graded[s]
  BY <1>4, <1>5 DEF recorded
<1>8. measured.at = "saving" /\ {"at", "due", "cache", "missed"} \subseteq DOMAIN measured
      /\ measured.due = a.due /\ measured.cache = recorded /\ measured.missed = a.missed
  OBVIOUS
<1> HIDE DEF measured
<1>9. InHand(measured, graded')
  BY <1>2, <1>7, <1>8 DEF InHand
<1>10. \A q \in Auditioners : InHand(audition[q], graded)
  BY DEF StartInv, HandsFollow
<1>11. DOMAIN audition = Auditioners
  BY DEF StartInv, HandsFollow
<1> QED BY <1>2, <1>6, <1>9, <1>10, <1>11, StartRests DEF StartInv, FileFollows, HandsFollow, InHand

LEMMA TruncateKeeps ==
  ASSUME StartInv, NEW p \in Auditioners, Truncate(p)
  PROVE  StartInv'
<1> DEFINE cut == [[audition[p] EXCEPT !.at = "writing"] EXCEPT !.earned = TRUE]
<1>1. DOMAIN audition = Auditioners /\ \A q \in Auditioners : InHand(audition[q], graded)
  BY DEF StartInv, HandsFollow
<1>2. audition' = [audition EXCEPT ![p] = cut]
  BY <1>1 DEF Truncate
<1>3. UNCHANGED <<graded, erased, start>> /\ file' = Torn /\ audition[p].at = "saving"
  BY DEF Truncate
<1>4. DOMAIN cut = DOMAIN audition[p]
  OBVIOUS
<1>5. cut.at = "writing" /\ cut.due = audition[p].due /\ cut.cache = audition[p].cache
      /\ cut.missed = audition[p].missed
  BY <1>1, <1>3 DEF InHand
<1> HIDE DEF cut
<1>6. InHand(cut, graded')
  BY <1>1, <1>3, <1>4, <1>5 DEF InHand
<1> QED BY <1>1, <1>2, <1>3, <1>6, StartRests DEF StartInv, FileFollows, HandsFollow, InHand

(* A process that saves makes its own exams the last; the file lacks what  *)
(* it had not read, and whoever has read the file before lacks its exams.  *)
LEMMA SaveKeeps ==
  ASSUME StartInv, NEW p \in Auditioners, SaveCache(p)
  PROVE  StartInv'
<1> DEFINE a == audition[p]
<1>1. DOMAIN audition = Auditioners /\ \A q \in Auditioners : InHand(audition[q], graded)
  BY DEF StartInv, HandsFollow
<1>2. a.at \in {"saving", "writing"} /\ file' = a.cache /\ erased' = a.missed \ a.due
      /\ start' = start
  BY DEF SaveCache
<1>3. \A s \in Slots : graded'[s] = IF s \in a.due THEN a.cache[s] ELSE graded[s]
  BY DEF SaveCache
<1>4. audition' = [q \in Auditioners |->
             IF q = p \/ audition[q] = Resting THEN Resting
             ELSE [audition[q] EXCEPT !.missed = @ \cup a.due]]
  BY DEF SaveCache
<1> HIDE DEF a
<1>5. \A s \in Slots \ a.missed : s \notin a.due => a.cache[s] = graded[s]
  BY <1>1, <1>2 DEF InHand, a
<1>6. FileFollows'
  <2>1. \A s \in Slots \ erased' : file'[s] = graded'[s]
    BY <1>2, <1>3, <1>5
  <2> QED BY <2>1 DEF StartInv, FileFollows
<1>7. ASSUME NEW q \in Auditioners PROVE InHand(audition'[q], graded')
  <2>1. CASE q = p \/ audition[q] = Resting
    BY <1>4, <2>1 DEF InHand, Resting
  <2>2. CASE ~ (q = p \/ audition[q] = Resting)
    <3> DEFINE b == audition[q]
               behind == [b EXCEPT !.missed = @ \cup a.due]
    <3>1. audition'[q] = behind
      BY <1>4, <2>2
    <3>2. InHand(b, graded)
      BY <1>1
    <3> HIDE DEF b
    <3>3. DOMAIN behind = DOMAIN b
      OBVIOUS
    <3>4. b.at # "idle" => behind.missed = b.missed \cup a.due
      BY <3>2 DEF InHand
    <3>5. behind.at = b.at /\ behind.due = b.due /\ behind.cache = b.cache
      OBVIOUS
    <3> HIDE DEF behind
    <3>6. InHand(behind, graded')
      BY <1>3, <3>2, <3>3, <3>4, <3>5 DEF InHand
    <3> QED BY <3>1, <3>6 DEF InHand
  <2> QED BY <2>1, <2>2
<1>8. HandsFollow'
  BY <1>4, <1>7 DEF HandsFollow
<1> QED BY <1>2, <1>6, <1>8, StartRests

LEMMA DeathKeeps ==
  ASSUME StartInv, NEW p \in Auditioners, Die(p)
  PROVE  StartInv'
<1>1. InHand(Resting, graded')
  BY DEF InHand, Resting
<1> QED BY <1>1, StartRests DEF StartInv, FileFollows, HandsFollow, InHand, Die

LEMMA MeanwhileKeeps ==
  ASSUME StartInv, Meanwhile
  PROVE  StartInv'
<1>1. CASE Release \/ DayPasses
  BY <1>1, StartRests DEF StartInv, FileFollows, HandsFollow, InHand, Release, DayPasses
<1> QED BY <1>1, LoadKeeps, MeasureKeeps, TruncateKeeps, SaveKeeps, DeathKeeps DEF Meanwhile

LEMMA StartInit == Init => StartInv
  BY DEF Init, StartInv, FileFollows, HandsFollow, InHand, Resting, Gated, Cites, Empty

LEMMA StartStep == StartInv /\ [Next]_vars => StartInv'
<1>1. StartInv /\ UNCHANGED vars => StartInv'
  BY DEF StartInv, FileFollows, HandsFollow, InHand, Gated, Admitted, Cites, vars
<1> QED BY <1>1, GateKeeps, LaterKeeps, RefusalKeeps, MeanwhileKeeps DEF Next

-----------------------------------------------------------------------------
(* The gate decides on the last exam each critic sat: an unfit verdict of  *)
(* the present regime that is still fresh refuses the start, and nothing   *)
(* else does, whatever order the processes read and rewrite the file in.   *)
(* It can be wrong only about an exam that was written over by a process   *)
(* which had read the file before that exam was saved or was forced and    *)
(* read nothing, or that was lost with a torn file (audition.py,           *)
(* enforce_fitness and save_cache).                                        *)
THEOREM GateReadsTheRecord == Spec => []GateFollowsTheRecord
<1>1. StartInv => GateFollowsTheRecord
  BY DEF StartInv, Gated, Admitted, Cites, GateFollowsTheRecord
<1> QED BY <1>1, StartInit, StartStep, PTL DEF Spec

-----------------------------------------------------------------------------
(* What an exam counts: its calls are finitely many, and a finding counts  *)
(* in production exactly when the exam counts it.                          *)
LEMMA ExamTypes ==
  ASSUME NEW e \in Exams
  PROVE  /\ IsFiniteSet(Calls) /\ Calls # {}
         /\ \A c \in Calls :
              /\ e[c].failed \in BOOLEAN /\ e[c].issues \subseteq Issues
              /\ e[c].failed => e[c].issues = {}
              /\ IsFiniteSet(e[c].issues)
<1>1. IsFiniteSet(Fixtures) /\ Fixtures # {} /\ Repetitions \in Nat \ {0}
  BY AuditionAssumption
<1>2. IsFiniteSet(Calls)
  <2>1. IsFiniteSet(1..Repetitions)
    BY <1>1, FS_Interval
  <2> QED BY <1>1, <2>1, FS_Product DEF Calls
<1>3. Calls # {}
  <2>1. PICK f \in Fixtures : TRUE
    BY <1>1
  <2>2. <<f, 1>> \in Calls
    BY <1>1 DEF Calls
  <2> QED BY <2>2
<1>4. IsFiniteSet(Issues)
  <2> DEFINE kinds == BOOLEAN \X ({"planted", "sibling", "stylistic"} \X {"minor", "major"})
             issue == [k \in kinds |-> [near |-> k[1], category |-> k[2][1], severity |-> k[2][2]]]
  <2>1. IsFiniteSet(BOOLEAN) /\ IsFiniteSet({"planted", "sibling", "stylistic"})
        /\ IsFiniteSet({"minor", "major"})
    <3>1. \A a, b, c : IsFiniteSet({a, b, c})
      <4> TAKE a, b, c
      <4>1. IsFiniteSet({})
        BY FS_EmptySet
      <4>2. IsFiniteSet({} \cup {a})
        BY <4>1, FS_AddElement
      <4>3. IsFiniteSet(({} \cup {a}) \cup {b})
        BY <4>2, FS_AddElement
      <4>4. IsFiniteSet((({} \cup {a}) \cup {b}) \cup {c})
        BY <4>3, FS_AddElement
      <4>5. (({} \cup {a}) \cup {b}) \cup {c} = {a, b, c}
        OBVIOUS
      <4> QED BY <4>4, <4>5
    <3>2. BOOLEAN = {TRUE, FALSE, FALSE} /\ {"minor", "major"} = {"minor", "major", "major"}
      OBVIOUS
    <3> QED BY <3>1, <3>2
  <2>2. IsFiniteSet(kinds)
    BY <2>1, FS_Product
  <2>3. issue \in [kinds -> Issues] /\ \A i \in Issues : \E k \in kinds : issue[k] = i
    <3>1. ASSUME NEW i \in Issues PROVE \E k \in kinds : issue[k] = i
      <4>1. <<i.near, <<i.category, i.severity>>>> \in kinds
        BY DEF Issues
      <4>2. issue[<<i.near, <<i.category, i.severity>>>>] = i
        BY <4>1 DEF Issues
      <4> QED BY <4>1, <4>2
    <3>2. issue \in [kinds -> Issues]
      BY DEF Issues
    <3> QED BY <3>1, <3>2
  <2> HIDE DEF kinds, issue
  <2>4. issue \in Surjection(kinds, Issues)
    BY <2>3, Zenon DEF Surjection
  <2> QED BY <2>2, <2>4, FS_Surjection
<1>5. \A c \in Calls : e[c] \in Reviews
  BY AuditionAssumption
<1>6. ASSUME NEW c \in Calls
      PROVE  e[c].failed \in BOOLEAN /\ e[c].issues \subseteq Issues /\ (e[c].failed => e[c].issues = {})
  BY <1>5 DEF Reviews
<1> QED BY <1>2, <1>3, <1>4, <1>6, FS_Subset

LEMMA CountsWhatProductionCounts ==
  ASSUME NEW i \in Issues
  PROVE  Material(i) <=> Counts(i)
  BY DEF Issues, Material, Counts

(* A fit or marginal critic reviewed every fixture, saw an obvious defect  *)
(* and let a sound report through.                                         *)
LEMMA PassedIsThorough ==
  ASSUME NEW e \in Exams, Judge(RunAssignment(e)) \in {"fit", "marginal"}
  PROVE  Thorough(e)
<1> DEFINE reviewed == {c \in Calls : ~ e[c].failed}
           obvious == {f \in Planted : Tier[f] = "obvious"}
           onObvious == {c \in reviewed : c[1] \in obvious}
           onControls == {c \in reviewed : c[1] \in Controls}
           m == RunAssignment(e)
<1>1. \A S \in SUBSET Calls : IsFiniteSet(S) /\ Cardinality(S) \in Nat /\ (Cardinality(S) = 0 <=> S = {})
  BY ExamTypes, FS_Subset, FS_CardinalityType, FS_EmptySet
<1>2. m.calls > 0 /\ ~ Unmeasurable(m) /\ ~ Ungraded(m) /\ ~ Incapable(m)
  <2>1. m.calls \in Nat
    BY <1>1 DEF RunAssignment
  <2> HIDE DEF m
  <2>2. m.calls = 0 \/ m.calls > 0
    BY <2>1
  <2>3. Judge(m) \in {"fit", "marginal"}
    BY DEF m
  <2> QED BY <2>1, <2>2, <2>3 DEF Judge
<1>3. /\ m.uncoveredFixtures = Fixtures \ {c[1] : c \in reviewed}
      /\ m.obviousTotal = Cardinality(onObvious)
      /\ m.obviousHits = Cardinality({c \in onObvious : Detected(e[c])})
      /\ m.controlRuns = Cardinality(onControls)
      /\ m.controlCleanRuns = Cardinality({c \in onControls : MaterialIssueCount(e[c]) = 0})
  BY DEF RunAssignment
<1> HIDE DEF m
<1>4. \A f \in Fixtures : \E c \in reviewed : c[1] = f
  BY <1>2, <1>3 DEF Unmeasurable
<1>5. ASSUME NEW f \in Fixtures, Tier[f] = "obvious"
      PROVE  \E c \in Calls : Tier[c[1]] = "obvious" /\ Sees(e[c])
  <2>1. f \in obvious
    BY <1>5 DEF Planted, Controls
  <2>2. onObvious # {}
    BY <1>4, <2>1
  <2>3. onObvious \in SUBSET Calls /\ {c \in onObvious : Detected(e[c])} \in SUBSET Calls
    OBVIOUS
  <2>4. {c \in onObvious : Detected(e[c])} # {}
    BY <1>2, <1>3, <1>1, <2>2, <2>3 DEF Incapable
  <2>5. PICK c \in onObvious : Detected(e[c])
    BY <2>4
  <2>6. Sees(e[c])
    BY <2>5, ExamTypes, CountsWhatProductionCounts DEF Detected, Sees, LocusMatches
  <2> QED BY <2>5, <2>6
<1>6. ASSUME Controls # {}
      PROVE  \E c \in Calls : c[1] \in Controls /\ Clean(e[c])
  <2>1. onControls # {}
    BY <1>4, <1>6 DEF Controls
  <2>2. onControls \in SUBSET Calls
        /\ {c \in onControls : MaterialIssueCount(e[c]) = 0} \in SUBSET Calls
    OBVIOUS
  <2>3. {c \in onControls : MaterialIssueCount(e[c]) = 0} # {}
    BY <1>2, <1>3, <1>1, <2>1, <2>2 DEF Incapable
  <2>4. PICK c \in onControls : MaterialIssueCount(e[c]) = 0
    BY <2>3
  <2>5. {i \in e[c].issues : Material(i)} = {}
    <3>1. IsFiniteSet({i \in e[c].issues : Material(i)})
      BY ExamTypes, FS_Subset
    <3> QED BY <2>4, <3>1, FS_EmptySet DEF MaterialIssueCount
  <2>6. Clean(e[c])
    BY <2>4, <2>5, ExamTypes, CountsWhatProductionCounts DEF Clean
  <2> QED BY <2>4, <2>6
<1>7. ASSUME NEW f \in Fixtures PROVE \E r \in 1..Repetitions : ~ e[<<f, r>>].failed
  <2>1. PICK c \in reviewed : c[1] = f
    BY <1>4
  <2>2. c = <<f, c[2]>> /\ c[2] \in 1..Repetitions
    BY <2>1 DEF Calls
  <2> QED BY <2>1, <2>2
<1> QED BY <1>5, <1>6, <1>7 DEF Thorough

(* A critic that failed, missed and invented nothing is fit.               *)
LEMMA FlawlessIsFit ==
  ASSUME NEW e \in Exams, Flawless(e)
  PROVE  Judge(RunAssignment(e)) = "fit"
<1> DEFINE reviewed == {c \in Calls : ~ e[c].failed}
           on(S) == {c \in reviewed : c[1] \in S}
           obvious == {f \in Planted : Tier[f] = "obvious"}
           noise == [c \in on(Controls) |-> MaterialIssueCount(e[c])]
           m == RunAssignment(e)
<1>1. ASSUME NEW c \in Calls
      PROVE  /\ ~ e[c].failed
             /\ c[1] \in Planted => Detected(e[c])
             /\ c[1] \in Controls => MaterialIssueCount(e[c]) = 0
  <2>1. CASE c[1] \in Controls
    <3>1. Clean(e[c])
      BY <2>1 DEF Flawless
    <3>2. {i \in e[c].issues : Material(i)} = {}
      BY <3>1, ExamTypes, CountsWhatProductionCounts DEF Clean
    <3> QED BY <2>1, <3>1, <3>2, FS_EmptySet DEF Clean, Planted, MaterialIssueCount
  <2>2. CASE c[1] \notin Controls
    <3>1. Sees(e[c])
      BY <2>2 DEF Flawless
    <3>2. PICK i \in e[c].issues : i.near /\ Counts(i)
      BY <3>1 DEF Sees
    <3>3. Material(i) /\ ~ e[c].failed
      BY <3>2, ExamTypes, CountsWhatProductionCounts
    <3> QED BY <2>2, <3>2, <3>3 DEF Detected, LocusMatches
  <2> QED BY <2>1, <2>2
<1>2. \A S \in SUBSET Calls : IsFiniteSet(S) /\ Cardinality(S) \in Nat /\ (Cardinality(S) = 0 <=> S = {})
  BY ExamTypes, FS_Subset, FS_CardinalityType, FS_EmptySet
<1>3. reviewed = Calls /\ Calls \ reviewed = {}
  BY <1>1
<1>4. \A S : {c \in on(S) : Detected(e[c])} \subseteq on(S) /\ on(S) \in SUBSET Calls
  OBVIOUS
<1>5. {c \in on(Planted) : Detected(e[c])} = on(Planted)
  BY <1>1
<1>6. {c \in on(obvious) : Detected(e[c])} = on(obvious)
  BY <1>1
<1>7. {c \in on(Controls) : MaterialIssueCount(e[c]) = 0} = on(Controls)
  BY <1>1
<1>8. FoldFunction(+, 0, noise) = 0
  <2>1. noise \in [on(Controls) -> Nat] /\ \A c \in on(Controls) : noise[c] = 0
    BY <1>1
  <2>2. IsFiniteSet(on(Controls))
    BY <1>2, <1>4
  <2> HIDE DEF noise, on
  <2> QED BY <2>1, <2>2, SumType
<1>9. PICK total, planted, seen, quiet \in Nat :
        /\ total = Cardinality(Calls) /\ planted = Cardinality(on(Planted))
        /\ seen = Cardinality(on(obvious)) /\ quiet = Cardinality(on(Controls))
  <2>1. Calls \in SUBSET Calls
    OBVIOUS
  <2> QED BY <1>2, <1>4, <2>1
<1>10. total > 0 /\ (planted > 0 \/ quiet > 0)
  <2>1. Calls # {}
    BY ExamTypes
  <2>2. PICK c \in Calls : TRUE
    BY <2>1
  <2>3. c \in on(Planted) \/ c \in on(Controls)
    BY <1>3 DEF Planted, Calls
  <2>4. planted # 0 \/ quiet # 0
    BY <1>2, <1>4, <1>9, <2>3
  <2>5. Calls \in SUBSET Calls
    OBVIOUS
  <2>6. total # 0
    BY <1>2, <1>9, <2>1, <2>5
  <2> QED BY <2>4, <2>6
<1>11. /\ m.calls = total /\ m.schemaFailures = 0 /\ m.uncoveredFixtures = {}
       /\ m.plantedTotal = planted /\ m.sameLensHits = planted
       /\ m.obviousTotal = seen /\ m.obviousHits = seen
       /\ m.controlRuns = quiet /\ m.controlMaterialIssues = 0 /\ m.controlCleanRuns = quiet
  <2>1. /\ m.calls = Cardinality(Calls) /\ m.schemaFailures = Cardinality(Calls \ reviewed)
        /\ m.uncoveredFixtures = Fixtures \ {c[1] : c \in reviewed}
        /\ m.plantedTotal = Cardinality(on(Planted))
        /\ m.sameLensHits = Cardinality({c \in on(Planted) : Detected(e[c])})
        /\ m.obviousTotal = Cardinality(on(obvious))
        /\ m.obviousHits = Cardinality({c \in on(obvious) : Detected(e[c])})
        /\ m.controlRuns = Cardinality(on(Controls))
        /\ m.controlMaterialIssues = FoldFunction(+, 0, noise)
        /\ m.controlCleanRuns = Cardinality({c \in on(Controls) : MaterialIssueCount(e[c]) = 0})
    BY DEF RunAssignment
  <2>2. Cardinality(Calls \ reviewed) = 0
    BY <1>3, FS_EmptySet
  <2>3. Fixtures \subseteq {c[1] : c \in reviewed}
    <3> SUFFICES ASSUME NEW f \in Fixtures PROVE \E c \in reviewed : c[1] = f
      OBVIOUS
    <3>1. <<f, 1>> \in Calls
      BY AuditionAssumption DEF Calls
    <3> QED BY <1>3, <3>1
  <2>4. m.uncoveredFixtures = {}
    BY <2>1, <2>3
  <2> HIDE DEF m, on, reviewed, obvious, noise
  <2> QED BY <1>5, <1>6, <1>7, <1>8, <1>9, <2>1, <2>2, <2>4
<1> HIDE DEF m
<1>12. /\ MaxSchemaFailureRate \in Nat /\ MinObviousSensitivity \in 0..100
       /\ WarnLensSensitivity \in 0..100
       /\ MaxControlMaterialRate \in Nat /\ WarnControlMaterialRate \in Nat
  BY AuditionAssumption
<1>13. \A p \in Nat, b \in Nat : ~ Above(0, b, p)
  BY DEF Above
<1>14. \A p \in 0..100, a \in Nat : ~ Below(a, a, p)
  <2> TAKE p \in 0..100, a \in Nat
  <2>1. p * a <= 100 * a
    OBVIOUS
  <2> QED BY <2>1 DEF Below
<1>15. m.calls > 0 /\ ~ Unmeasurable(m) /\ ~ Ungraded(m)
  BY <1>10, <1>11, <1>12, <1>13 DEF Unmeasurable, Ungraded
<1>16. ~ Incapable(m)
  BY <1>11, <1>12, <1>13, <1>14 DEF Incapable
<1>17. ~ Doubtful(m)
  BY <1>11, <1>12, <1>13, <1>14 DEF Doubtful
<1>18. Judge(m) = "fit"
  BY <1>15, <1>16, <1>17 DEF Judge
<1> QED BY <1>18 DEF m

LEMMA ExamsAreEarned == \A r \in Graded : Earned(r)
<1> SUFFICES ASSUME NEW e \in Exams
             PROVE  Earned([metrics |-> RunAssignment(e), shows |-> Standing(e)])
  BY DEF Graded
<1>1. Judge(RunAssignment(e)) \in {"fit", "marginal"} => Standing(e) \in {"thorough", "flawless"}
  BY PassedIsThorough DEF Standing
<1>2. Standing(e) = "flawless" => Judge(RunAssignment(e)) = "fit"
  BY FlawlessIsFit DEF Standing
<1> QED BY <1>1, <1>2 DEF Earned

-----------------------------------------------------------------------------
(* What is left of a pool is what answered of it.                          *)
LEMMA PoolLeft ==
  ASSUME NEW T, NEW pool \in Seq(T), NEW down
  PROVE  /\ Only(pool, T \ down) \in Seq(T \ down)
         /\ ToSet(Only(pool, T \ down)) = ToSet(pool) \ down
         /\ Only(pool, T \ down) = << >> <=> ToSet(pool) \ down = {}
<1> DEFINE S == T \ down
           kept == Only(pool, S)
<1>1. /\ kept \in Seq(T \cap S)
      /\ \A k \in 1..Len(pool) : NoFarther(pool, k, kept, S)
      /\ ComesFrom(kept, pool)
  <2>1. kept \in Seq(T \cap S)
    BY OnlyKeeps
  <2>2. \A k \in 1..Len(pool) : NoFarther(pool, k, kept, S)
    BY OnlyKeeps
  <2>3. ComesFrom(kept, pool)
    BY OnlyKeeps
  <2> QED BY <2>1, <2>2, <2>3
<1>2. T \cap S = S
  OBVIOUS
<1>3. kept \in Seq(S)
  BY <1>1, <1>2
<1> HIDE DEF kept
<1>4. DOMAIN kept = 1..Len(kept) /\ DOMAIN pool = 1..Len(pool) /\ \A k \in 1..Len(pool) : pool[k] \in T
  BY <1>3
<1>5. ToSet(kept) = {kept[j] : j \in 1..Len(kept)}
  BY <1>4 DEF ToSet
<1>6. \A j \in 1..Len(kept) : kept[j] \in S /\ \E k \in 1..Len(pool) : kept[j] = pool[k]
  BY <1>1, <1>3 DEF ComesFrom
<1>7. \A k \in 1..Len(pool) : pool[k] \notin down => \E j \in 1..Len(kept) : kept[j] = pool[k]
  BY <1>1, <1>4 DEF NoFarther
<1>8. ToSet(kept) = ToSet(pool) \ down
  BY <1>4, <1>5, <1>6, <1>7 DEF ToSet
<1>9. kept = << >> <=> ToSet(kept) = {}
  <2>1. kept = << >> <=> Len(kept) = 0
    BY <1>3, EmptySeq
  <2>2. Len(kept) \in Nat
    BY <1>3, LenProperties
  <2> HIDE DEF S
  <2>3. Len(kept) = 0 => 1..Len(kept) = {}
    BY <2>2
  <2>4. Len(kept) # 0 => 1 \in 1..Len(kept)
    BY <2>2
  <2> QED BY <1>5, <2>1, <2>3, <2>4
<1> QED BY <1>3, <1>8, <1>9 DEF kept

(* The roster after an outage, its pools as sets.                          *)
Left(roster, down) ==
  /\ DOMAIN roster.critics = Lenses
  /\ roster.writers \in Seq(Aliases \ down)
  /\ ToSet(roster.writers) = WriterAliases \ down
  /\ roster.writers = << >> <=> WriterAliases \ down = {}
  /\ \A l \in Lenses : /\ ToSet(roster.critics[l]) = ToSet(Critics[l]) \ down
                       /\ roster.critics[l] = << >> <=> ToSet(Critics[l]) \ down = {}
  /\ roster.orchestrator = IF Orchestrator \in down THEN "unset" ELSE Orchestrator

LEMMA RosterLeft ==
  ASSUME NEW down \in SUBSET Aliases, NEW roster, roster = RosterWithout(down)
  PROVE  Left(roster, down)
<1>1. /\ roster.writers = Only(Writers, Aliases \ down)
      /\ DOMAIN roster.critics = Lenses
      /\ \A l \in Lenses : roster.critics[l] = Only(Critics[l], Aliases \ down)
      /\ roster.orchestrator = IF Orchestrator \in down THEN "unset" ELSE Orchestrator
  BY DEF RosterWithout
<1>2. Writers \in Seq(Aliases)
  BY RosterAssumption DEF Aliases
<1>3. \A l \in Lenses : Critics[l] \in Seq(Aliases)
  BY RosterAssumption DEF Aliases
<1>4. ASSUME NEW l \in Lenses
      PROVE  /\ ToSet(roster.critics[l]) = ToSet(Critics[l]) \ down
             /\ roster.critics[l] = << >> <=> ToSet(Critics[l]) \ down = {}
  <2>1. Critics[l] \in Seq(Aliases) /\ roster.critics[l] = Only(Critics[l], Aliases \ down)
    BY <1>1, <1>3
  <2>2. PICK pool \in Seq(Aliases) : pool = Critics[l]
    BY <2>1
  <2>3. ToSet(Only(pool, Aliases \ down)) = ToSet(pool) \ down
    BY PoolLeft
  <2>4. Only(pool, Aliases \ down) = << >> <=> ToSet(pool) \ down = {}
    BY PoolLeft
  <2> QED BY <2>1, <2>2, <2>3, <2>4
<1>5. /\ roster.writers \in Seq(Aliases \ down)
      /\ ToSet(roster.writers) = WriterAliases \ down
      /\ roster.writers = << >> <=> WriterAliases \ down = {}
  <2>1. WriterAliases = ToSet(Writers)
    BY DEF WriterAliases, ToSet
  <2>2. Only(Writers, Aliases \ down) \in Seq(Aliases \ down)
    BY <1>2, <2>1, PoolLeft
  <2>3. ToSet(Only(Writers, Aliases \ down)) = ToSet(Writers) \ down
    BY <1>2, PoolLeft, Zenon
  <2>4. Only(Writers, Aliases \ down) = << >> <=> ToSet(Writers) \ down = {}
    BY <1>2, PoolLeft, Zenon
  <2> QED BY <1>1, <2>1, <2>2, <2>3, <2>4
<1> QED BY <1>1, <1>4, <1>5 DEF Left

Healthy(roster) == NoPoolEmptied(roster) /\ RosterHealthy(roster)

(* A roster is healthy exactly when what is left can staff a run.          *)
LEMMA HealthyIsStaffed ==
  ASSUME NEW down \in SUBSET Aliases
  PROVE  Healthy(RosterWithout(down)) <=> Staffed(down, {})
<1> DEFINE writers == WriterAliases \ down
           critics(l) == ToSet(Critics[l]) \ down
<1>1. PICK roster : roster = RosterWithout(down)
  OBVIOUS
<1>2. /\ DOMAIN roster.critics = Lenses
      /\ ToSet(roster.writers) = writers /\ (roster.writers = << >> <=> writers = {})
      /\ \A l \in Lenses : /\ ToSet(roster.critics[l]) = critics(l)
                           /\ roster.critics[l] = << >> <=> critics(l) = {}
  <2>1. Left(roster, down)
    BY <1>1, RosterLeft
  <2> QED BY <2>1 DEF Left
<1>3. Healthy(roster) <=>
        /\ writers # {} /\ \A l \in Lenses : critics(l) # {}
        /\ \A l \in Lenses, w \in writers : \E a \in critics(l) : IdentityOf[a] # IdentityOf[w]
  <2> HIDE DEF writers, critics
  <2>1. NoPoolEmptied(roster) <=> writers # {} /\ \A l \in Lenses : critics(l) # {}
    BY <1>2 DEF NoPoolEmptied
  <2>2. RosterHealthy(roster) <=>
          \A l \in Lenses, w \in writers : \E a \in critics(l) : IdentityOf[a] # IdentityOf[w]
    <3>1. ASSUME NEW l \in Lenses, NEW w \in writers
          PROVE  {IdentityOf[a] : a \in ToSet(roster.critics[l])} \ {IdentityOf[w]} # {}
                   <=> \E a \in critics(l) : IdentityOf[a] # IdentityOf[w]
      <4>1. PICK pool : pool = ToSet(roster.critics[l]) /\ pool = critics(l)
        BY <1>2
      <4>2. {IdentityOf[a] : a \in pool} \ {IdentityOf[w]} # {}
              <=> \E a \in pool : IdentityOf[a] # IdentityOf[w]
        OBVIOUS
      <4> QED BY <4>1, <4>2, Zenon
    <3>2. ToSet(roster.writers) = writers
      BY <1>2
    <3> QED BY <3>1, <3>2, Zenon DEF RosterHealthy
  <2> QED BY <2>1, <2>2 DEF Healthy
<1>4. WriterPool(down) # {} <=> writers # {}
  BY DEF WriterPool, WriterAliases
<1>5. \A l \in Lenses : critics(l) = {Critics[l][i] : i \in CriticPool(l, down)}
  BY DEF CriticPool, ToSet
<1>6. writers = {Writers[w] : w \in WriterPool(down)}
  BY DEF WriterPool, WriterAliases
<1>7. down \cup {} = down
  OBVIOUS
<1>8. Staffed(down, {}) <=>
        /\ writers # {}
        /\ \A l \in Lenses, w \in writers : \E a \in critics(l) : IdentityOf[a] # IdentityOf[w]
  <2> HIDE DEF writers, critics
  <2> QED BY <1>4, <1>5, <1>6, <1>7 DEF Staffed, Reader
<1> HIDE DEF writers, critics
<1> QED BY <1>1, <1>3, <1>8

(* What a healthy roster consists of.                                      *)
LEMMA HealthyRoster ==
  ASSUME NEW down \in SUBSET Aliases, Healthy(RosterWithout(down))
  PROVE  /\ RosterOf(RosterWithout(down)) = (WriterAliases \cup CriticAliases) \ down
         /\ OrchestratorAlias(RosterWithout(down)) \in Aliases \ down
<1>1. PICK roster : roster = RosterWithout(down)
  OBVIOUS
<1>2. /\ DOMAIN roster.critics = Lenses
      /\ roster.writers \in Seq(Aliases \ down)
      /\ ToSet(roster.writers) = WriterAliases \ down
      /\ \A l \in Lenses :
           ToSet(roster.critics[l]) = ToSet(Critics[l]) \ down
      /\ roster.orchestrator = IF Orchestrator \in down THEN "unset" ELSE Orchestrator
  <2>1. Left(roster, down)
    BY <1>1, RosterLeft
  <2> QED BY <2>1 DEF Left
<1>3. RosterOf(roster) = (WriterAliases \cup CriticAliases) \ down
  <2>1. CriticAliases = UNION {ToSet(Critics[l]) : l \in Lenses}
    BY DEF CriticAliases, ToSet
  <2>2. RosterOf(roster) =
          (WriterAliases \ down) \cup UNION {ToSet(Critics[l]) \ down : l \in Lenses}
    BY <1>2 DEF RosterOf
  <2> QED BY <2>1, <2>2
<1>4. roster.writers # << >>
  BY <1>1 DEF Healthy, NoPoolEmptied
<1>5. roster.writers[1] \in Aliases \ down
  BY <1>2, <1>4
<1>6. Orchestrator \in Aliases
  BY DEF Aliases
<1> QED BY <1>1, <1>2, <1>3, <1>5, <1>6 DEF OrchestratorAlias

-----------------------------------------------------------------------------
(* Whatever is waiting to be saved was earned.                             *)
GradeInv == DOMAIN audition = Auditioners /\ VerdictIsEarned

LEMMA MeasuredIsEarned ==
  ASSUME GradeInv, NEW p \in Auditioners, RunAudition(p)
  PROVE  GradeInv'
<1>1. PICK results \in [audition[p].due -> Graded] : \E cache :
        audition' = [audition EXCEPT ![p] =
          [at |-> "saving", due |-> audition[p].due, cache |-> cache,
           earned |-> \A s \in audition[p].due : Earned(results[s]),
           missed |-> audition[p].missed]]
  BY Zenon DEF RunAudition
<1>2. \A s \in audition[p].due : Earned(results[s])
  BY <1>1, ExamsAreEarned
<1>3. audition'[p].at = "saving" => audition'[p].earned
  <2>1. audition'[p].earned = (\A s \in audition[p].due : Earned(results[s]))
    BY <1>1 DEF GradeInv
  <2> QED BY <1>2, <2>1, Zenon
<1>4. ASSUME NEW q \in Auditioners, q # p PROVE audition'[q] = audition[q]
  BY <1>1, <1>4 DEF GradeInv
<1>5. DOMAIN audition' = Auditioners
  BY <1>1 DEF GradeInv
<1> QED BY <1>3, <1>4, <1>5, Zenon DEF GradeInv, VerdictIsEarned

LEMMA GradeStep == GradeInv /\ [Next]_vars => GradeInv'
<1> SUFFICES ASSUME GradeInv, [Next]_vars PROVE GradeInv'
  OBVIOUS
<1>1. ASSUME NEW p \in Auditioners, NEW a, a.at # "saving", audition' = [audition EXCEPT ![p] = a]
      PROVE  GradeInv'
  BY <1>1 DEF GradeInv, VerdictIsEarned
<1>2. ASSUME UNCHANGED audition PROVE GradeInv'
  BY <1>2 DEF GradeInv, VerdictIsEarned
<1>3. ASSUME NEW p \in Auditioners, ProbeAndLoad(p) PROVE GradeInv'
  <2>1. PICK a : a.at # "saving" /\ audition' = [audition EXCEPT ![p] = a]
    <3>1. PICK due, cache, modes, missed : audition' = [audition EXCEPT ![p] =
            IF due = {} THEN Resting
            ELSE [at |-> "measuring", due |-> due, cache |-> cache, day |-> day,
                  regime |-> regime, modes |-> modes, missed |-> missed]]
      BY <1>3, Zenon DEF ProbeAndLoad
    <3>2. PICK a : a = [at |-> "measuring", due |-> due, cache |-> cache, day |-> day,
                         regime |-> regime, modes |-> modes, missed |-> missed]
      OBVIOUS
    <3>3. a.at # "saving" /\ Resting.at # "saving"
      BY <3>2 DEF Resting
    <3>4. audition' = [audition EXCEPT ![p] = a] \/ audition' = [audition EXCEPT ![p] = Resting]
      BY <3>1, <3>2, Zenon
    <3> QED BY <3>3, <3>4, Zenon
  <2> QED BY <1>1, <2>1
<1>4. ASSUME NEW p \in Auditioners, Truncate(p) PROVE GradeInv'
  BY <1>4 DEF GradeInv, VerdictIsEarned, Truncate
<1>5. ASSUME NEW p \in Auditioners, Die(p) PROVE GradeInv'
  <2>1. Resting.at # "saving" /\ audition' = [audition EXCEPT ![p] = Resting]
    BY <1>5 DEF Die, Resting
  <2> QED BY <1>1, <2>1
<1>8. ASSUME NEW p \in Auditioners, SaveCache(p) PROVE GradeInv'
  <2>1. DOMAIN audition' = Auditioners
    BY <1>8 DEF SaveCache
  <2>2. ASSUME NEW q \in Auditioners
        PROVE  audition'[q].at = "saving" => audition'[q].earned
    <3>1. CASE q = p \/ audition[q] = Resting
      BY <1>8, <3>1 DEF SaveCache, Resting
    <3>2. CASE ~ (q = p \/ audition[q] = Resting)
      <4>1. audition'[q] = [audition[q] EXCEPT !.missed = @ \cup audition[p].due]
        BY <1>8, <3>2 DEF SaveCache
      <4>2. audition'[q].at = audition[q].at /\ audition'[q].earned = audition[q].earned
        BY <4>1
      <4>3. audition[q].at = "saving" => audition[q].earned
        BY DEF GradeInv, VerdictIsEarned
      <4> QED BY <4>2, <4>3, Zenon
    <3> QED BY <3>1, <3>2
  <2> QED BY <2>1, <2>2, Zenon DEF GradeInv, VerdictIsEarned
<1>6. CASE Release \/ DayPasses \/ ResolveFails \/ Gate \/ ProbeRoster \/ ProbeIncapable \/ BuildRuntime
  <2>1. UNCHANGED audition
    BY <1>6 DEF Release, DayPasses, ResolveFails, Gate, ProbeRoster, ProbeIncapable, BuildRuntime
  <2> QED BY <1>2, <2>1
<1>7. CASE UNCHANGED vars
  BY <1>2, <1>7 DEF vars
<1> QED BY <1>3, <1>4, <1>5, <1>6, <1>7, <1>8, MeasuredIsEarned DEF Next, Meanwhile

(* A verdict is what the critic showed: fit or marginal rests on a review  *)
(* of every fixture, an obvious defect seen and a sound report let through *)
(* however many calls failed; a critic that failed, missed and invented    *)
(* nothing is fit (audition.judge).                                        *)
THEOREM VerdictIsEarnedHolds == Spec => []VerdictIsEarned
<1>1. Init => GradeInv
  BY DEF Init, GradeInv, VerdictIsEarned, Resting
<1>2. GradeInv => VerdictIsEarned
  BY DEF GradeInv
<1> QED BY <1>1, <1>2, GradeStep, PTL DEF Spec

-----------------------------------------------------------------------------
(* The gate lets only a healthy roster be probed, and what starts is what  *)
(* the outage left of it, found healthy again.                             *)
StaffInv ==
  /\ start.at = "probing" => Healthy(Full)
  /\ start.at \in {"building", "started"} =>
       /\ start.down \in SUBSET Aliases /\ start.roster = RosterWithout(start.down)
       /\ Healthy(start.roster)
  /\ start.at = "refused" /\ start.code = "roster_unreachable" =>
       start.down \in SUBSET Aliases /\ ~ Healthy(RosterWithout(start.down))

LEMMA StaffStep == StaffInv /\ [Next]_vars => StaffInv'
<1> SUFFICES ASSUME StaffInv, [Next]_vars PROVE StaffInv'
  OBVIOUS
<1>1. ASSUME UNCHANGED start PROVE StaffInv'
  BY <1>1 DEF StaffInv
<1>2. CASE Gate
  <2>1. start'.at = "probing" \/ (start'.at = "refused" /\ start'.code = "startup_refused")
    BY <1>2 DEF Gate, Refused
  <2>2. start'.at = "probing" => Healthy(Full)
    BY <1>2 DEF Gate, Refused, Healthy
  <2> QED BY <2>1, <2>2 DEF StaffInv
<1>3. CASE ProbeRoster
  <2>1. PICK down \in Outages :
          start' = IF down = {} \/ Healthy(RosterWithout(down))
                   THEN [at |-> "building", roster |-> RosterWithout(down), down |-> down,
                         enforce |-> start.enforce, known |-> start.known, lost |-> start.lost]
                   ELSE [at |-> "refused", code |-> "roster_unreachable", down |-> down]
    BY <1>3 DEF ProbeRoster, Healthy
  <2>2. Healthy(RosterWithout({}))
    BY <1>3 DEF ProbeRoster, StaffInv, Full
  <2>3. down \in SUBSET Aliases
    BY StartupAssumption
  <2>4. CASE down = {} \/ Healthy(RosterWithout(down))
    BY <2>1, <2>2, <2>3, <2>4 DEF StaffInv
  <2>5. CASE ~ (down = {} \/ Healthy(RosterWithout(down)))
    BY <2>1, <2>3, <2>5 DEF StaffInv
  <2> QED BY <2>4, <2>5
<1>4. CASE BuildRuntime
  <2>1. PICK c \in Settings :
          \/ start' = Refused("startup_refused")
          \/ start' = [at |-> "started", roster |-> start.roster, down |-> start.down,
                       settings |-> c, clients |-> Clients(c),
                       enforce |-> start.enforce, known |-> start.known, lost |-> start.lost]
    BY <1>4 DEF BuildRuntime
  <2> QED BY <1>4, <2>1 DEF StaffInv, BuildRuntime, Refused
<1>5. CASE ResolveFails \/ ProbeIncapable
  BY <1>5 DEF StaffInv, ResolveFails, ProbeIncapable, Refused
<1>6. CASE Meanwhile \/ UNCHANGED vars
  <2>1. UNCHANGED start
    BY <1>6 DEF Meanwhile, ProbeAndLoad, RunAudition, Truncate, SaveCache, Die, Release, DayPasses, vars
  <2> QED BY <1>1, <2>1
<1> QED BY <1>2, <1>3, <1>4, <1>5, <1>6 DEF Next

(* An outage costs what it must and no more: a run starts only on aliases  *)
(* that answered, whoever is to write can be reviewed under every lens by  *)
(* another model, someone gives the polish advice; and a start is refused  *)
(* for an outage only when the aliases left cannot do that                 *)
(* (graph._degrade_roster).                                                *)
THEOREM DegradesExactlyHolds == Spec => []DegradesExactlyWhenStaffed
<1>1. Init => StaffInv
  BY DEF Init, StaffInv
<1>2. StaffInv => DegradesExactlyWhenStaffed
  BY HealthyIsStaffed, HealthyRoster DEF StaffInv, DegradesExactlyWhenStaffed
<1> QED BY <1>1, <1>2, StaffStep, PTL DEF Spec

(***************************************************************************)
(* The sweep spares the live, with one exception that SweepSparesTheLive   *)
(* names: a run that became live after the pass had asked who is.          *)
(***************************************************************************)

(* Whoever is live during a pass was live when it asked, or has joined     *)
(* since.  Purge takes no run of the answer, so what it takes from a live  *)
(* run it takes from one that joined.                                      *)
Covered == sweep.at # "asleep" => \A r \in Runs : Live(r) => r \in sweep.skip \cup joined

SweepTypes ==
  /\ status \in [Runs -> {"new", "queued", "running", "stopped"}]
  /\ old \subseteq Runs
  /\ \/ sweep = Asleep
     \/ sweep \in [at : {"listing"}, skip : SUBSET Runs]
     \/ sweep \in [at : {"purging"}, skip : SUBSET Runs, todo : SUBSET Runs]

SweepInv == SweepTypes /\ Covered /\ SweepSparesTheLive

-----------------------------------------------------------------------------
LEMMA SweepInitInv == SweepInit => SweepInv
  BY DEF SweepInit, SweepInv, SweepTypes, Covered, SweepSparesTheLive, Asleep, Live

(* A run that changes its status takes nothing from the sweep: it joins    *)
(* the live ones by Submit or Resume, which put it in the history.         *)
LEMMA RunStepKeeps ==
  ASSUME SweepInv, NEW r \in Runs,
         Submit(r) \/ Resume(r) \/ TakeRun(r) \/ WriteContent(r) \/ Stop(r) \/ Age(r)
  PROVE  SweepInv'
<1> USE DEF SweepInv, SweepTypes, Covered, SweepSparesTheLive, Live
<1>1. CASE Submit(r)
  BY <1>1 DEF Submit
<1>2. CASE Resume(r)
  BY <1>2 DEF Resume
<1>3. CASE TakeRun(r)
  BY <1>3 DEF TakeRun
<1>4. CASE WriteContent(r)
  BY <1>4 DEF WriteContent
<1>5. CASE Stop(r)
  BY <1>5 DEF Stop
<1>6. CASE Age(r)
  BY <1>6 DEF Age
<1> QED BY <1>1, <1>2, <1>3, <1>4, <1>5, <1>6

LEMMA SnapshotKeeps == ASSUME SweepInv, SnapshotLive PROVE SweepInv'
<1>1. sweep' = [at |-> "listing", skip |-> Active] /\ Active \subseteq Runs
      /\ \A r \in Runs : Live(r) => r \in Active
  BY DEF SnapshotLive, Active
<1>2. SweepTypes'
  BY <1>1 DEF SnapshotLive, SweepInv, SweepTypes
<1>3. Covered'
  BY <1>1 DEF SnapshotLive, Covered, Live
<1>4. SweepSparesTheLive'
  BY DEF SnapshotLive, SweepInv, SweepSparesTheLive
<1> QED BY <1>2, <1>3, <1>4 DEF SweepInv

LEMMA ListKeeps == ASSUME SweepInv, ListExpired PROVE SweepInv'
<1>1. sweep \in [at : {"listing"}, skip : SUBSET Runs]
  BY DEF ListExpired, SweepInv, SweepTypes, Asleep
<1> QED
  BY <1>1 DEF ListExpired, SweepInv, SweepTypes, Covered, SweepSparesTheLive, Live

LEMMA PurgeKeeps == ASSUME SweepInv, Purge PROVE SweepInv'
<1>1. sweep \in [at : {"purging"}, skip : SUBSET Runs, todo : SUBSET Runs]
  BY DEF Purge, SweepInv, SweepTypes, Asleep
<1>2. PICK r \in sweep.todo :
        /\ sweep' = [sweep EXCEPT !.todo = @ \ {r}]
        /\ old' = IF r \notin sweep.skip THEN old \ {r} ELSE old
        /\ broken' = IF r \notin sweep.skip /\ Live(r)
                     THEN broken \cup {[run |-> r, joined |-> r \in joined]} ELSE broken
  BY DEF Purge
<1>3. r \in Runs
  BY <1>1, <1>2
<1>4. status' = status /\ joined' = joined
  BY DEF Purge
<1>5. SweepTypes'
  BY <1>1, <1>2, <1>4 DEF SweepInv, SweepTypes
<1>6. Covered'
  BY <1>1, <1>2, <1>4 DEF SweepInv, Covered, Live
<1>7. SweepSparesTheLive'
  <2>1. CASE r \notin sweep.skip /\ Live(r)
    <3>1. r \in joined
      BY <1>1, <1>3, <2>1 DEF SweepInv, Covered
    <3>2. broken' = broken \cup {[run |-> r, joined |-> r \in joined]}
      BY <1>2, <2>1
    <3>3. [run |-> r, joined |-> r \in joined].joined = (r \in joined)
      OBVIOUS
    <3>4. ASSUME NEW b \in broken' PROVE b.joined
      <4>1. CASE b \in broken
        BY <4>1 DEF SweepInv, SweepSparesTheLive
      <4>2. CASE b = [run |-> r, joined |-> r \in joined]
        BY <4>2, <3>1, <3>3, Zenon
      <4> QED BY <3>2, <3>4, <4>1, <4>2
    <3> QED BY <3>4 DEF SweepSparesTheLive
  <2>2. CASE ~ (r \notin sweep.skip /\ Live(r))
    BY <1>2, <2>2 DEF SweepInv, SweepSparesTheLive
  <2> QED BY <2>1, <2>2
<1> QED BY <1>5, <1>6, <1>7 DEF SweepInv

LEMMA SweepStep == SweepInv /\ [SweepNext]_sweepVars => SweepInv'
<1> SUFFICES ASSUME SweepInv, [SweepNext]_sweepVars PROVE SweepInv'
  OBVIOUS
<1>1. CASE Rest
  BY <1>1 DEF Rest, SweepInv, SweepTypes, Covered, SweepSparesTheLive, Asleep, Live
<1>2. CASE UNCHANGED sweepVars
  BY <1>2 DEF sweepVars, SweepInv, SweepTypes, Covered, SweepSparesTheLive, Live
<1> QED
  BY <1>1, <1>2, RunStepKeeps, SnapshotKeeps, ListKeeps, PurgeKeeps DEF SweepNext

(* However many runs there are, whoever submits or resumes them while the  *)
(* pass of RetentionSweeper.sweep_once is under way: a run that was live   *)
(* when the pass began and stayed so keeps its drafts.                     *)
THEOREM TheLiveKeepTheirDrafts == SweepSpec => []SweepSparesTheLive
<1>1. SweepSpec => []SweepInv
  BY SweepInitInv, SweepStep, PTL DEF SweepSpec
<1>2. SweepInv => SweepSparesTheLive
  BY DEF SweepInv
<1> QED BY <1>1, <1>2, PTL

-----------------------------------------------------------------------------
(***************************************************************************)
(* A device follows the identity it was last signed in as.  A row is never *)
(* farther from the end of its owner's list than there were registrations  *)
(* of that owner after it, so the cap cannot have dropped it before        *)
(* MaxPerIdentity newer ones were made.                                    *)
(***************************************************************************)
Stands(seq, e, d) == \E k \in 1..Len(seq) : seq[k] = e /\ Len(seq) - k <= d

Claim == {Nobody} \cup [who : Owners, at : Nat]
Sending == [todo : Seq(Endpoints), lost : SUBSET Endpoints]

DeviceTypes ==
  /\ rows \in [Owners -> Seq(Endpoints)]
  /\ claimant \in [Endpoints -> Claim] /\ clocked \in [Owners -> Nat]
  /\ notice \in [Notifiers -> {NoNotice} \cup Sending]

(* No other identity has the row; and a host outside the allowlist is      *)
(* registered by nobody.                                                   *)
OthersLackIt(e, i) == claimant[e].who = i =>
  e \notin Strangers /\ \A j \in Owners \ {i} : ~ Contains(rows[j], e)

OwnerHasIt(e, i) ==
  claimant[e].who = i /\ e \notin dead /\ clocked[i] < claimant[e].at + MaxPerIdentity =>
    Stands(rows[i], e, clocked[i] - claimant[e].at)

NoneStrays(n) == notice[n] # NoNotice =>
  \A k \in 1..Len(notice[n].todo) : notice[n].todo[k] \notin notice[n].lost

DeviceInv ==
  /\ DeviceTypes /\ ~ strayed
  /\ \A e \in Endpoints, i \in Owners : OthersLackIt(e, i) /\ OwnerHasIt(e, i)
  /\ \A n \in Notifiers : NoneStrays(n)

LEMMA StaysAsNear ==
  ASSUME NEW seq \in Seq(Endpoints), NEW e \in Endpoints, NEW f \in Endpoints, f # e,
         NEW d \in Int, Stands(seq, f, d)
  PROVE  Stands(Only(seq, Endpoints \ {e}), f, d)
<1> DEFINE left == Only(seq, Endpoints \ {e})
<1>1. PICK k \in 1..Len(seq) : seq[k] = f /\ Len(seq) - k <= d
  BY DEF Stands
<1>2. seq[k] \in Endpoints \ {e}
  BY <1>1
<1>3. left \in Seq(Endpoints \cap (Endpoints \ {e})) /\ NoFarther(seq, k, left, Endpoints \ {e})
  BY OnlyKeeps
<1> HIDE DEF left
<1>4. PICK j \in 1..Len(left) : left[j] = seq[k] /\ Len(left) - j <= Len(seq) - k
  BY <1>2, <1>3 DEF NoFarther
<1>5. Len(left) \in Nat /\ Len(seq) \in Nat
  BY <1>3
<1>6. Len(left) - j <= d
  BY <1>1, <1>4, <1>5
<1> QED BY <1>1, <1>4, <1>6 DEF Stands, left

LEMMA OneFarther ==
  ASSUME NEW seq \in Seq(Endpoints), NEW e \in Endpoints, NEW f, NEW d \in Int,
         Stands(seq, f, d)
  PROVE  Stands(Append(seq, e), f, d + 1)
<1>1. PICK k \in 1..Len(seq) : seq[k] = f /\ Len(seq) - k <= d
  BY DEF Stands
<1>2. Append(seq, e)[k] = f /\ Len(Append(seq, e)) = Len(seq) + 1 /\ Len(seq) \in Nat
  BY <1>1, AppendProperties
<1> QED BY <1>1, <1>2 DEF Stands

(* The cap drops from the front, so what is near the end stays.            *)
LEMMA CapKeeps ==
  ASSUME NEW seq \in Seq(Endpoints)
  PROVE  /\ Newest(seq) \in Seq(Endpoints)
         /\ \A k \in 1..Len(Newest(seq)) : \E j \in 1..Len(seq) : Newest(seq)[k] = seq[j]
         /\ \A f, d : d \in Int /\ d < MaxPerIdentity /\ Stands(seq, f, d)
                        => Stands(Newest(seq), f, d)
<1>1. MaxPerIdentity \in Nat \ {0} /\ Len(seq) \in Nat
  BY DevicesAssumption
<1>2. CASE Len(seq) <= MaxPerIdentity
  BY <1>2 DEF Newest
<1>3. CASE ~ (Len(seq) <= MaxPerIdentity)
  <2> DEFINE m == Len(seq) - MaxPerIdentity + 1
             cut == SubSeq(seq, m, Len(seq))
  <2>1. Newest(seq) = cut
    BY <1>3 DEF Newest
  <2>2. m \in 1..(Len(seq) + 1) /\ Len(seq) \in m-1..Len(seq)
    BY <1>1, <1>3
  <2>3. /\ cut \in Seq(Endpoints)
        /\ Len(cut) = MaxPerIdentity
        /\ \A k \in 1..MaxPerIdentity : cut[k] = seq[m + k - 1]
    <3>1. /\ cut \in Seq(Endpoints)
          /\ Len(cut) = IF m <= Len(seq) THEN Len(seq) - m + 1 ELSE 0
          /\ \A k \in 1 .. Len(seq) - m + 1 : cut[k] = seq[m + k - 1]
      <4> HIDE DEF m
      <4> QED BY <2>2, SubSeqProperties
    <3>2. Len(seq) - m + 1 = MaxPerIdentity /\ m <= Len(seq)
      BY <1>1, <1>3
    <3> HIDE DEF m, cut
    <3> QED BY <3>1, <3>2
  <2> HIDE DEF cut
  <2>4. ASSUME NEW k \in 1..Len(cut) PROVE \E j \in 1..Len(seq) : cut[k] = seq[j]
    <3>1. m + k - 1 \in 1..Len(seq) /\ cut[k] = seq[m + k - 1]
      BY <1>1, <1>3, <2>3
    <3> QED BY <3>1
  <2>5. ASSUME NEW f, NEW d \in Int, d < MaxPerIdentity, Stands(seq, f, d)
        PROVE  Stands(cut, f, d)
    <3>1. PICK k \in 1..Len(seq) : seq[k] = f /\ Len(seq) - k <= d
      BY <2>5 DEF Stands
    <3> DEFINE j == k - m + 1
    <3>2. j \in 1..MaxPerIdentity /\ MaxPerIdentity - j <= d /\ m + j - 1 = k
      BY <1>1, <1>3, <2>5, <3>1
    <3> HIDE DEF j
    <3>3. cut[j] = f
      BY <2>3, <3>1, <3>2
    <3> QED BY <2>3, <3>2, <3>3 DEF Stands
  <2> QED BY <2>1, <2>3, <2>4, <2>5
<1> QED BY <1>2, <1>3

LEMMA DeviceInit == DevicesInit => DeviceInv
<1> SUFFICES ASSUME DevicesInit PROVE DeviceInv
  OBVIOUS
<1>1. PICK i \in Owners, first \in {<< >>} \cup {<<s>> : s \in Strangers} :
        rows = [j \in Owners |-> IF j = i THEN first ELSE << >>]
  BY DEF DevicesInit
<1>2. first \in Seq(Endpoints)
  <2>1. ASSUME NEW s \in Strangers PROVE <<s>> \in Seq(Endpoints)
    <3>1. s \in Endpoints
      BY DevicesAssumption
    <3> QED BY <3>1
  <2>2. << >> \in Seq(Endpoints)
    OBVIOUS
  <2>3. first = << >> \/ \E s \in Strangers : first = <<s>>
    OBVIOUS
  <2> QED BY <2>1, <2>2, <2>3, Zenon
<1>3. DeviceTypes
  BY <1>1, <1>2 DEF DevicesInit, DeviceTypes, Claim
<1>4. \A e \in Endpoints, j \in Owners : claimant[e].who # j
  BY DevicesAssumption DEF DevicesInit, Nobody
<1> QED
  BY <1>3, <1>4 DEF DevicesInit, DeviceInv, OthersLackIt, OwnerHasIt, NoneStrays

(* What a claim left behind, of the other devices.                         *)
LEMMA ClaimedRows ==
  ASSUME DeviceTypes, NEW i \in Owners, NEW e \in Endpoints
  PROVE  /\ Claimed(i, e) \in [Owners -> Seq(Endpoints)]
         /\ Claimed(i, e)[i] = Newest(Append(Only(rows[i], Endpoints \ {e}), e))
         /\ \A j \in Owners \ {i} : Claimed(i, e)[j] = Only(rows[j], Endpoints \ {e})
<1> DEFINE freed == [j \in Owners |-> Only(rows[j], Endpoints \ {e})]
<1>1. freed \in [Owners -> Seq(Endpoints)]
  <2>1. \A j \in Owners : Only(rows[j], Endpoints \ {e}) \in Seq(Endpoints)
    <3> TAKE j \in Owners
    <3>1. rows[j] \in Seq(Endpoints)
      BY DEF DeviceTypes
    <3>2. Only(rows[j], Endpoints \ {e}) \in Seq(Endpoints \cap (Endpoints \ {e}))
      BY <3>1, OnlyKeeps
    <3> QED BY <3>2, SeqMonotonic
  <2> QED BY <2>1
<1>2. Newest(Append(freed[i], e)) \in Seq(Endpoints)
  <2>1. Append(freed[i], e) \in Seq(Endpoints)
    BY <1>1, AppendProperties
  <2> QED BY <2>1, CapKeeps
<1>3. Claimed(i, e) = [freed EXCEPT ![i] = Newest(Append(freed[i], e))]
  BY DEF Claimed
<1> QED BY <1>1, <1>2, <1>3

(* A row that is left was there before.                                    *)
LEMMA OnlyContains ==
  ASSUME NEW seq \in Seq(Endpoints), NEW e, NEW f, Contains(Only(seq, Endpoints \ {e}), f)
  PROVE  f # e /\ Contains(seq, f)
<1> DEFINE left == Only(seq, Endpoints \ {e})
<1>1. left \in Seq(Endpoints \cap (Endpoints \ {e}))
  BY OnlyKeeps
<1>4. \A j \in 1..Len(left) : \E k \in 1..Len(seq) : left[j] = seq[k]
  BY OnlyKeeps DEF ComesFrom
<1>2. PICK j \in 1..Len(left) : left[j] = f
  BY DEF Contains
<1> HIDE DEF left
<1>3. f \in Endpoints \ {e}
  BY <1>1, <1>2
<1> QED BY <1>2, <1>3, <1>4 DEF Contains

LEMMA SubscribeKeeps ==
  ASSUME DeviceInv, NEW i \in Owners, NEW e \in Endpoints, Subscribe(i, e)
  PROVE  DeviceInv'
<1>1. /\ e \notin Strangers /\ rows' = Claimed(i, e)
      /\ clocked' = [clocked EXCEPT ![i] = clocked[i] + 1]
      /\ claimant' = [claimant EXCEPT ![e] = [who |-> i, at |-> clocked[i] + 1]]
      /\ UNCHANGED <<notice, dead, strayed>>
  BY DEF Subscribe
<1>2. DeviceTypes /\ ~ strayed
  BY DEF DeviceInv
<1>3. /\ rows' \in [Owners -> Seq(Endpoints)]
      /\ rows'[i] = Newest(Append(Only(rows[i], Endpoints \ {e}), e))
      /\ \A j \in Owners \ {i} : rows'[j] = Only(rows[j], Endpoints \ {e})
  BY <1>1, <1>2, ClaimedRows
<1>4. MaxPerIdentity \in Nat \ {0}
  BY DevicesAssumption
<1>5. DeviceTypes'
  BY <1>1, <1>2, <1>3 DEF DeviceTypes, Claim
<1> DEFINE cleared == Only(rows[i], Endpoints \ {e})
           longer == Append(cleared, e)
<1>6. rows[i] \in Seq(Endpoints) /\ cleared \in Seq(Endpoints)
  <2>1. rows[i] \in Seq(Endpoints)
    BY <1>2 DEF DeviceTypes
  <2>2. cleared \in Seq(Endpoints \cap (Endpoints \ {e}))
    BY <2>1, OnlyKeeps
  <2> QED BY <2>1, <2>2, SeqMonotonic
<1>7. longer \in Seq(Endpoints) /\ Len(longer) = Len(cleared) + 1 /\ Len(cleared) \in Nat
      /\ (\A k \in 1..Len(cleared) : longer[k] = cleared[k]) /\ longer[Len(longer)] = e
  <2> HIDE DEF cleared
  <2> QED BY <1>6, AppendProperties
<1>8. rows'[i] = Newest(longer)
  BY <1>3
<1> HIDE DEF longer
<1>9. ASSUME NEW f \in Endpoints, NEW j \in Owners, Contains(rows'[j], f)
      PROVE  (f = e /\ j = i) \/ (f # e /\ Contains(rows[j], f))
  <2>1. rows[j] \in Seq(Endpoints)
    BY <1>2 DEF DeviceTypes
  <2>2. CASE j # i
    BY <1>3, <1>9, <2>1, <2>2, OnlyContains
  <2>3. CASE j = i
    <3>1. PICK k \in 1..Len(Newest(longer)) : Newest(longer)[k] = f
      BY <1>8, <1>9, <2>3 DEF Contains
    <3>2. PICK l \in 1..Len(longer) : longer[l] = f
      BY <1>7, <3>1, CapKeeps
    <3>3. CASE l = Len(longer)
      BY <1>7, <2>3, <3>2, <3>3
    <3>4. CASE l # Len(longer)
      <4>1. Contains(cleared, f)
        <5> HIDE DEF cleared
        <5>1. l \in 1..Len(cleared) /\ cleared[l] = f
          BY <1>7, <3>2, <3>4
        <5> QED BY <5>1 DEF Contains
      <4> QED BY <2>1, <2>3, <4>1, OnlyContains
    <3> QED BY <3>3, <3>4
  <2> QED BY <2>2, <2>3
<1>10. ASSUME NEW f \in Endpoints, NEW j \in Owners
       PROVE  OthersLackIt(f, j)'
  <2>1. CASE f = e
    <3>1. claimant'[f].who = i
      BY <1>1, <1>2, <2>1 DEF DeviceTypes
    <3> QED BY <1>1, <1>9, <2>1, <3>1 DEF OthersLackIt
  <2>2. CASE f # e
    <3>1. claimant'[f] = claimant[f]
      BY <1>1, <1>2, <2>2 DEF DeviceTypes
    <3> QED BY <1>9, <2>2, <3>1 DEF OthersLackIt, DeviceInv
  <2> QED BY <2>1, <2>2
<1>11. ASSUME NEW f \in Endpoints, NEW j \in Owners
       PROVE  OwnerHasIt(f, j)'
  <2> SUFFICES ASSUME claimant'[f].who = j, f \notin dead,
                      clocked'[j] < claimant'[f].at + MaxPerIdentity
               PROVE  Stands(rows'[j], f, clocked'[j] - claimant'[f].at)
    BY <1>1 DEF OwnerHasIt
  <2>1. CASE f = e
    <3>1. claimant'[f] = [who |-> i, at |-> clocked[i] + 1]
      BY <1>1, <1>2, <2>1 DEF DeviceTypes
    <3>2. j = i /\ clocked'[j] - claimant'[f].at = 0
      BY <1>1, <1>2, <3>1 DEF DeviceTypes
    <3>3. Stands(longer, e, 0)
      <4>1. Len(longer) \in 1..Len(longer) /\ longer[Len(longer)] = e /\ Len(longer) - Len(longer) <= 0
        BY <1>7
      <4> QED BY <4>1 DEF Stands
    <3>4. Stands(Newest(longer), e, 0)
      BY <1>4, <1>7, <3>3, CapKeeps
    <3> QED BY <1>8, <2>1, <3>2, <3>4
  <2>2. CASE f # e
    <3>1. claimant'[f] = claimant[f]
      BY <1>1, <1>2, <2>2 DEF DeviceTypes
    <3>2. claimant[f] \in Claim /\ claimant[f].who = j /\ claimant[f].who # "nobody"
      BY <1>2, <3>1, DevicesAssumption DEF DeviceTypes
    <3>3. claimant[f].at \in Nat /\ clocked[j] \in Nat /\ clocked[i] \in Nat
      BY <1>2, <3>2 DEF DeviceTypes, Claim, Nobody
    <3> DEFINE d == clocked[j] - claimant[f].at
    <3>4. clocked'[j] = IF j = i THEN clocked[j] + 1 ELSE clocked[j]
      BY <1>1, <1>2 DEF DeviceTypes
    <3>5. clocked[j] < claimant[f].at + MaxPerIdentity /\ d \in Int
      BY <1>4, <3>1, <3>3, <3>4
    <3>6. Stands(rows[j], f, d)
      BY <3>2, <3>5 DEF DeviceInv, OwnerHasIt
    <3>7. Stands(Only(rows[j], Endpoints \ {e}), f, d)
      <4>1. rows[j] \in Seq(Endpoints)
        BY <1>2 DEF DeviceTypes
      <4> HIDE DEF d
      <4> QED BY <2>2, <3>5, <3>6, <4>1, StaysAsNear
    <3>8. CASE j # i
      BY <1>3, <3>1, <3>4, <3>7, <3>8
    <3>9. CASE j = i
      <4>1. Stands(longer, f, d + 1)
        <5> HIDE DEF d
        <5>1. Stands(cleared, f, d)
          BY <3>7, <3>9
        <5> HIDE DEF cleared
        <5> QED BY <1>6, <3>5, <5>1, OneFarther DEF longer
      <4>2. d + 1 \in Int /\ d + 1 < MaxPerIdentity /\ clocked'[j] - claimant'[f].at = d + 1
        BY <1>4, <3>1, <3>3, <3>4, <3>9
      <4> HIDE DEF d
      <4>3. Stands(Newest(longer), f, d + 1)
        BY <1>7, <4>1, <4>2, CapKeeps
      <4> QED BY <1>8, <3>9, <4>2, <4>3
    <3> QED BY <3>8, <3>9
  <2> QED BY <2>1, <2>2
<1>12. \A n \in Notifiers : NoneStrays(n)'
  BY <1>1 DEF DeviceInv, NoneStrays
<1> QED BY <1>1, <1>2, <1>5, <1>10, <1>11, <1>12 DEF DeviceInv

(* A row that is dropped takes nothing from the other devices.             *)
LEMMA DroppingKeeps ==
  ASSUME DeviceTypes, NEW e \in Endpoints, NEW S \in SUBSET Owners,
         rows' = [j \in Owners |-> IF j \in S THEN Only(rows[j], Endpoints \ {e}) ELSE rows[j]]
  PROVE  /\ rows' \in [Owners -> Seq(Endpoints)]
         /\ \A j \in Owners, f \in Endpoints : Contains(rows'[j], f) => Contains(rows[j], f)
         /\ \A j \in Owners, f \in Endpoints \ {e}, d \in Int :
              Stands(rows[j], f, d) => Stands(rows'[j], f, d)
<1>1. \A j \in Owners : rows[j] \in Seq(Endpoints)
  BY DEF DeviceTypes
<1>2. ASSUME NEW j \in Owners PROVE Only(rows[j], Endpoints \ {e}) \in Seq(Endpoints)
  <2>1. Only(rows[j], Endpoints \ {e}) \in Seq(Endpoints \cap (Endpoints \ {e}))
    BY <1>1, OnlyKeeps
  <2> QED BY <2>1, SeqMonotonic
<1>3. rows' \in [Owners -> Seq(Endpoints)]
  BY <1>1, <1>2
<1>4. ASSUME NEW j \in Owners, NEW f \in Endpoints, Contains(rows'[j], f)
      PROVE  Contains(rows[j], f)
  BY <1>1, <1>4, OnlyContains
<1>5. ASSUME NEW j \in Owners, NEW f \in Endpoints \ {e}, NEW d \in Int, Stands(rows[j], f, d)
      PROVE  Stands(rows'[j], f, d)
  BY <1>1, <1>5, StaysAsNear
<1> QED BY <1>3, <1>4, <1>5

LEMMA UnsubscribeKeeps ==
  ASSUME DeviceInv, NEW i \in Owners, NEW e \in Endpoints, Unsubscribe(i, e)
  PROVE  DeviceInv'
<1>1. /\ Contains(rows[i], e) /\ rows' = [rows EXCEPT ![i] = Only(rows[i], Endpoints \ {e})]
      /\ claimant' = [claimant EXCEPT ![e] = IF claimant[e].who = i THEN Nobody ELSE claimant[e]]
      /\ UNCHANGED <<notice, dead, clocked, strayed>>
  BY DEF Unsubscribe
<1>2. DeviceTypes /\ ~ strayed
  BY DEF DeviceInv
<1>3. /\ rows' \in [Owners -> Seq(Endpoints)]
      /\ \A j \in Owners, f \in Endpoints : Contains(rows'[j], f) => Contains(rows[j], f)
      /\ \A j \in Owners, f \in Endpoints \ {e}, d \in Int :
           Stands(rows[j], f, d) => Stands(rows'[j], f, d)
  <2>1. rows' = [j \in Owners |-> IF j \in {i} THEN Only(rows[j], Endpoints \ {e}) ELSE rows[j]]
    BY <1>1, <1>2 DEF DeviceTypes
  <2>2. {i} \in SUBSET Owners
    OBVIOUS
  <2> QED BY <1>2, <2>1, <2>2, DroppingKeeps
<1>4. DeviceTypes'
  BY <1>1, <1>2, <1>3 DEF DeviceTypes, Claim
<1>5. ASSUME NEW j \in Owners PROVE claimant'[e].who # j
  <2>1. claimant'[e] = IF claimant[e].who = i THEN Nobody ELSE claimant[e]
    BY <1>1, <1>2 DEF DeviceTypes
  <2>2. Nobody.who # j
    BY DevicesAssumption DEF Nobody
  <2>3. claimant[e].who = j => j = i
    BY <1>1 DEF DeviceInv, OthersLackIt
  <2> QED BY <2>1, <2>2, <2>3
<1>6. ASSUME NEW f \in Endpoints \ {e}, NEW j \in Owners, claimant'[f].who = j
      PROVE  claimant'[f] = claimant[f] /\ claimant[f].at \in Nat /\ clocked[j] \in Nat
  <2>1. claimant'[f] = claimant[f] /\ claimant[f] \in Claim
    BY <1>1, <1>2 DEF DeviceTypes
  <2> QED BY <1>2, <1>6, <2>1, DevicesAssumption DEF DeviceTypes, Claim, Nobody
<1>7. ASSUME NEW f \in Endpoints, NEW j \in Owners PROVE OthersLackIt(f, j)' /\ OwnerHasIt(f, j)'
  <2>1. CASE f = e
    BY <1>5, <2>1 DEF OthersLackIt, OwnerHasIt
  <2>2. CASE f # e
    <3> SUFFICES ASSUME claimant'[f].who = j PROVE OthersLackIt(f, j)' /\ OwnerHasIt(f, j)'
      BY DEF OthersLackIt, OwnerHasIt
    <3>1. claimant'[f] = claimant[f] /\ clocked[j] - claimant[f].at \in Int
      BY <1>6, <2>2
    <3>2. OthersLackIt(f, j) /\ OwnerHasIt(f, j)
      BY DEF DeviceInv
    <3> QED BY <1>1, <1>3, <2>2, <3>1, <3>2 DEF OthersLackIt, OwnerHasIt
  <2> QED BY <2>1, <2>2
<1>8. \A n \in Notifiers : NoneStrays(n)'
  BY <1>1 DEF DeviceInv, NoneStrays
<1> QED BY <1>1, <1>2, <1>4, <1>7, <1>8 DEF DeviceInv

LEMMA LapseKeeps ==
  ASSUME DeviceInv, NEW e \in Endpoints, Lapse(e)
  PROVE  DeviceInv'
<1>1. dead' = dead \cup {e} /\ UNCHANGED <<rows, notice, claimant, clocked, strayed>>
  BY DEF Lapse, ownership
<1> QED BY <1>1 DEF DeviceInv, DeviceTypes, OthersLackIt, OwnerHasIt, NoneStrays

LEMMA StoppedKeeps ==
  ASSUME DeviceInv, NEW n \in Notifiers, NEW i \in Owners, Stopped(n, i)
  PROVE  DeviceInv'
<1> DEFINE lost == {e \in Endpoints : claimant[e].who \in Owners \ {i}}
           sent == IF rows[i] = << >> THEN NoNotice ELSE [todo |-> rows[i], lost |-> lost]
<1>1. notice' = [notice EXCEPT ![n] = sent] /\ UNCHANGED <<rows, dead, claimant, clocked, strayed>>
  BY DEF Stopped, ownership
<1>2. DeviceTypes /\ ~ strayed
  BY DEF DeviceInv
<1>3. rows[i] \in Seq(Endpoints) /\ lost \in SUBSET Endpoints
  BY <1>2 DEF DeviceTypes
<1>4. \A k \in 1..Len(rows[i]) : rows[i][k] \notin lost
  <2> TAKE k \in 1..Len(rows[i])
  <2>1. rows[i][k] \in Endpoints /\ Contains(rows[i], rows[i][k])
    BY <1>3 DEF Contains
  <2> QED BY <2>1 DEF DeviceInv, OthersLackIt
<1> HIDE DEF lost
<1>5. sent \in {NoNotice} \cup Sending
  BY <1>3 DEF Sending
<1>6. sent # NoNotice => sent.todo = rows[i] /\ sent.lost = lost
  OBVIOUS
<1> HIDE DEF sent
<1>7. DeviceTypes'
  BY <1>1, <1>2, <1>5 DEF DeviceTypes
<1>8. \A m \in Notifiers : NoneStrays(m)'
  BY <1>1, <1>2, <1>4, <1>6 DEF DeviceInv, DeviceTypes, NoneStrays
<1> QED BY <1>1, <1>2, <1>7, <1>8 DEF DeviceInv, OthersLackIt, OwnerHasIt

LEMMA DeliverKeeps ==
  ASSUME DeviceInv, NEW n \in Notifiers, Deliver(n)
  PROVE  DeviceInv'
<1> DEFINE e == Head(notice[n].todo)
           rest == Tail(notice[n].todo)
           next == IF rest = << >> THEN NoNotice ELSE [notice[n] EXCEPT !.todo = rest]
<1>1. DeviceTypes /\ ~ strayed
  BY DEF DeviceInv
<1>2. notice[n].todo # << >> /\ notice' = [notice EXCEPT ![n] = next]
      /\ UNCHANGED <<dead, claimant, clocked>>
  BY DEF Deliver
<1>3. notice[n] \in Sending /\ notice[n] # NoNotice
  BY <1>1, <1>2 DEF DeviceTypes, NoNotice
<1>4. e \in Endpoints /\ rest \in Seq(Endpoints) /\ Len(rest) = Len(notice[n].todo) - 1
      /\ \A k \in 1..Len(rest) : rest[k] = notice[n].todo[k + 1]
  BY <1>2, <1>3, HeadTailProperties DEF Sending
<1>5. e \notin notice[n].lost
  <2>1. e = notice[n].todo[1] /\ 1 \in 1..Len(notice[n].todo)
    BY <1>2, <1>3 DEF Sending
  <2> QED BY <1>3, <2>1 DEF DeviceInv, NoneStrays
<1>6. /\ next \in {NoNotice} \cup Sending
      /\ next # NoNotice => next.todo = rest /\ next.lost = notice[n].lost
  BY <1>3, <1>4 DEF Sending
<1>7. \/ e \in Strangers \cup dead /\ rows' = Pruned(e) /\ strayed' = strayed
      \/ rows' = rows /\ strayed' = strayed
      \/ rows' = rows /\ strayed' = (strayed \/ e \in notice[n].lost)
  BY DEF Deliver
<1>8. ~ strayed'
  BY <1>1, <1>5, <1>7, Zenon
<1>9. ASSUME NEW m \in Notifiers PROVE NoneStrays(m)'
  <2>1. CASE m # n
    BY <1>1, <1>2, <2>1 DEF DeviceInv, DeviceTypes, NoneStrays
  <2>2. CASE m = n
    <3>1. notice'[n] = next
      BY <1>1, <1>2 DEF DeviceTypes
    <3> HIDE DEF next
    <3>2. ASSUME NEW k \in 1..Len(rest) PROVE rest[k] \notin notice[n].lost
      <4>1. k + 1 \in 1..Len(notice[n].todo) /\ rest[k] = notice[n].todo[k + 1]
        BY <1>3, <1>4 DEF Sending
      <4> QED BY <1>3, <4>1 DEF DeviceInv, NoneStrays
    <3> QED BY <1>6, <2>2, <3>1, <3>2 DEF NoneStrays
  <2> QED BY <2>1, <2>2
<1>10. notice' \in [Notifiers -> {NoNotice} \cup Sending]
  <2> HIDE DEF next
  <2> QED BY <1>1, <1>2, <1>6 DEF DeviceTypes
<1> HIDE DEF e, next, rest
<1>11. CASE rows' = rows
  BY <1>1, <1>2, <1>8, <1>9, <1>10, <1>11
  DEF DeviceInv, DeviceTypes, OthersLackIt, OwnerHasIt
<1>12. CASE e \in Strangers \cup dead /\ rows' = Pruned(e)
  <2>1. /\ rows' \in [Owners -> Seq(Endpoints)]
        /\ \A j \in Owners, f \in Endpoints : Contains(rows'[j], f) => Contains(rows[j], f)
        /\ \A j \in Owners, f \in Endpoints \ {e}, d \in Int :
             Stands(rows[j], f, d) => Stands(rows'[j], f, d)
    <3>1. rows' = [j \in Owners |->
                     IF j \in Owners THEN Only(rows[j], Endpoints \ {e}) ELSE rows[j]]
      BY <1>12 DEF Pruned
    <3> QED BY <1>1, <1>4, <3>1, DroppingKeeps
  <2>2. DeviceTypes'
    BY <1>1, <1>2, <1>10, <2>1 DEF DeviceTypes
  <2>3. ASSUME NEW f \in Endpoints, NEW j \in Owners, claimant[f].who = j
        PROVE  OthersLackIt(f, j)' /\ OwnerHasIt(f, j)'
    <3>1. OthersLackIt(f, j) /\ OwnerHasIt(f, j)
      BY DEF DeviceInv
    <3>2. clocked[j] - claimant[f].at \in Int
      <4>1. claimant[f] \in Claim
        BY <1>1 DEF DeviceTypes
      <4> QED BY <1>1, <2>3, <4>1, DevicesAssumption DEF DeviceTypes, Claim, Nobody
    <3>3. f \notin dead => f # e
      BY <1>12, <2>3, <3>1 DEF OthersLackIt
    <3> QED BY <1>2, <2>1, <3>1, <3>2, <3>3 DEF OthersLackIt, OwnerHasIt
  <2>4. ASSUME NEW f \in Endpoints, NEW j \in Owners
        PROVE  OthersLackIt(f, j)' /\ OwnerHasIt(f, j)'
    BY <1>2, <2>3 DEF OthersLackIt, OwnerHasIt
  <2> QED BY <1>8, <1>9, <2>2, <2>4 DEF DeviceInv
<1> QED BY <1>7, <1>11, <1>12 DEF e

LEMMA RestartKeeps == ASSUME DeviceInv, Restart PROVE DeviceInv'
<1>1. notice' = [m \in Notifiers |-> NoNotice] /\ UNCHANGED <<rows, dead, claimant, clocked, strayed>>
  BY DEF Restart, ownership
<1> QED BY <1>1 DEF DeviceInv, DeviceTypes, OthersLackIt, OwnerHasIt, NoneStrays

LEMMA DevicesStep == DeviceInv /\ [DevicesNext]_deviceVars => DeviceInv'
<1>1. DeviceInv /\ UNCHANGED deviceVars => DeviceInv'
  BY DEF deviceVars, store, ownership, DeviceInv, DeviceTypes, OthersLackIt, OwnerHasIt, NoneStrays
<1> QED
  BY <1>1, SubscribeKeeps, UnsubscribeKeeps, LapseKeeps, StoppedKeeps, DeliverKeeps, RestartKeeps
  DEF DevicesNext

(* However registrations, withdrawals, notices under way and restarts      *)
(* follow each other: a device stands under no identity but the one it was *)
(* last signed in as, it stands there until that identity has registered   *)
(* MaxPerIdentity newer ones, and no notice strays to a device signed away *)
(* before the stop (PushStore.add, prune, Notifier.notify).                *)
THEOREM DevicesFollowHolds == DevicesSpec => []DevicesFollowTheirIdentity
<1>1. ASSUME DeviceInv PROVE DevicesFollowTheirIdentity
  <2>1. ASSUME NEW e \in Endpoints, NEW i \in Owners, claimant[e].who = i, e \notin dead,
               clocked[i] < claimant[e].at + MaxPerIdentity
        PROVE  Contains(rows[i], e)
    BY <1>1, <2>1 DEF DeviceInv, OwnerHasIt, Stands, Contains
  <2>2. \A e \in Endpoints, i \in Owners : claimant[e].who = i =>
          \A j \in Owners \ {i} : ~ Contains(rows[j], e)
    BY <1>1 DEF DeviceInv, OthersLackIt
  <2>3. ~ strayed
    BY <1>1 DEF DeviceInv
  <2> QED BY <2>1, <2>2, <2>3 DEF DevicesFollowTheirIdentity
<1> QED BY <1>1, DeviceInit, DevicesStep, PTL DEF DevicesSpec

-----------------------------------------------------------------------------
(***************************************************************************)
(* The limit is exact.  What the limiter remembers of a caller is the tail *)
(* of what it let through, never longer than the limit.  What it has       *)
(* forgotten is out of the window of the latest call it decided, unless a  *)
(* call of that caller overtook another.                                   *)
(***************************************************************************)
Asking == [at : {"idle", "allowed"}] \cup [at : {"asking"}, caller : Callers]
            \cup [at : {"dated"}, caller : Callers, now : Nat]

LimitTypes ==
  /\ clock \in Nat /\ request \in [Requests -> Asking]
  /\ hits \in [Callers -> Seq(Nat)] /\ admitted \in [Callers -> Seq(Nat)]
  /\ read \in [Callers -> Nat] /\ promised \in [Callers -> Nat]
  /\ (\E r \in Requests : request[r].at = "dated") => ~ Disabled

Forgotten(c) == Len(admitted[c]) - Len(hits[c])

Remembers(c) ==
  /\ Len(hits[c]) <= Len(admitted[c]) /\ Len(hits[c]) <= MaxEvents
  /\ \A i \in 1..Len(hits[c]) : hits[c][i] = admitted[c][Forgotten(c) + i]

(* The last refusal told the caller when the oldest hit leaves the window. *)
KeepsItsWord(c) ==
  promised[c] # 0 => hits[c] # << >> /\ promised[c] = hits[c][1] + Window

InOrder(c) ==
  c \notin overtaken =>
    /\ \A i \in 1..Forgotten(c) : admitted[c][i] + Window <= read[c]
    /\ \A i, j \in 1..Len(admitted[c]) : j - i >= MaxEvents => admitted[c][j] - admitted[c][i] >= Window

LimitInv ==
  /\ LimitTypes /\ ~ denied
  /\ \A c \in Callers : Remembers(c) /\ KeepsItsWord(c) /\ InOrder(c)

(* What is fresh is a tail, and everything before it is out of the window. *)
LEMMA FreshIsATail ==
  ASSUME NEW times \in Seq(Nat), NEW now \in Nat
  PROVE  \E m \in 1..(Len(times) + 1) :
           /\ Fresh(times, now) \in Seq(Nat)
           /\ Len(Fresh(times, now)) = Len(times) + 1 - m
           /\ \A i \in 1..Len(Fresh(times, now)) : Fresh(times, now)[i] = times[m + i - 1]
           /\ \A i \in 1..(m - 1) : times[i] + Window <= now
           /\ m <= Len(times) => times[m] + Window > now
<1> DEFINE n == Len(times)
           inside == [i \in 1..n |-> times[i] > now - Window]
           S == {i \in 1..n : inside[i]} \cup {n + 1}
           m == Min(S)
           kept == SubSeq(times, m, n)
<1>1. n \in Nat /\ Window \in Nat /\ \A i \in 1..n : times[i] \in Nat
  BY GateAssumption
<1>2. Fresh(times, now) = kept
  BY DEF Fresh, From
<1>3. m \in S /\ \A y \in S : m <= y
  <2>1. S \in SUBSET Nat /\ S # {}
    BY <1>1
  <2> HIDE DEF S
  <2> QED BY <2>1, Least
<1>4. m \in 1..(n + 1)
  BY <1>1, <1>3
<1>5. \A i \in 1..(m - 1) : times[i] + Window <= now
  <2> TAKE i \in 1..(m - 1)
  <2> HIDE DEF m, n
  <2>1. i \in 1..n /\ i \notin S
    <3> HIDE DEF S
    <3> QED BY <1>1, <1>3, <1>4
  <2>2. ~ (times[i] > now - Window)
    BY <2>1
  <2> QED BY <1>1, <2>1, <2>2
<1>8. m <= n => times[m] + Window > now
  <2> SUFFICES ASSUME m <= n PROVE times[m] + Window > now
    OBVIOUS
  <2> HIDE DEF m, n
  <2>1. m \in 1..n /\ m # n + 1
    BY <1>1, <1>4
  <2>2. times[m] > now - Window
    BY <1>3, <2>1
  <2> QED BY <1>1, <2>1, <2>2
<1> HIDE DEF m, n, S
<1>6. /\ kept \in Seq(Nat)
      /\ Len(kept) = IF m <= n THEN n - m + 1 ELSE 0
      /\ \A i \in 1..(n - m + 1) : kept[i] = times[m + i - 1]
  <2>1. \A i \in m..n : times[i] \in Nat
    BY <1>1, <1>4
  <2>2. m \in Int /\ n \in Int
    BY <1>1, <1>4
  <2> QED BY <2>1, <2>2, SubSeqProperties
<1>7. Len(kept) = n + 1 - m /\ n - m + 1 = n + 1 - m
  BY <1>1, <1>4, <1>6
<1> HIDE DEF kept
<1> QED BY <1>2, <1>4, <1>5, <1>6, <1>7, <1>8 DEF n

LEMMA LimitInit == GateInit => LimitInv
  BY GateAssumption
  DEF GateInit, LimitInv, LimitTypes, Asking, NotAsking, Remembers, KeepsItsWord, InOrder, Forgotten

LEMMA DecideKeeps ==
  ASSUME LimitInv, NEW r \in Requests, CheckAndRecord(r)
  PROVE  LimitInv'
<1>1. LimitTypes /\ ~ denied /\ request[r].at = "dated"
  BY DEF LimitInv, CheckAndRecord
<1>2. PICK c \in Callers, now \in Nat : request[r].caller = c /\ request[r].now = now
                                     /\ MaxEvents \in Nat \ {0} /\ Window \in Nat
  <2>1. request[r] \in Asking
    BY <1>1 DEF LimitTypes
  <2> QED BY <1>1, <2>1, GateAssumption DEF Asking, LimitTypes, Disabled
<1> DEFINE kept == Fresh(hits[c], now)
           full == Len(kept) >= MaxEvents
<1>3. hits[c] \in Seq(Nat) /\ admitted[c] \in Seq(Nat) /\ read[c] \in Nat /\ promised[c] \in Nat
  BY <1>1, <1>2 DEF LimitTypes
<1>4. Remembers(c) /\ KeepsItsWord(c) /\ InOrder(c)
  BY <1>2 DEF LimitInv
<1>5. PICK m \in 1..(Len(hits[c]) + 1) :
        /\ kept \in Seq(Nat)
        /\ Len(kept) = Len(hits[c]) + 1 - m
        /\ \A i \in 1..Len(kept) : kept[i] = hits[c][m + i - 1]
        /\ \A i \in 1..(m - 1) : hits[c][i] + Window <= now
        /\ m <= Len(hits[c]) => hits[c][m] + Window > now
  <2> HIDE DEF full
  <2>1. hits[c] \in Seq(Nat) /\ now \in Nat
    BY <1>3
  <2> QED BY <2>1, FreshIsATail, Zenon
<1>6. /\ hits' = [hits EXCEPT ![c] = IF full THEN kept ELSE Append(kept, now)]
      /\ request' = [request EXCEPT ![r] = IF full THEN NotAsking ELSE [at |-> "allowed"]]
      /\ admitted' = [admitted EXCEPT ![c] = IF full THEN admitted[c] ELSE Append(admitted[c], now)]
      /\ read' = [read EXCEPT ![c] = IF now > read[c] THEN now ELSE read[c]]
      /\ overtaken' = IF now < read[c] THEN overtaken \cup {c} ELSE overtaken
      /\ promised' = [promised EXCEPT ![c] = IF full THEN kept[1] + Window ELSE 0]
      /\ denied' = (denied \/ (full /\ promised[c] \in 1..now))
      /\ clock' = clock
  BY <1>2 DEF CheckAndRecord
<1> HIDE DEF kept
<1>7. PICK k \in Nat, h \in Nat, a \in Nat :
        Len(kept) = k /\ Len(hits[c]) = h /\ Len(admitted[c]) = a
  <2>1. Len(kept) \in Nat /\ Len(hits[c]) \in Nat /\ Len(admitted[c]) \in Nat
    BY <1>3, <1>5, LenProperties
  <2> QED BY <2>1
<1>14. /\ m \in 1..(h + 1) /\ k = h + 1 - m /\ h <= a /\ h <= MaxEvents
       /\ Forgotten(c) = a - h /\ (full <=> k >= MaxEvents)
  BY <1>4, <1>5, <1>7 DEF Remembers, Forgotten
<1>15. /\ \A i \in 1..k : kept[i] = hits[c][m + i - 1]
       /\ \A i \in 1..(m - 1) : hits[c][i] + Window <= now
       /\ m <= h => hits[c][m] + Window > now
       /\ \A i \in 1..h : hits[c][i] = admitted[c][Forgotten(c) + i]
       /\ \A i \in 1..a : admitted[c][i] \in Nat
  <2>1. /\ \A i \in 1..k : kept[i] = hits[c][m + i - 1]
        /\ \A i \in 1..(m - 1) : hits[c][i] + Window <= now
        /\ m <= h => hits[c][m] + Window > now
    BY <1>5, <1>7
  <2>2. \A i \in 1..h : hits[c][i] = admitted[c][Forgotten(c) + i]
    BY <1>4, <1>7 DEF Remembers
  <2>3. \A i \in 1..a : admitted[c][i] \in Nat
    BY <1>3, <1>7, ElementOfSeq
  <2> QED BY <2>1, <2>2, <2>3
<1> HIDE DEF full
<1>8. ~ (full /\ promised[c] \in 1..now)
  <2> SUFFICES ASSUME promised[c] \in 1..now PROVE k < MaxEvents
    BY <1>2, <1>14
  <2>1. hits[c] # << >> /\ hits[c][1] + Window <= now
    BY <1>3, <1>4 DEF KeepsItsWord
  <2>2. h >= 1
    BY <1>3, <1>7, <2>1
  <2>3. hits[c][1] \in Nat
    BY <1>3, <1>7, <2>2
  <2>4. m # 1
    BY <1>2, <1>14, <1>15, <2>1, <2>2, <2>3
  <2> QED BY <1>2, <1>14, <2>4
<1>9. ASSUME NEW d \in Callers, d # c
      PROVE  (Remembers(d) /\ KeepsItsWord(d) /\ InOrder(d))'
  <2>1. /\ hits'[d] = hits[d] /\ admitted'[d] = admitted[d] /\ read'[d] = read[d]
        /\ promised'[d] = promised[d] /\ (d \in overtaken' <=> d \in overtaken)
    BY <1>1, <1>2, <1>6, <1>9 DEF LimitTypes
  <2> QED BY <2>1 DEF LimitInv, Remembers, KeepsItsWord, InOrder, Forgotten
<1> DEFINE gone == a - k
<1>10. gone \in Nat /\ gone = Forgotten(c) + (m - 1) /\ Forgotten(c) \in Nat
       /\ \A i \in 1..k : kept[i] = admitted[c][gone + i]
  <2>1. Forgotten(c) \in Nat /\ gone = Forgotten(c) + (m - 1)
    BY <1>14
  <2>2. ASSUME NEW i \in 1..k PROVE kept[i] = admitted[c][gone + i]
    <3>1. m + i - 1 \in 1..h
      BY <1>14
    <3>4. kept[i] = hits[c][m + i - 1]
      BY <1>15
    <3>2. hits[c][m + i - 1] = admitted[c][Forgotten(c) + (m + i - 1)]
      BY <1>15, <3>1
    <3>3. Forgotten(c) + (m + i - 1) = gone + i
      BY <1>14, <2>1
    <3> QED BY <3>2, <3>3, <3>4
  <2>3. gone \in Nat
    BY <1>14
  <2> QED BY <2>1, <2>2, <2>3
<1>11. ASSUME c \notin overtaken'
       PROVE  /\ c \notin overtaken /\ read[c] <= now
              /\ \A i \in 1..gone : admitted[c][i] + Window <= now
  <2>1. c \notin overtaken /\ read[c] <= now
    BY <1>2, <1>3, <1>6, <1>11
  <2>2. ASSUME NEW i \in 1..gone PROVE admitted[c][i] + Window <= now
    <3>1. admitted[c][i] \in Nat
      <4>1. i \in 1..a
        BY <1>14
      <4> QED BY <1>15, <4>1
    <3>2. CASE i \in 1..Forgotten(c)
      <4>1. admitted[c][i] + Window <= read[c]
        BY <1>4, <2>1, <3>2 DEF InOrder
      <4> QED BY <1>2, <1>3, <2>1, <3>1, <4>1
    <3>3. CASE i \notin 1..Forgotten(c)
      <4> DEFINE j == i - Forgotten(c)
      <4>1. j \in 1..(m - 1) /\ j \in 1..h /\ Forgotten(c) + j = i
        <5>1. Forgotten(c) \in Nat /\ gone = Forgotten(c) + (m - 1) /\ i \in 1..gone
          BY <1>10
        <5> HIDE DEF gone
        <5> QED BY <1>14, <3>3, <5>1
      <4>2. hits[c][j] = admitted[c][i]
        BY <1>15, <4>1
      <4> QED BY <1>15, <4>1, <4>2
    <3> QED BY <3>2, <3>3
  <2> QED BY <2>1, <2>2
<1> HIDE DEF gone
<1>12. CASE full
  <2>1. hits'[c] = kept /\ admitted'[c] = admitted[c] /\ promised'[c] = kept[1] + Window
    BY <1>1, <1>2, <1>6, <1>12 DEF LimitTypes
  <2>3. k >= 1 /\ kept # << >> /\ kept[1] \in Nat
    <3>1. k >= 1
      BY <1>2, <1>12, <1>14
    <3> QED BY <1>5, <1>7, <3>1
  <2>4. Remembers(c)'
    <3>1. k <= a /\ k <= MaxEvents
      BY <1>2, <1>12, <1>14
    <3>2. Forgotten(c)' = gone
      BY <1>7, <2>1 DEF Forgotten, gone
    <3> QED BY <1>7, <1>10, <2>1, <3>1, <3>2 DEF Remembers
  <2>5. KeepsItsWord(c)'
    BY <2>1, <2>3 DEF KeepsItsWord
  <2>6. InOrder(c)'
    <3> SUFFICES ASSUME c \notin overtaken' PROVE InOrder(c)'
      BY DEF InOrder
    <3>1. read'[c] = now
      BY <1>1, <1>2, <1>3, <1>6, <1>11 DEF LimitTypes
    <3>3. c \notin overtaken /\ \A i \in 1..gone : admitted[c][i] + Window <= now
      BY <1>11
    <3>4. \A i, j \in 1..a : j - i >= MaxEvents => admitted[c][j] - admitted[c][i] >= Window
      BY <1>4, <1>7, <3>3 DEF InOrder
    <3>2. Forgotten(c)' = gone
      BY <1>7, <2>1 DEF Forgotten, gone
    <3> QED BY <1>7, <2>1, <3>1, <3>2, <3>3, <3>4 DEF InOrder
  <2>7. LimitTypes'
    <3>1. kept \in Seq(Nat) /\ kept[1] + Window \in Nat
      BY <1>2, <1>5, <2>3
    <3>2. read' \in [Callers -> Nat]
      BY <1>1, <1>2, <1>6 DEF LimitTypes
    <3>3. request' \in [Requests -> Asking]
      BY <1>1, <1>6, <1>12 DEF LimitTypes, Asking, NotAsking
    <3>4. ~ Disabled
      BY <1>1 DEF LimitTypes
    <3> QED BY <1>1, <1>6, <1>12, <3>1, <3>2, <3>3, <3>4 DEF LimitTypes, Disabled
  <2> QED BY <1>1, <1>6, <1>8, <1>9, <2>4, <2>5, <2>6, <2>7 DEF LimitInv
<1>13. CASE ~ full
  <2> DEFINE some == Append(kept, now)
             more == Append(admitted[c], now)
  <2>1. hits'[c] = some /\ admitted'[c] = more /\ promised'[c] = 0
    BY <1>1, <1>2, <1>6, <1>13 DEF LimitTypes
  <2>2. /\ some \in Seq(Nat) /\ Len(some) = k + 1 /\ some[k + 1] = now
        /\ \A i \in 1..k : some[i] = kept[i]
    BY <1>2, <1>5, <1>7, AppendProperties
  <2>3. /\ more \in Seq(Nat) /\ Len(more) = a + 1 /\ more[a + 1] = now
        /\ \A i \in 1..a : more[i] = admitted[c][i]
    BY <1>2, <1>3, <1>7, AppendProperties
  <2> HIDE DEF some, more
  <2>4. Forgotten(c)' = gone
    BY <2>1, <2>2, <2>3 DEF Forgotten, gone
  <2>5. Remembers(c)'
    <3>1. Len(some) <= Len(more) /\ Len(some) <= MaxEvents
      <4>1. ~ (k >= MaxEvents)
        BY <1>13, <1>14
      <4>2. Len(some) = k + 1 /\ Len(more) = a + 1
        BY <2>2, <2>3
      <4>3. k + 1 <= a + 1 /\ k + 1 <= MaxEvents
        BY <1>2, <1>14, <4>1
      <4> QED BY <4>2, <4>3
    <3>2. ASSUME NEW i \in 1..Len(some) PROVE some[i] = more[gone + i]
      <4>1. CASE i = k + 1
        <5>1. gone + i = a + 1
          BY <4>1 DEF gone
        <5> QED BY <2>2, <2>3, <4>1, <5>1
      <4>2. CASE i # k + 1
        <5>1. i \in 1..k /\ gone + i \in 1..a
          BY <1>14, <2>2, <4>2 DEF gone
        <5>2. some[i] = kept[i] /\ kept[i] = admitted[c][gone + i] /\ more[gone + i] = admitted[c][gone + i]
          BY <1>10, <2>2, <2>3, <5>1
        <5> QED BY <5>2
      <4> QED BY <4>1, <4>2
    <3> QED BY <2>1, <2>4, <3>1, <3>2 DEF Remembers
  <2>6. KeepsItsWord(c)'
    BY <2>1 DEF KeepsItsWord
  <2>7. InOrder(c)'
    <3> SUFFICES ASSUME c \notin overtaken' PROVE InOrder(c)'
      BY DEF InOrder
    <3>1. read'[c] = now
      BY <1>1, <1>2, <1>3, <1>6, <1>11 DEF LimitTypes
    <3>2. ASSUME NEW i \in 1..gone PROVE more[i] + Window <= now
      <4>1. i \in 1..a
        BY <1>14 DEF gone
      <4> QED BY <1>11, <2>3, <4>1
    <3>3. ASSUME NEW i \in 1..Len(more), NEW j \in 1..Len(more), j - i >= MaxEvents
          PROVE  more[j] - more[i] >= Window
      <4>1. i \in 1..a
        BY <1>2, <2>3, <3>3
      <4>2. CASE j \in 1..a
        BY <1>4, <1>7, <1>11, <2>3, <3>3, <4>1, <4>2 DEF InOrder
      <4>3. CASE j = a + 1
        <5>1. i \in 1..gone
          BY <1>2, <1>13, <1>14, <3>3, <4>1, <4>3 DEF gone
        <5>2. more[i] + Window <= now /\ more[j] = now /\ more[i] \in Nat
          BY <2>3, <3>2, <4>3, <5>1
        <5> QED BY <1>2, <5>2
      <4> QED BY <2>3, <3>3, <4>2, <4>3
    <3> QED BY <2>1, <2>4, <3>1, <3>2, <3>3 DEF InOrder
  <2>8. LimitTypes'
    BY <1>1, <1>2, <1>6, <1>13, <2>2, <2>3 DEF LimitTypes, Asking, NotAsking, Disabled, some, more
  <2> QED BY <1>1, <1>6, <1>8, <1>9, <2>5, <2>6, <2>7, <2>8 DEF LimitInv
<1> QED BY <1>12, <1>13

LEMMA RequestKeeps ==
  ASSUME LimitInv, NEW r \in Requests, Arrive(r) \/ ReadClock(r) \/ Put(r)
  PROVE  LimitInv'
<1>1. UNCHANGED <<clock, hits, record>>
  BY DEF Arrive, ReadClock, Put
<1>2. LimitTypes'
  <2>1. CASE Arrive(r)
    BY <1>1, <2>1 DEF LimitInv, LimitTypes, Arrive, Asking, NotAsking, record, Disabled
  <2>2. CASE ReadClock(r)
    BY <1>1, <2>2 DEF LimitInv, LimitTypes, ReadClock, Asking, NotAsking, record, Disabled
  <2>3. CASE Put(r)
    BY <1>1, <2>3 DEF LimitInv, LimitTypes, Put, Asking, NotAsking, record, Disabled
  <2> QED BY <2>1, <2>2, <2>3
<1> QED BY <1>1, <1>2 DEF LimitInv, Remembers, KeepsItsWord, InOrder, Forgotten, record

LEMMA LimitStep == LimitInv /\ [GateNext]_gateVars => LimitInv'
<1>1. ASSUME LimitInv, TakeWaiting \/ Tick \/ UNCHANGED gateVars
      PROVE  LimitInv'
  <2>1. UNCHANGED <<hits, request, record>> /\ clock' \in Nat
    BY <1>1 DEF TakeWaiting, Tick, gateVars, limiter, LimitInv, LimitTypes
  <2> QED BY <1>1, <2>1
      DEF LimitInv, LimitTypes, Remembers, KeepsItsWord, InOrder, Forgotten, record
<1> QED BY <1>1, DecideKeeps, RequestKeeps DEF GateNext

(* For any limit, window and clock, and however calls overtake each other  *)
(* between the clock and the lock: no caller is refused again who came     *)
(* back when the last refusal said, and a caller whose calls were decided  *)
(* in the order they read the clock never had more than MaxEvents within   *)
(* the window (RateLimiter.check_and_record).                              *)
THEOREM LimitIsExactHolds == GateSpec => []LimitIsExact
<1>1. LimitInv => LimitIsExact
  BY DEF LimitInv, InOrder, LimitIsExact
<1> QED BY <1>1, LimitInit, LimitStep, PTL DEF GateSpec
=============================================================================
