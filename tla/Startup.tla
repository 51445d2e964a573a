------------------------------ MODULE Startup ------------------------------
(***************************************************************************)
(* From a configured roster to a runtime (graph.build_runtime), with the   *)
(* audition cache the fitness gate reads (audition.py) and the `ra         *)
(* audition` processes that rewrite it (cli.py).  The cache is one file,   *)
(* read whole, changed in memory and written back whole, without a lock;   *)
(* the write truncates first, and a file that does not parse reads as an   *)
(* empty one.  `regime` stands for everything a verdict is keyed on beside *)
(* the critic: corpus, prompts, rubric, span rule, repetitions.            *)
(***************************************************************************)
EXTENDS Roles, CriticAudition, SequencesExt, Filtering

CONSTANTS
  Auditioners,  \* `ra audition` processes
  Scopes,       \* the slot sets its --lens and --alias filters can select
  Forced,       \* values of --force
  ModesOf,      \* [alias -> structured-output modes a probe of it may pin]
  Enforced,     \* values of audition.enforce
  MaxAge,       \* days a verdict stays fresh
  TornWrites,   \* whether a reader or a crash can come between truncate and write
  Outages,      \* the sets of aliases that may be unreachable at once
  Settings,     \* the feature switches a deployment may set
  FetchMaxChars, FetchBodyMaxChars, ReadMaxChars,
  MaxAuditions, MaxRegime, MaxDay    \* bounds

VARIABLES
  file,     \* the cache on disk: [slot -> entry], or Torn
  audition, \* [auditioner -> its state]
  begun,    \* auditions begun
  regime, day,
  start,    \* the starting run
  graded,   \* history: the last entry saved for a slot by whoever measured it
  erased    \* history: slots whose last exam the file may lack, by how it was written

vars == <<file, audition, begun, regime, day, start, graded, erased>>

(* One slot per lens and resolved identity: two aliases of a model are one *)
(* critic, auditioned under the first of them in the pool.                 *)
Slots == {s \in Identities \X Lenses : \E i \in CriticPool(s[2], {}) : Reader(s[2], i) = s[1]}
AliasOf(s) == Critics[s[2]][CHOOSE i \in CriticPool(s[2], {}) :
  /\ Reader(s[2], i) = s[1]
  /\ \A j \in CriticPool(s[2], {}) : Reader(s[2], j) = s[1] => i <= j]

Tiers == {"identifier", "open_access", "extraction"}

ASSUME StartupAssumption ==
  /\ ModesOf \in [Aliases -> SUBSET {"strict", "prompt"}]
  /\ \A a \in Aliases : ModesOf[a] # {}
  /\ Forced \subseteq BOOLEAN /\ Enforced \subseteq BOOLEAN /\ TornWrites \in BOOLEAN
  /\ Scopes \subseteq SUBSET Slots
  /\ Outages \subseteq SUBSET Aliases
  /\ Settings \subseteq [search : BOOLEAN, verify : BOOLEAN, read : BOOLEAN,
                         cards : BOOLEAN, pdf : BOOLEAN, tiers : SUBSET Tiers]
  /\ \A c \in Settings : c.read => c.search
  /\ FetchMaxChars <= FetchBodyMaxChars
  /\ {FetchMaxChars, FetchBodyMaxChars, ReadMaxChars,
      MaxAge, MaxAuditions, MaxRegime, MaxDay} \subseteq Nat

NoEntry == [metrics |-> "none"]
Torn == << >>
Empty == [s \in Slots |-> NoEntry]

-----------------------------------------------------------------------------
(* The cache.                                                              *)

LoadCache == IF file = Torn THEN Empty ELSE file

IsStale(entry) == day - entry.at > MaxAge

(* A verdict is about the measurement that produced it.  Only a caller     *)
(* that has probed can compare the mode; the others pass no mode.          *)
AnyMode == {"strict", "prompt"}
Matches(entry, modes) == entry.regime = regime /\ entry.mode \in modes

Usable(entry, modes) ==
  entry # NoEntry /\ Matches(entry, modes) /\ ~ IsStale(entry)

(* The gate cannot know the mode without a probe, and compares none.  The  *)
(* file has counts; the verdict is drawn from them when they are read.     *)
CachedJudgements(cache) ==
  [s \in {t \in Slots : Usable(cache[t], AnyMode)} |-> Judge(cache[s].metrics)]

(* Under enforcement only a positive measurement of incapacity refuses.    *)
UnfitSlots(judgements) == {s \in DOMAIN judgements : judgements[s] = "unfit"}

-----------------------------------------------------------------------------
(* ra audition.  Modes are pinned by probing before the cache is read; a   *)
(* probe that fails ends the command with nothing read or written.         *)

PinnedModes ==
  {f \in [Slots -> AnyMode] : \A s \in Slots : f[s] \in ModesOf[AliasOf(s)]}

Resting == [at |-> "idle"]

ProbeAndLoad(p) ==
  /\ audition[p] = Resting /\ begun < MaxAuditions
  /\ begun' = begun + 1
  /\ \E scope \in Scopes \ {{}}, force \in Forced, modes \in PinnedModes :
       LET cache == IF force THEN Empty ELSE LoadCache
           due == {s \in scope : ~ Usable(cache[s], {modes[s]})}
       IN audition' = [audition EXCEPT ![p] =
            IF due = {} THEN Resting
            ELSE [at |-> "measuring", due |-> due, cache |-> cache, day |-> day,
                  regime |-> regime, modes |-> [s \in due |-> modes[s]],
                  \* history: what the cache it writes back may lack
                  missed |-> IF force \/ file = Torn THEN Slots ELSE erased]]
  /\ UNCHANGED <<file, regime, day, start, graded, erased>>

(* What an audition measured goes into the cache it read, dated when it    *)
(* was read.                                                               *)
EntryOf(a, s, result) ==
  [metrics |-> result.metrics, regime |-> a.regime, mode |-> a.modes[s], at |-> a.day]

(* A fault: only what was measured is written back. *)
RecordedAlone(a, results) ==
  [s \in Slots |-> IF s \in a.due THEN EntryOf(a, s, results[s]) ELSE NoEntry]

Recorded(a, results) ==
  [s \in Slots |-> IF s \in a.due THEN EntryOf(a, s, results[s]) ELSE a.cache[s]]

(* Every due slot is measured by the pool. *)
RunAudition(p) ==
  /\ audition[p].at = "measuring"
  /\ \E results \in [audition[p].due -> Graded] :
       LET a == audition[p]
       IN audition' = [audition EXCEPT ![p] =
            [at |-> "saving", due |-> a.due, cache |-> Recorded(a, results),
             earned |-> \A s \in a.due : Earned(results[s]), missed |-> a.missed]]
  /\ UNCHANGED <<file, begun, regime, day, start, graded, erased>>

Truncate(p) ==
  /\ TornWrites /\ audition[p].at = "saving"
  /\ file' = Torn
  /\ audition' = [audition EXCEPT ![p].at = "writing", ![p].earned = TRUE]
  /\ UNCHANGED <<begun, regime, day, start, graded, erased>>

(* The whole file is replaced, by whichever cache this process has.  What  *)
(* it measured is now the last exam of those slots, which nobody who read  *)
(* the file before has; what it did not measure it has as it read it.      *)
SaveCache(p) ==
  /\ audition[p].at = IF TornWrites THEN "writing" ELSE "saving"
  /\ LET a == audition[p]
     IN /\ file' = a.cache
        /\ graded' = [s \in Slots |-> IF s \in a.due THEN a.cache[s] ELSE graded[s]]
        /\ erased' = a.missed \ a.due
        /\ audition' = [q \in Auditioners |->
             IF q = p \/ audition[q] = Resting THEN Resting
             ELSE [audition[q] EXCEPT !.missed = @ \cup a.due]]
  /\ UNCHANGED <<begun, regime, day, start>>

(* Killed or failed: whatever it had measured is gone, and a truncated     *)
(* file stays so.                                                          *)
Die(p) ==
  /\ audition[p] # Resting
  /\ audition' = [audition EXCEPT ![p] = Resting]
  /\ UNCHANGED <<file, begun, regime, day, start, graded, erased>>

-----------------------------------------------------------------------------
(* build_runtime.                                                          *)

Refused(code) == [at |-> "refused", code |-> code]

(* A fault: the roster keeps an orchestrator that did not answer. *)
KeepsItsOrchestrator(down) ==
  LET kept(pool) == Only(pool, Aliases \ down)
  IN [writers |-> kept(Writers),
      critics |-> [l \in Lenses |-> kept(Critics[l])],
      orchestrator |-> Orchestrator]

(* The roster without the aliases that could not be probed; an unreachable *)
(* orchestrator gives its place to the first writer.                       *)
RosterWithout(down) ==
  LET kept(pool) == Only(pool, Aliases \ down)
  IN [writers |-> kept(Writers),
      critics |-> [l \in Lenses |-> kept(Critics[l])],
      orchestrator |-> IF Orchestrator \in down THEN "unset" ELSE Orchestrator]

OrchestratorAlias(roster) ==
  IF roster.orchestrator = "unset" THEN roster.writers[1] ELSE roster.orchestrator

RosterOf(roster) == ToSet(roster.writers) \cup UNION {ToSet(roster.critics[l]) : l \in Lenses}

NoPoolEmptied(roster) ==
  roster.writers # << >> /\ \A l \in Lenses : roster.critics[l] # << >>

(* Whoever writes, every lens has a critic that is another model. *)
RosterHealthy(roster) ==
  \A l \in Lenses, w \in ToSet(roster.writers) :
    {IdentityOf[a] : a \in ToSet(roster.critics[l])} \ {IdentityOf[w]} # {}

Full == RosterWithout({})

(* Identities, structural health, then the cached fitness of every slot of *)
(* the configured roster, before a probe is paid for.                      *)
Gate ==
  /\ start.at = "queued"
  /\ \E enforce \in Enforced :
       LET unfit == UnfitSlots(CachedJudgements(LoadCache))
           known == {s \in Slots : Usable(graded[s], AnyMode)
                                     /\ Judge(graded[s].metrics) = "unfit"}
           lost == IF file = Torn THEN Slots ELSE erased
           healthy == NoPoolEmptied(Full) /\ RosterHealthy(Full)
       IN start' =
            CASE ~ healthy -> Refused("startup_refused")
              [] healthy /\ enforce /\ unfit # {} ->
                   [at |-> "refused", code |-> "startup_refused",
                    cited |-> unfit, known |-> known, lost |-> lost]
              [] OTHER -> [at |-> "probing", enforce |-> enforce, known |-> known, lost |-> lost]
  /\ UNCHANGED <<file, audition, begun, regime, day, graded, erased>>

(* The proxy does not serve an alias, or cannot be reached. *)
ResolveFails ==
  /\ start.at = "queued"
  /\ start' = Refused("startup_refused")
  /\ UNCHANGED <<file, audition, begun, regime, day, graded, erased>>

(* All aliases are probed before anything is decided about those that did  *)
(* not answer.                                                             *)
ProbeRoster ==
  /\ start.at = "probing"
  /\ \E down \in Outages :
       LET roster == RosterWithout(down)
       IN start' =
            IF down = {} \/ (NoPoolEmptied(roster) /\ RosterHealthy(roster))
            THEN [at |-> "building", roster |-> roster, down |-> down,
                  enforce |-> start.enforce, known |-> start.known, lost |-> start.lost]
            ELSE [at |-> "refused", code |-> "roster_unreachable", down |-> down]
  /\ UNCHANGED <<file, audition, begun, regime, day, graded, erased>>

(* An alias answers in no mode at all. *)
ProbeIncapable ==
  /\ start.at = "probing"
  /\ start' = Refused("startup_refused")
  /\ UNCHANGED <<file, audition, begun, regime, day, graded, erased>>

-----------------------------------------------------------------------------
(* The clients of the run, built from the switches.                        *)

(* What can be missing for a feature that is on: the search credential, a  *)
(* writer that emits tool calls or answers that probe, the PDF reader, a   *)
(* known provider, the renderer's or the archive's credential.             *)
Needs(c) ==
  (IF c.search THEN {"search_key", "tool_calls"} ELSE {})
    \cup (IF c.pdf /\ c.tiers # {} THEN {"pypdf"} ELSE {})
    \cup (IF c.tiers = {} THEN {} ELSE {"provider"})
    \cup (IF "extraction" \in c.tiers THEN {"renderer_key"} ELSE {})
    \cup (IF "open_access" \in c.tiers THEN {"archive_key"} ELSE {})

Missable == {"search_key", "tool_calls", "pypdf", "provider", "renderer_key", "archive_key"}

(* A fault: the cache is sized for the claim check alone. *)
VerificationCapOnly(c) == FetchBodyMaxChars

(* The cap the shared fetch cache stores a page at: its largest reader's.  *)
CacheMaxChars(c) ==
  IF c.read THEN Larger(FetchBodyMaxChars, ReadMaxChars) ELSE FetchBodyMaxChars

Off == 0

(* The clients, each with the cap it applies to a stored page. *)
Clients(c) ==
  LET stored == IF c.verify \/ c.read THEN CacheMaxChars(c) ELSE Off
      reads == c.read /\ stored # Off
  IN [stored         |-> stored,
      fetcher        |-> IF c.verify THEN FetchBodyMaxChars ELSE Off,
      disputeFetcher |-> IF c.verify THEN FetchMaxChars ELSE Off,
      reader         |-> IF reads THEN ReadMaxChars ELSE Off,
      evidenceCards  |-> c.cards /\ reads /\ c.verify,
      resolver       |-> c.tiers]

BuildRuntime ==
  /\ start.at = "building"
  /\ \E c \in Settings, missing \in {{}} \cup {{x} : x \in Missable} :
       start' = IF Needs(c) \cap missing # {} THEN Refused("startup_refused")
                ELSE [at |-> "started", roster |-> start.roster, down |-> start.down,
                      settings |-> c, clients |-> Clients(c),
                      enforce |-> start.enforce, known |-> start.known, lost |-> start.lost]
  /\ UNCHANGED <<file, audition, begun, regime, day, graded, erased>>

-----------------------------------------------------------------------------
(* The corpus, a prompt or the rubric changes with a release; days pass.   *)

Release ==
  /\ regime < MaxRegime /\ regime' = regime + 1
  /\ UNCHANGED <<file, audition, begun, day, start, graded, erased>>

DayPasses ==
  /\ day < MaxDay /\ day' = day + 1
  /\ UNCHANGED <<file, audition, begun, regime, start, graded, erased>>

Init ==
  /\ file = Empty /\ audition = [p \in Auditioners |-> Resting] /\ begun = 0
  /\ regime = 1 /\ day = 0
  /\ start = [at |-> "queued"]
  /\ graded = Empty /\ erased = {}

(* What happens to the cache until the gate has read it; later it cannot   *)
(* matter to this start.                                                   *)
Meanwhile ==
  /\ start.at = "queued"
  /\ \/ \E p \in Auditioners :
          ProbeAndLoad(p) \/ RunAudition(p) \/ Truncate(p) \/ SaveCache(p) \/ Die(p)
     \/ Release \/ DayPasses

Next ==
  Meanwhile \/ ResolveFails \/ Gate \/ ProbeRoster \/ ProbeIncapable \/ BuildRuntime

Spec == Init /\ [][Next]_vars

-----------------------------------------------------------------------------
(* Type correctness. *)
TypeOK ==
  /\ file = Torn \/ DOMAIN file = Slots
  /\ DOMAIN audition = Auditioners /\ begun \in 0..MaxAuditions
  /\ start.at \in {"queued", "probing", "building", "started", "refused"}
  /\ erased \subseteq Slots

(* A verdict is what the critic showed: one that calls it fit or merely    *)
(* marginal rests on a review of every fixture, an obvious defect seen and *)
(* a sound report let through, however many calls failed; a critic that    *)
(* failed, missed and invented nothing is fit (audition.judge).            *)
VerdictIsEarned ==
  \A p \in Auditioners : audition[p].at = "saving" => audition[p].earned

(* The gate decides on the last exam each critic sat: an unfit verdict of  *)
(* the present regime that is still fresh refuses the start, and nothing   *)
(* else does, whichever processes rewrote the file in between.  There are  *)
(* three ways for an exam to be lost, and no other: the file is rewritten  *)
(* by a process that read it before that exam was saved, or that was       *)
(* forced and read nothing, or it is found torn, by the gate or by the     *)
(* process that rewrites it (audition.enforce_fitness, cached_judgements,  *)
(* save_cache; cli.audition_cmd).                                          *)
GateFollowsTheRecord ==
  /\ start.at \in {"probing", "building", "started"} /\ start.enforce =>
       start.known \subseteq start.lost
  /\ "cited" \in DOMAIN start => start.cited \subseteq start.known \cup start.lost

(* An outage costs what it must and no more: a run starts only on aliases  *)
(* that answered, whoever is to write can be reviewed under every lens by  *)
(* another model, someone gives the polish advice; and it is refused for   *)
(* an outage only when the aliases left cannot do that (_degrade_roster,   *)
(* Roles!Staffed).                                                         *)
DegradesExactlyWhenStaffed ==
  /\ start.at \in {"building", "started"} =>
       /\ Staffed(start.down, {})
       /\ RosterOf(start.roster) = (WriterAliases \cup CriticAliases) \ start.down
       /\ OrchestratorAlias(start.roster) \in Aliases \ start.down
  /\ start.at = "refused" /\ start.code = "roster_unreachable" => ~ Staffed(start.down, {})

(* The two switches stay apart: a page of any length is shown to each of   *)
(* its readers up to that reader's own cap, whatever the other readers     *)
(* are configured to see of it (graph._build_runtime, _cache_max_chars).   *)
SwitchesStayApart ==
  start.at = "started" =>
    LET k == start.clients
        least(a, b) == IF a <= b THEN a ELSE b
        shown(cap, n) == least(cap, least(k.stored, n))
    IN \A n \in 0..Larger(FetchBodyMaxChars, ReadMaxChars) :
         /\ start.settings.verify => /\ shown(k.fetcher, n) = least(FetchBodyMaxChars, n)
                                      /\ shown(k.disputeFetcher, n) = least(FetchMaxChars, n)
         /\ start.settings.read => shown(k.reader, n) = least(ReadMaxChars, n)
         /\ k.evidenceCards => k.fetcher # Off /\ k.reader # Off

(* With enforcement on, no run starts with a critic whose last exam was    *)
(* graded unfit (config.AuditionConfig.enforce).                           *)
EnforcedMeansNoUnfitCritic ==
  start.at = "started" /\ start.enforce => start.known = {}
=============================================================================
