# Verification of reasonable-answer

TLA+ models of the program under `src/src/reasonable_answer`, the TLC runs that check
them on small instances, and TLAPS proofs. The program answers a question by drafting
with one language model, having others review the draft lens by lens, and redrafting
until a deterministic controller decides to stop.  Reviews follow the draft's citations
to the pages behind them.  It runs as a web service whose runs survive restarts.

## Inventory

| Part (source) | State it keeps | Operations | Interacts with | Modelled in |
|---|---|---|---|---|
| stop controller (`controller.py`, `schemas.py`) | none | `decide`, `detect_cycle`, `select_shipped_index` | called by the graph | `StopDecision` |
| roles (`roles.py`, roster health in `config.py`) | none | writer rotation, critic slates, clearance per lens, staffing | called by the graph and the controller input | `Roles` |
| refine loop (`graph.py`) | a checkpointed state dict per run | nine nodes, routing, `run`, `_drive` | models, store, worker | `RefineLoop` |
| startup (`graph.py` `build_runtime`, `config.py`) | none; reads the audition cache, probes the roster | resolve, gate, probe, degrade, build clients | auditions, LLM client | `Startup` |
| auditions (`audition.py`, `cli.py`) | a cache file of verdicts | measure, grade, judge, load, save, enforce | startup | `CriticAudition`, `Startup` |
| triage (`triage.py`, `taxonomy.py`) | none | clamp, suppress, tally, defects, clean records, signature; mechanical findings about citations and lost sources | called by the triage node | `RefineLoop`, `Citations` |
| disputes (`dispute.py`) | registry in the run's state | elicit, adjudicate | writer, arbiter, fetched pages | `RefineLoop` |
| writer walk (`graph.py` `_generate`) | writers tried and nudged, held draft | ask, set aside, settle, repair | LLM client, rotation | `WriterWalk` |
| document edits (`ops.py`, `report.py`) | none | parse, splice, revise | writer walk | `ReportSplice` |
| LLM client (`llm.py`) | pinned capabilities, per-call retry state | complete, structured, probes | every node | `ModelClient` |
| fetcher (`fetch.py`) | per-run cache of pages | fetch, redirects, PDFs, walls; the bibliography and its coverage | critics, readers | `SourceOutcomes`, `SourceLadder`, `SourceCoverage` |
| resolvers (`resolve/`) | conclusions, copies and budgets per run | registries, open-access copies, renderer | fetcher | `SourceOutcomes`, `SourceLadder` |
| evidence critique (`graph.py` `_critique`) | coverage per draft, the trail of events | fetch, tally, review, record | fetcher, checkpoint | `SourceReview` |
| search and reading (`search.py`, `reading.py`, `evidence.py`) | query, call and character budgets, evidence cards, the read log | search, read, card | writer walk | `SourceReading` |
| claim check (`claimcheck.py`, `support.py`) | memo of verdicts, breaker | pairs, chunks, settle, findings | critics, fetcher, triage | `ClaimReview`, `EvidenceRound` |
| run worker (`web/worker.py`) | queue, live status, threads | submit, resume, recover, drain, shutdown | requests, registry, graph | `RunLifecycle` |
| limiter (`web/worker.py`, `web/app.py`) | times of accepted calls | check and record | submit route | `SubmissionGate` |
| registry (`web/registry.py`) | none; folds the event log | summary, recovery counters | worker, routes | `RunLifecycle` |
| refinement service (`web/refine.py`) | cache, pending entries, offers, permits, timers | suggest, resolve, shutdown | request threads, model | `RefineService` |
| push (`web/push.py`) | subscriptions file | add, remove, prune, notify | worker, push services | `DeviceNotices` |
| retention, store (`web/retention.py`, `store.py`) | run directories | sweep, purge, writes | worker | `ContentSweep`, `RunLifecycle` |
| rendering, prompts, intake, export, CLI, CI scripts | none | text | - | not modelled |

What is hard here: a run is a long chain of model calls any of which may fail or return
anything; budgets of a dozen kinds bound it, some shared by concurrent critics; clearance
must be counted by model family, lens and exact draft; what a check settles about a source
must be remembered for drafts that do not exist yet, and not more than was settled; a process
may stop between any two nodes and another, with other models reachable or another
configuration, must pick the run up; worker threads, request threads, recovery, the sweep and
the command line share a queue, a status table, directories and files; and the only durable
record of what happened is an append-only log that is interpreted later.

What makes each part correct, in one line each:

* loop: no text is accepted that two families per lens did not read; it ships what it says
  it ships; it ends;
* sources: a source is called missing only when somebody who knows said so, and what was
  concluded stands whatever the order of answers;
* evidence: a page counts as read when it was shown, a claim as absent when the whole page
  was read, and a redraft does not quietly shed its evidence;
* startup: a verdict on a critic is earned, the gate follows the last one, an outage costs
  no more than it must;
* writer walk: failures are retried as they ask to be, and a failed account is never a verdict;
* edits: a citation that had an entry keeps one;
* lifecycle: no run is driven twice, none accepted is lost, and one that never works is given up;
* web edge: the limit is exact, devices follow their identity, the sweep spares the live, the
  refinement service neither leaks permits nor leaves a request waiting.

## Modules

The loop:

* `StopDecision` - the controller. `Applies(r, ci)` is the guard of rule r, `Rule` the first
  that applies, `Decide` the decision record. Pure operators.
* `Roles` - writer and critic selection and `LensStatus`. Pure operators.
* `RefineLoop` - one run. One action per graph node; the state is what a checkpoint holds.
  Drafts are numbered by first appearance, findings are a key and a severity, and what a
  critic may return is the constant `Reports`. `Restart` is a resume in a process that
  reaches other models.
* `RefineLoopProperties` - the properties of the loop. `AcceptanceContract` is the abstract
  specification: drafts gather witnesses (lens, family) and objections, and a verdict is
  bounded by them. `KeepsContract` is the refinement: drafts are rounds, witnesses are the
  clean records of the current draft, the objection is a defect of at least major severity.
* `ModelClient` - the client of the model proxy. `Exchange` is one HTTP attempt inside
  `_create` (wait, send, failure or answer); `Continue` is what `complete`, `structured` and
  the probes do with a usable reply. A reply is who served it, what its text is and whether
  it carries tool calls.
* `WriterWalk` extends it with the walk `RefineLoop` sees as one `Generate` step: writers in
  rotation, the reading gates, the held draft, the deferral and the repair turns. While no
  walk is on, any other caller may use the client.
* `ReportSplice` - a reply of edit operations parsed line by line and spliced into the report.
  A paragraph is the numbers written in it; `Kept` is the loop over the deferred edits of the
  Sources, `Rendered` the splice.

What a critique or a writer does with sources, inside one node of the loop:

* `SourceOutcomes` - what one request for a page, a registry, an archive or the renderer
  comes to. Pure operators on abstract responses (status, kind, size, wall).
* `SourceCoverage` - the Sources section as entries, the tally of a draft's entries against
  the outcomes of their addresses, and `Further`, the order of two tallies.
* `SourceLadder` - the fetcher and the resolver shared by concurrent readers. A reader's step
  is one request out and its answer in; the caches are read before and written after, with no
  lock in between, as in the code.
* `SourceReview` composes them: critics in threads, the tally on record, the checkpoint at the
  end of a pass, the deferral and the crash that repeat it.
* `Citations` - pairs of sentence and address, and the mechanical findings the pipeline makes
  by reading the report alone.
* `ClaimReview` - the claim check of one critic: chunks, memo, breaker, verdicts, findings
  minted and retired.
* `SourceReading` - one writer session of searches and reads under its budgets, with
  evidence cards.
* `EvidenceRound` composes the last three over several drafts and processes: read log,
  settled verdicts, the completeness lens, the checkpoint.

Before and around a run:

* `CriticAudition` - one exam: grading, counts, verdict. Pure operators; rates are compared
  by cross-multiplication.
* `Startup` - `build_runtime` against audition processes that rewrite one file. The write
  truncates first; a torn file reads as an empty one. The file has the counts of an exam, and
  the verdict is drawn from them by whoever reads it. Two history variables follow the exams:
  `graded` has the last one saved for each slot by whoever measured it, `erased` the slots
  whose last exam the file may lack. `erased` is kept by cause, never by looking at the file:
  a process notes what it misses when it reads (`missed`: everything if it was forced or the
  file was torn, else what the file lacked), every save by another adds to that, and its own
  save makes it the file's.
* `RunLifecycle` - runs across processes. The disk (`ledger`, `saved`, `verdict`, `stamp`)
  survives `Kill`; `ledger` is the event log as the registry folds it. Requests are split
  where the code checks in one step and acts in another (`Admit`/`Record`/`Enqueue`,
  `AskResume`/`ResumeByHand`); a worker thread goes through `Take`, `Start`, `Progress`,
  `Checkpoint` and one of the ways a run ends. `Runs` are numbered in order of submission.
* `RefineService` - the refinement service. One action per critical section or blocking
  point; a request names the pending entry and the offer it creates.
* `SubmissionGate` - depth check and limiter; the clock is read before the lock is taken.
* `DeviceNotices` - the subscription file and the notices that read it once and then call
  the push services one by one.
* `ContentSweep` - the retention thread beside submissions, resumes and worker threads.

* `Filtering` - the list comprehension with a condition, as a fold, used wherever the code
  keeps some of a list.
* `MC*` - instances. `*Proofs` - theorems: of the loop `RefineLoopProofs`, of the lifecycle
  `RunLifecycleProofs`, of the client and the walk over it `WriterWalkProofs`, of the sources
  `SourceReviewProofs`, of reading and the claim check `EvidenceRoundProofs`, of the refinement
  service `RefineServiceProofs`, of auditions, startup, limiter, device notices and the sweep
  `EdgeProofs`. `FoldLemmas` holds what a fold, a sum, a greatest member, a flattened or a
  filtered sequence comes to, and is used by most of the others.

`WriterWalk`, `SourceReview` and `EvidenceRound` detail what `RefineLoop` takes in one step
each. `RefineLoop` lets that step return anything its callers can see of it: any writer of
the rotation, any report a critic may hand in, a failed lens, a deferral.

Some modules define an operator marked as a fault before the operator it is a broken variant
of. No specification uses them: they are the plausible bugs against which each property was
tried, and each property fails under at least one.

## Runs

| Run | Shows | Bounds and why they suffice |
|---|---|---|
| `loop_depth` | acceptance is double-checked on exactly the shipped draft; a shipped draft carries its own findings; a top-up asks someone new; the loop implements the acceptance contract | one lens, two writers of whom one also reviews, three critics of three families, two reviews per pass, three rounds: author exclusion, top-ups, strikes, polish and repeats all happen |
| `loop_stall` | the step limit is never near; a rewrite is judged on its own | five rounds, so that a stall, the rewrite it buys and a second stall fit |
| `loop_restart` | no good verdict with an unread lens; the weak verdict only for a limited roster | two lenses sharing critics, one resume, three outage patterns, a seeded draft |
| `loop_disputes` | rulings stand, every run ends | two disputable findings, a budget of two rulings |
| `writer_walk` | waits answer the failure that caused them, pinned modes are proven, conversations stay answerable, an account refusal is never a verdict, an unread draft is a last resort, everything ends | two writers and five attempts, so that both are asked, nudged and given up with an attempt to spare; three requests per exchange, so that a hollow answer can follow a refusal with a hint; three lookups, so that tools are withdrawn by their budget as well as by their rounds |
| `sources` | only earned absences condemn a source, and one is kept; the furthest tally is on record; a conclusion stands | two critics, a DOI and an address that names nothing, every budget one call, one registry that denies, has or fails. The DOI's page is a page, a PDF, a file that turns out closed when it is asked for as one, a missing page or a server's error (the only way to an absence the registries establish); the other address is a page, a PDF or an error. Two passes over one draft, one crash or deferral: the critics race for every call |
| `evidence` | no accepted draft has shed what it rests on; read means shown; the reading log is not rewritten; absence rests on a whole page; unreadability rests on every citation of the sentence | three questions, of which a behaviour asks one (`question` in `MCEvidenceRound`), so that no question's drafts and pages multiply another's. *Reading*: two addresses in the draft, one of which may turn out walled, and a third that only a search offers; a budget of four characters for pages of two, one and one, so that it runs out before and within a page, and in the middle of a card, of which then nothing is shown; a reader of three calls that may fail once; two drafts critiqued once, one restart. *Redrafting*: drafts on three sources, two and one, a fraction of two thirds, three rounds: from three to two and from two to one stays below the fraction each time, and the sum does not. The check refutes or supports two of the sources, and a second pass over a draft may take a refutation back, so the peak moves both ways. *Checking*: one question shows one unit, a citation may cost two questions and a check three. Pages of one unit (asked whole), two (asked to the end) and three (cut short by the cap), with their end cut off, walled or blocked; two citations are checked of a report with two and of one with three, so the cap cuts a sentence; a memo of two, two failures in a row stop the check |
| `startup` | the gate follows the last exams; an outage costs what it must | three auditions by two processes: one leaves an exam, a second measures it again while a third, which has read the first, is still measuring, so that an exam is lost and an old one comes back; forced ones, torn writes, deaths, a verdict going stale; exams that pass and that fail. Behind the gate two lenses, four critic aliases of three models of which one writes, nine outages, every combination of switches |
| `lifecycle` | one driver per run, live status is real, fruitless attempts are capped, a serving process gets every run off its hands | one run, two threads, four processes, two configurations, two resumes by hand: caps of two are reached and passed. Runs share only the queue and the threads, and each property is about one run; a second run multiplies the states beyond what can be explored |
| `refine_service` | permits are conserved, equal questions cost one call, verified claims are genuine, no request hangs | three requests, two spellings of one question and a second one, one permit, one cache entry, two offers, two ticks |
| `mechanisms` | the limit is exact; devices follow their identity; the sweep spares the live; entries follow their citations; a verdict is earned | limiter: two events per window of two, six calls of two requests over four ticks. Notices: two identities, three devices and one stranger, a cap of two, four claims, two notices. Sweep: two runs, one thread, three resumes. Splice: two operations of every kind on four paragraphs of three drafts; the property is about one reply, so further turns add drafts, not cases. Exams: every exam of an obvious, a moderate and a control fixture, each reviewed twice, of reviews that fail, hit, miss or make noise, with a release before or after |

`startup` uses a `VIEW` that keeps only the start once the gate has read the cache, which
nothing reads afterwards; that of `sources` leaves out what a finished rung, a tallied review
and a finished draft never look at again. Both, and `mechanisms`, use symmetry in audition
processes, critics, and owners and devices that are alive; none checks a liveness property.
The five mechanisms of the last run share no variable, so each is explored while the
others rest in their initial states.

One further run shows the code contradicting a statement of the repository:

| Run | Statement | What happens |
|---|---|---|
| `lifecycle_double` | `worker.py:247`, a run is not queued twice | with the refinement feature on, a submission writes a second event before its live status is set; the run looks interrupted in between, its owner's resume queues it, and the submission then queues it again |

Deadlock checking is off everywhere: a run and a walk end at `done`, and the models of
processes, requests and sessions are bounded.

## Divergences without a run of their own

The modules below define the statement; added to the module's run as a property it is
violated.

| Definition | Statement | What the code does |
|---|---|---|
| `StopDecision` (`PartialCountsNeverRank` in `RefineLoopProperties`) | `controller.py:187`, the ranking row is the one most lenses looked at | a draft no critic managed to read has a row with no defects and ships over a draft every lens read |
| `RunLifecycle!AbandonedWasExecuted` | `docs/decisions.md:223`, restarts do not spend attempts of runs never executed | each boot writes an automatic attempt for a waiting run, and the cap abandons it |
| `RunLifecycle!PausedRunResumes` | `worker.py:412`, a paused run resumes on the next boot | a stop seen after the last node pauses a run whose verdict is written; recovery skips it and its owner is not told |
| `WriterWalk!FlakyResponseNeverCostsTheRun` | `graph.py:1063`, one flaky response does not cost the run; `graph.py:1478`, a repair never raises | an answer without choices is re-raised as the bare exception it caused (`llm.py:708`); the walk and the repair catch only failed calls, so the run crashes with attempts left |
| `SourceReview!EvidenceIsStable` | `fetch.py:785`, a cache entry is written once and never invalidated | two critics that fetch one address at once both write the cache, and the later answer replaces the earlier |
| `SourceReview!TrailEndsWithTheRecord` | `graph.py:2193`, the last coverage event of a draft is the one the verdict carries | a crash after the event and before the checkpoint repeats the pass, which may reach less and then records nothing |
| `EvidenceRound!UnsettledCitationKeepsItsFinding` | `claimcheck.py:846` and `docs/decisions/D-claim-check-inconclusive-verdicts.md:34`, a citation that was not settled keeps the critic's finding | findings are retired by sentence (`claimcheck.py:861`), so a verdict on one citation retires a finding about another |
| `Startup!EnforcedMeansNoUnfitCritic` | `config.py:698`, `docs/model-evaluation.md:62`, enforcement refuses an unfit critic | `ra audition --force` on some slots starts from an empty cache and writes back only those, erasing the unfit verdicts of the others |
| `ContentSweep!LiveRunsAreNeverSwept` | `web/retention.py:43`, live runs must never be swept | who is live is asked before the directory is listed; a run resumed in the middle of a pass loses its drafts |
| `ReportSplice!EveryMarkerKeepsAnEntry` | `ops.py:12`, a Sources change that would leave a body marker citing nothing is refused | an insertion among the Sources is never tried; between entries without a number, one with a number moves those below it, and their markers cite nothing |

Met while modelling, and stated nowhere as a property: an unset key of the `core` registry
escapes the refusal `graph.py:271` promises for every misconfiguration; the position a
roster warning names (`audition.py:1199`) ignores author exclusion; a registry's denial is
described as definitive (`resolve/base.py:60`) but two providers give it for answers that
are not; a failed evidence review keeps its refuted verdicts and loses its findings; the
repair turn runs after the reading gates, so what it writes is not gated; the read budget
begins again with each process.

## Fairness

`RefineLoop!FairSpec`: weak fairness of the node steps, since the graph runs the next node
as soon as the last is checkpointed and every model call has a timeout. Nothing obliges
`Restart`. `WriterWalk!Spec`: the walk's own steps and the client's; every exchange is answered
or ended by the client's timeout. Nobody is obliged to begin a call.
`RunLifecycle!FairSpec`: threads and requests in progress take their steps; the
platform is not obliged to restart a process, an owner to ask, or a call to fail, so
`Boot`, `Admit`, `AskResume`, `Stop` and `Kill` have none. `RefineService!FairSpec`: threads,
calls (bounded by the client's timeout) and timers; nobody is obliged to ask. The other
specifications state safety only and have none.

## Proofs

Every theorem is for all values of the constants, under the module's named assumption.

| Theorem | States |
|---|---|
| `RunLifecycleProofs!TypeCorrect` | `[]TypeOK`, with the refinement feature off |
| `RunLifecycleProofs!OneDriverAlways` | `[]OneDriver`, likewise |
| `RunLifecycleProofs!AttemptsAreCapped` | `[]FruitlessAttemptsAreCapped`, likewise |
| `RefineServiceProofs!PermitsStay` | `[]PermitsAreConserved` |
| `RefineServiceProofs!OneCallServesAll` | `[]OneComputationPerQuestion` |
| `EdgeProofs!TheLiveKeepTheirDrafts` | `[]SweepSparesTheLive` |
| `RunLifecycleProofs!StatusIsReal` | `[]LiveStatusIsReal`, with the refinement feature off |
| `RefineLoopProofs!TypeCorrect` | `[]TypeOK` |
| `RefineLoopProofs!AcceptanceIsEarned` | `[]AcceptedIsDoubleChecked` |
| `RefineLoopProofs!VerdictsAreFailClosed` | `[]ConclusionNeedsEveryLens` |
| `RefineLoopProofs!LoopKeepsContract` | `KeepsContract`, the refinement of `AcceptanceContract` |
| `RefineLoopProofs!UnconfirmedIsRosterLimited` | `UnconfirmedOnlyWhenRosterLimited` |
| `RefineLoopProofs!ReaderGetsTheFindings` | `[]ShipsItsOwnFindings` |
| `RefineLoopProofs!StepsAreBounded` | `[]StepsWithinRecursionLimit` |
| `RefineLoopProofs!RulingsAreFinal` | `RulingsStand` |
| `RefineLoopProofs!RewritesAreJudged` | `RewriteIsJudged`, for `StagnationLimit >= 2` |
| `RefineLoopProofs!TopUpsAskSomeoneNew` | `TopUpAsksSomeoneNew`, for a run never resumed |
| `RefineLoopProofs!PassesAreStaffed` | `[]EveryPassIsStaffed`, for a run never resumed |
| `RefineLoopProofs!RoundsCountDrafts` | `[]RoundsAreDrafts` |
| `WriterWalkProofs!TypeCorrect` | `[]TypeOK` |
| `WriterWalkProofs!WaitsAreSpaced` | `[]RetriesAreSpaced` |
| `WriterWalkProofs!ModesAreProven` | `[]PinnedModeIsProven` |
| `WriterWalkProofs!ConversationsAreAnswerable` | `[]ConversationIsAnswerable` |
| `WriterWalkProofs!AttemptsAreRecorded` | `[]EveryAttemptIsRecorded` |
| `WriterWalkProofs!RefusalsDefer` | `[]AccountRefusalIsNoVerdict` |
| `WriterWalkProofs!UnreadShipsLast` | `[]UnreadDraftIsLastResort` |
| `WriterWalkProofs!WritersAreCredited` | `[]CreditGoesToItsWriter` |
| `EdgeProofs!GateReadsTheRecord` | `[]GateFollowsTheRecord` |
| `SourceReviewProofs!SourcesInvariant` | the invariant of the ladder and of the critics' records |
| `SourceReviewProofs!AbsenceIsSound` | `[]AbsenceIsKeptAndEarned` |
| `SourceReviewProofs!CoverageIsKept` | `[]CoverageIsFurthest` |
| `SourceReviewProofs!ConclusionsAreStable` | `ConclusionsStand` |
| `EvidenceRoundProofs!ReadMeansShownHolds` | `[]ReadMeansShown` |
| `EvidenceRoundProofs!ReadingIsKeptHolds` | `ReadingIsKept` |
| `EvidenceRoundProofs!KeepsItsEvidenceHolds` | `KeepsItsEvidence`, when every report has a body |
| `EvidenceRoundProofs!AbsenceIsWholePageHolds` | `[]AbsenceIsWholePage` |
| `EvidenceRoundProofs!UnreadableFindingIsEarnedHolds` | `[]UnreadableFindingIsEarned` |
| `RefineServiceProofs!VerifiedIsGenuineHolds` | `[]VerifiedIsGenuine` |
| `EdgeProofs!VerdictIsEarnedHolds` | `[]VerdictIsEarned` |
| `EdgeProofs!DegradesExactlyHolds` | `[]DegradesExactlyWhenStaffed` |
| `EdgeProofs!LimitIsExactHolds` | `[]LimitIsExact` |
| `EdgeProofs!DevicesFollowHolds` | `[]DevicesFollowTheirIdentity` |

**Lifecycle.** Assumed: runs are numbered `1..n`, caps are naturals, 0 is no configuration
(`LifecycleAssumption`), and `~ Refining`, without which `OneDriver` is false
(`lifecycle_double`). `OneDriver` is not inductive: that a run taken off the queue is not on a
thread already follows from what the status table says, and that a run put in the queue is not
there already follows, for a submission, from nobody knowing the run yet. The inductive
invariant `Inv` adds these: `Tabled` (the table says `queued` of everything in the queue and
`running` of everything on a thread, each once), `Fresh` (a run on disk and not yet queued
shows as queued, has no live status and no request pending), `BornFirst` (nothing refers to a
run before its first event), `InOrder` (the next number is free, and there is one for each
submission admitted) and `Staged` (a thread has a job exactly while it works on one, on a
run not complete, in an attempt that is counted). `AttemptsAreCapped` adds `Counted`: an
attempt that came to nothing, a run that waits and a request not yet served are all covered
by the first attempt, the automatic ones in the log and the resumes asked for.

**Refinement service.** Assumed: finitely many requests, one of them made once
(`RefineAssumption`). The permits are a sum over three sets, so one lemma moves a permit
between two of them and each action is one of the lemmas. That needs `LingersAfterTheCall`: a
permit held back belongs to a call that has returned, or the same request would be counted
twice. That waiters get what their owner got is not inductive: `Owns` adds that whoever
computes is the one the table names for the question, so that a second owner cannot appear,
and `Settles` that an entry is let go only when the call behind it is over, so that what it
came to cannot change under those it served. That a verified claim is genuine speaks of offers
alone; `Offered` says where they come from: each names the question of a request that is done
and what that request was served. Cutting the list to its most recent and dropping what
expired keep it, since both keep some of what was there.

**Content sweep.** `SweepSparesTheLive` speaks of what was taken; the invariant that makes it
so is `Covered`: during a pass, whoever is live was in the sweep's answer or has joined
since. `Purge` takes nobody in the answer, so from the live it can take only from one that
joined.

**Live status.** The second half of `RunLifecycleProofs` builds on the lifecycle's `Inv`. What a status says follows
from three further facts: `Placed` (the table says where a run is, and only a process that is
stopping drops a queued run), `Accounted` (a run that the log alone says is waiting is in the
boot's backlog, on its way into the queue, or has come to nothing at least once) and `Opened`
(the log of a run whose thread has started no longer says it waits).

**Refine loop.** Assumed: a roster of finite sequences in which no model is called
`external`, finitely many lenses and finding keys, natural budgets (`RosterAssumption`,
`BudgetsAssumption`, `LoopAssumption`); nothing about what critics, writers and arbiters
return, nor about which models a resumed process reaches, as long as startup can staff it.
`AcceptedIsDoubleChecked` compares the verdict with the reviews, while the controller sees
neither: it sees counts in a view one node old and clearance per family computed from clean
records. So the invariant says that what it sees is true when it looks. `Witnessing`: every
clean record has a review behind it with no finding that stands, and a material task has one
that does; this survives rulings only because a ruling falls between a new draft and its
first review (`Fresh`). `Seen`: between triage and control the counts of the view are those of
the reviews. `Decided` is what a decision implies of its input, from the order of the
fourteen rules; `ClearedTwice` turns a count of two into two records of different families.
`Judged` keeps the outcome until the run is done, and `Shipped` and `Ranked` carry it to
what is written. For the findings of a draft picked from the scoreboard, `Reported` relates
three histories of a draft: its trail, its latest row and the rulings since. `Paced` counts
steps against rounds and spent retries with a lead per node. The two theorems about runs that
are never resumed need it: a resume may find the author's model unreachable, and the roster
is judged without it, so a lens may be left to the author alone.

The lemmas on positions come first: the least member of a set of naturals, the n-th, a
turn taken modulo the size, and that a slate is drawn from the eligible and contains somebody new
when there is such a one.

**Writer walk.** Assumed: a non-empty pool of aliases and natural budgets (`ClientAssumption`,
`WalkAssumption`); nothing about the failure classes a proxy answers with or the hints it
gives. The invariant is in two parts, which is how the code is: the client knows nothing of
the walk. Of the client, `Spaced` adds that the hint in force while it waits is that of the
failure it last ended on, `Conversing` that tools are on offer only while a round is left
and that a conversation is answered at all times, `Probing` that a probe has seen every
stronger mode fail before it reaches one. Of the walk, `Noted` says that it has noted every
refusal of the account but the one its attempt under way may end on: a refusal ends its call
at once (`EndsOnRefusal`), so there is at most one to note when the attempt is over. `Kept`
says who wrote a held draft, and that when the walk is over the held draft is the last resort
already. The ceiling of the backoff needs that a power of two is a number; it follows from the
cardinality of a power set.

**Fitness gate.** A file that can be read says of every slot what was last graded, unless its
last rewrite lost that (`FileFollows`). This is not inductive, since a rewrite puts back what a
process read long before: `HandsFollow` says the same of every process under way, that what it
would write is what was last graded, but for what it has measured itself and what it missed.
Reading the file hands the one over to the other, saving hands it back, and a save makes every
other process miss what it measured (`SaveKeeps`). Nothing is assumed about how many processes
there are or how they interleave. The start then carries what the gate found unchanged to its end.

**Auditions.** Assumed: at least one fixture and one repetition, reviews of the form grading
reads, and thresholds of the verdict in percent (`AuditionAssumption`; the fields of
`config.py:623-630` are bounded so). `VerdictIsEarned` is a fact about every exam that may be
handed in (`ExamsAreEarned`), which the invariant carries to the audition under way. A pass
was thorough because the verdict asks for no uncovered fixture and for an obvious sensitivity
above its minimum. For the converse, that a flawless exam passes, sums have to be known: a sum
over finitely many calls is zero when each of them is, so no rate over a control leaves zero.

**Outages.** The gate lets only a healthy roster be probed; what the outage leaves of it is
given pool by pool (`Left`: what is left of a pool is the pool less what is down, and is empty
exactly when all of it is). Health, which the code computes over lists and the property states
over sets, is then one condition (`HealthyIsStaffed`), of the full roster and of what is left.

**Limiter.** Assumed: finitely many requests, natural bounds (`GateAssumption`). What the limiter
remembers is the tail of what it let through (`Remembers`), so that counting the one counts
the other. What it has forgotten is out of the window of the latest call it decided
(`InOrder`), but only for callers none of whose calls overtook another between the clock
and the lock; `LimitIsExact` excepts the same callers. `KeepsItsWord` ties the wait told to a
refused caller to the oldest hit remembered.

**Device notices.** Assumed: finitely many owners and endpoints, a cap of at least one,
`"nobody"` no owner's name (`DevicesAssumption`). That a device is registered with its last
claimant is not inductive, as the cap drops rows: the invariant counts. A row is no farther
from the end of its owner's list than there were registrations of that owner since, so
the cap cannot reach it before that many newer ones were made. Filtering a list brings no
element farther from the end (`OnlyKeeps`).

**Sources.** Assumed: an address names one identifier of a kind at most, a registry supports
some kind, budgets are naturals, drafts are sequences of lines (`LadderConstants`,
`ReviewConstants`). One invariant per reader (`FetchInv`), by rung: past the registries the
verdict in its hands is the one the shared table has, and what it will return is `Earned` by
the page and that verdict. It is stable under the others' steps because a verdict, once in the
table, stays (`Grows`), which is also what `ConclusionsAreStable` rests on. `CoverageIsKept` needs
that "got further" is a strict order on tallies (`FurtherIsTransitive`): then a record that was
replaced by a further one is still reached by everything it reached. That the tallies are
tallies at all is a fact about folds, since entries are gathered line by line.

**Evidence.** Assumed: pages are what a fetch may return and a page with a body is not empty,
reports are sequences of sentences and entries citing finitely many numbers, a reader's
proposals are any sequences of places, the smallest passage is at least one character
(`RoundConstants`, `ReadingConstants`, `CitationConstants`, `ClaimConstants`). Three
invariants. `ReadInv`: what any log says was read in full - of the session, of the held draft,
of the run - was shown, whatever evidence card the reader made of the page: a card reads as full text only
when one of its passages could be afforded, and no passage is empty (`CardType`).
`DraftInv`: what is compared with earlier drafts is a report and rests on finitely many
addresses; the rest of `KeepsItsEvidence` is arithmetic of the loss floor, rounded up, against
the peak, which is at least each earlier count. A report without any sentence has none to
anchor the finding to, hence the hypothesis. `CheckInv`: the check in progress has one verdict
for each of its first citations, in order, and a verdict of absence rests on chunks that cover
the page (`RangesCover`: the steps between two chunks are never longer than a chunk, and the
last ends where the page does).

**Folds.** A `FoldFunction`, `FoldLeft` or `FoldSet` is a recursive function, and its value on
a given input needs induction on that input. `SetInduction` states the principle for a subset
of the naturals that contains 0 and successors, from the order of the naturals being well
founded; with it `FoldDefined`, `FoldKeeps` and `LeftFoldKeeps` say that a fold is
defined and that what every step keeps is true of its result. The step is a function there,
so that the lemmas hold for any.

Model-checked only: `EntriesFollowTheirCitations`, which follows positions through a report that is
spliced, flattened and renumbered, by loops over the operations of a reply; and what is
out of the prover's reach, liveness under fairness (`LiveRunsSettle`, `Terminates`,
`EverySuggestReturns`, `WalksEnd`).

## Left out, and limits of the models

* The text of drafts, prompts and findings, and which words of a page an excerpt shows. A
  finding's identity is its key, so that two wordings of one problem are two keys.
* Model identities are resolved before `ModelClient` begins; a reply is served by the pinned
  model or by another. The pause between two writers' attempts is not modelled, the waits
  inside a call are. `WriterWalk` keeps the reading gates as one trait of a draft; a repair
  keeps the trait, since no gate looks at the repaired text.
* A toolless call returns an empty text when the model calls a tool nobody offered; callers
  treat it as an empty report or a schema failure, as the model does.
* A critic that raised a finding below material severity may arbitrate its dispute, since
  provenance keeps material raisers only (`triage.py:1260` against `dispute.py:6`). A run
  whose thread crashes before its `startup` event still shows as queued
  (`registry.py:200` against `worker.py:480`). Both follow the code; no run is spent on them.
* The passing lifecycle run and its theorems have the refinement feature off, its default
  (`Refining = FALSE`); `lifecycle_double` shows what it changes. An append to the log is
  one step, so the moment between creating the file and writing its first event is not seen.
* Rule 11's comment (`controller.py:121`) says the confirmation budget is spent; the rule is
  also reached with budget left when no unused critic family remains, since a critic that
  failed counts as asked. The model follows the code.
* The deferral cap counts deferrals in a row and is reset by any progress event
  (`registry.py:262`). A critique writes such an event before the account refuses, so a run
  that always defers there is never given up. The fold is modelled; no property is stated,
  since no document says what counts as progress.
* A byte-identical redraft that is then cleared is accepted, although
  `docs/convergence.md` describes repeats as non-convergence; `needs_human_review` is also
  given by rule 12 without a blocking finding.
* A crash between a node's event and its checkpoint repeats the node, so the log may hold
  two `generate` events of one draft. The model's progress step may repeat likewise; the
  timeline view, which counts them, is not modelled.
* `ReportSplice` has one Sources heading, at the end, as every prompt asks for; the code
  takes its entries from the first such section. Label echoes and the fence around a reply
  are wording and left out.
* The `core` registry differs from the others in its key only; `SourceLadder` has the other
  providers. The wire format of a search, request headers and the conversion of a PDF are
  left out.
* `SubmissionGate` has one limiter, as each route has its own. The signing key and the payload
  of a notice are left out. The event stream's slots are given back by the web framework
  (`app.py:682`), whose behaviour on a client that leaves is not in the repository.
* Not modelled at all: web views and rendering (reads of what the registry returns), prompts
  (wording), intake and export (document conversion), the command line apart from
  `ra audition`, and the CI review scripts, which are not part of the running program.

## Plan

Done: the loop and its contract, writer walk and client, document edits, sources, evidence,
startup and auditions, lifecycle, refinement service and the small mechanisms of the web edge.
What would come next, in order:

1. `EntriesFollowTheirCitations` for any report and any reply, from `OnlyKeeps` and `FlattenType`
   and an account of where a splice leaves each entry.
2. `RefineLoop` with `EvidenceRound` in place of its critique step, if the evidence state can be
   kept small enough to explore.
3. The manual purge against a live run; the refinement audition, which shares `audition.py`'s
   cache file format.
