--------------------------- MODULE CriticAudition ---------------------------
(***************************************************************************)
(* The exam a critic sits for one lens (audition.py): the whole fixture    *)
(* corpus, every fixture several times, each review graded mechanically,   *)
(* the counts turned into a verdict.  A planted fixture carries one        *)
(* defect; a control carries none.  An issue is described by what the      *)
(* grading tells apart: where it points, whether its category is the       *)
(* planted one, another of the lens or stylistic, and its severity.        *)
(* Rates are compared in percent by cross-multiplication.                  *)
(***************************************************************************)
EXTENDS Integers, FiniteSets, Functions

CONSTANTS
  Tier,                   \* [fixture -> "obvious", "moderate" or "control"]
  Repetitions,
  MaxSchemaFailureRate, MinObviousSensitivity, WarnLensSensitivity,
  MaxControlMaterialRate, WarnControlMaterialRate,
  Exams                   \* the exams a critic may hand in

Fixtures == DOMAIN Tier
Controls == {f \in Fixtures : Tier[f] = "control"}
Planted == Fixtures \ Controls

(* An exam: the review of every owed fixture at every repetition. *)
Calls == Fixtures \X (1..Repetitions)

Issues == [near : BOOLEAN, category : {"planted", "sibling", "stylistic"},
           severity : {"minor", "major"}]
Reviews == [failed : {FALSE}, issues : SUBSET Issues] \cup [failed : {TRUE}, issues : {{}}]

ASSUME AuditionAssumption ==
  /\ Repetitions \in Nat \ {0}
  /\ IsFiniteSet(Fixtures) /\ Fixtures # {}
  /\ {MaxSchemaFailureRate, MinObviousSensitivity, WarnLensSensitivity} \subseteq 0..100
  /\ {MaxControlMaterialRate, WarnControlMaterialRate} \subseteq Nat
  /\ Exams # {} /\ Exams \subseteq [Calls -> Reviews]

-----------------------------------------------------------------------------
(* What production would count: the category's floor lifts the severity,   *)
(* and a stylistic note never counts.  A planted category floors at major. *)
Material(i) ==
  /\ i.category # "stylistic"
  /\ i.severity = "major" \/ i.category = "planted"

(* A planted defect is found by a material issue of its own lens there. *)
LocusMatches(i) == i.near
Detected(review) == \E i \in review.issues : LocusMatches(i) /\ Material(i)

MaterialIssueCount(review) == Cardinality({i \in review.issues : Material(i)})

(* The counters of one assignment.  A failed call is neither a miss nor    *)
(* noise: it leaves every rate, and only a fixture no repetition could     *)
(* grade is uncovered.                                                     *)
RunAssignment(exam) ==
  LET graded == {c \in Calls : ~ exam[c].failed}
      on(S) == {c \in graded : c[1] \in S}
      found(S) == Cardinality({c \in on(S) : Detected(exam[c])})
      obvious == {f \in Planted : Tier[f] = "obvious"}
      noise(c) == MaterialIssueCount(exam[c])
  IN [calls                 |-> Cardinality(Calls),
      schemaFailures        |-> Cardinality(Calls \ graded),
      uncoveredFixtures     |-> Fixtures \ {c[1] : c \in graded},
      plantedTotal          |-> Cardinality(on(Planted)),
      sameLensHits          |-> found(Planted),
      obviousTotal          |-> Cardinality(on(obvious)),
      obviousHits           |-> found(obvious),
      controlRuns           |-> Cardinality(on(Controls)),
      controlMaterialIssues |-> FoldFunction(+, 0, [c \in on(Controls) |-> noise(c)]),
      controlCleanRuns      |-> Cardinality({c \in on(Controls) : noise(c) = 0})]

-----------------------------------------------------------------------------
(* a / b against a threshold in percent; an empty denominator is rate 0.   *)
Above(a, b, percent) == b > 0 /\ 100 * a > percent * b
Below(a, b, percent) == b > 0 /\ 100 * a < percent * b

(* A fault: the rate of failed calls alone, so a fixture the critic never  *)
(* answered drops out of its own exam. *)
UnmeasurableByRate(m) == Above(m.schemaFailures, m.calls, MaxSchemaFailureRate)

(* The mechanical gates, before any rate is looked at. *)
Unmeasurable(m) ==
  \/ Above(m.schemaFailures, m.calls, MaxSchemaFailureRate)
  \/ m.uncoveredFixtures # {}

(* The critic reviews nothing, or lets nothing through. *)
Incapable(m) ==
  \/ m.obviousTotal > 0 /\ m.obviousHits = 0
  \/ Above(m.controlMaterialIssues, m.controlRuns, MaxControlMaterialRate)
  \/ m.controlRuns > 0 /\ m.controlCleanRuns = 0
  \/ Below(m.obviousHits, m.obviousTotal, MinObviousSensitivity)

Doubtful(m) ==
  \/ Below(m.sameLensHits, m.plantedTotal, WarnLensSensitivity)
  \/ Above(m.controlMaterialIssues, m.controlRuns, WarnControlMaterialRate)

Ungraded(m) == m.plantedTotal = 0 /\ m.controlRuns = 0

Judge(m) ==
  CASE m.calls = 0 -> "insufficient"
    [] m.calls > 0 /\ Unmeasurable(m) -> "unfit"
    [] m.calls > 0 /\ ~ Unmeasurable(m) /\ Ungraded(m) -> "insufficient"
    [] m.calls > 0 /\ ~ Unmeasurable(m) /\ ~ Ungraded(m) ->
         IF Incapable(m) THEN "unfit" ELSE IF Doubtful(m) THEN "marginal" ELSE "fit"

-----------------------------------------------------------------------------
(* What an exam shows, read off the reviews themselves.  Thorough: every   *)
(* fixture has a review, an obvious defect was seen, a sound report was    *)
(* once let through.  Flawless: nothing failed, missed or invented.        *)
Counts(i) == i.category = "planted" \/ (i.category = "sibling" /\ i.severity = "major")
Sees(review) == \E i \in review.issues : i.near /\ Counts(i)
Clean(review) == ~ review.failed /\ \A i \in review.issues : ~ Counts(i)

Thorough(exam) ==
  /\ \A f \in Fixtures : \E r \in 1..Repetitions : ~ exam[<<f, r>>].failed
  /\ (\E f \in Fixtures : Tier[f] = "obvious") =>
       \E c \in Calls : Tier[c[1]] = "obvious" /\ Sees(exam[c])
  /\ Controls # {} => \E c \in Calls : c[1] \in Controls /\ Clean(exam[c])

Flawless(exam) ==
  \A c \in Calls : IF c[1] \in Controls THEN Clean(exam[c]) ELSE Sees(exam[c])

(* An exam as it is kept: its counts, and beside them what it shows. *)
Standing(exam) ==
  IF Flawless(exam) THEN "flawless" ELSE IF Thorough(exam) THEN "thorough" ELSE "partial"

(* The verdict is what the exam shows. *)
Earned(result) ==
  LET verdict == Judge(result.metrics)
  IN /\ verdict \in {"fit", "marginal"} => result.shows \in {"thorough", "flawless"}
     /\ result.shows = "flawless" => verdict = "fit"

Graded == {[metrics |-> RunAssignment(e), shows |-> Standing(e)] : e \in Exams}
=============================================================================
