----------------------------- MODULE ModelClient -----------------------------
(***************************************************************************)
(* The client every model is called through: one request is retried within *)
(* a budget, spaced by the provider's own hint or by exponential backoff;  *)
(* on top of it a tool loop that must end in an answer, a structured call  *)
(* that repairs an answer outside its schema, and the two startup probes   *)
(* that pin what an alias can do for the life of the process.              *)
(*                                                                         *)
(* One call of one thread at a time: threads share nothing of a call, and  *)
(* the probes run at startup.  A reply is what _create tells apart: who    *)
(* served it, what its text is, and whether it carries tool calls.         *)
(***************************************************************************)
EXTENDS Integers, Sequences, FiniteSets

CONSTANTS
  Aliases,
  Failures,        \* classes of failed exchange the proxy may answer with
  Hints,           \* Retry-After values a refusal may carry, beside none
  CallRetries, RepairRetries, MaxToolRounds,
  Backoff, BackoffMax, HintCap,
  Lookups          \* searches and reads the tools may still serve

NoHint == 0
Modes == <<"json_schema", "json_object", "prompt">>
Unknown == "unknown"
PermanentClasses ==
  {"http_400", "http_401", "http_403", "http_404", "http_413", "http_422"}
AccountClass == "http_402"
\* classes of an answered exchange _create sends again
Hollow == {"empty_completion", "unparsed_tool_markup"}
\* classes of an answered exchange it raises at once
Unusable == {"identity_mismatch", "malformed_response"}

ASSUME ClientAssumption ==
  /\ CallRetries \in Nat /\ RepairRetries \in Nat /\ MaxToolRounds \in Nat \ {0}
  /\ Backoff \in Nat /\ BackoffMax \in Nat /\ Backoff <= BackoffMax
  /\ HintCap \in Nat \ {0} /\ Hints \subseteq Nat \ {0} /\ Lookups \in Nat

VARIABLES
  call,        \* the call under way, or the last one
  at,          \* "idle", "waiting", "sent" or "replied"
  attempt,     \* retries of the request made so far
  hint,        \* Retry-After of the failure that caused the retry
  waited,      \* delay served before the attempt in flight
  reply,       \* what the provider last answered with
  outcome,     \* how the call ended: "ok" or a failure class
  last,        \* the failure the request under way last ended on
  lookups,     \* what is left of the retrieval budget
  modes,       \* [alias -> structured-output mode pinned for it]
  toolCapable, \* [alias -> pinned ability to call tools]
  unrecorded,  \* HTTP attempts the audit trail has no record of yet
  observed     \* [alias -> modes it was seen to answer in, and not to]

requestVars == <<attempt, hint, waited, last>>
capabilityVars == <<modes, toolCapable>>
recordVars == <<unrecorded, observed>>
clientVars == <<call, at, requestVars, reply, outcome, lookups, capabilityVars, recordVars>>

Kinds == {"plain", "tools", "structured", "probe_mode", "probe_tools"}

(* What a provider may answer with.  Text a schema accepts is "valid", any *)
(* other prose "prose"; markup is a tool call the proxy failed to parse.   *)
NoReply == [served |-> "pinned", text |-> "none", calls |-> 0]
Replies ==
  [served : {"pinned"}, text : {"none", "prose", "valid"}, calls : 0..1]
    \cup {[NoReply EXCEPT !.text = "markup"]}
    \cup {[NoReply EXCEPT !.served = s] : s \in {"another", "broken"}}

Verdict(r) ==
  IF r.served = "broken" THEN "malformed_response"
  ELSE IF r.served = "another" THEN "identity_mismatch"
  ELSE IF r.calls > 0 THEN "ok"
  ELSE IF r.text = "none" THEN "empty_completion"
  ELSE IF r.text = "markup" THEN "unparsed_tool_markup"
  ELSE "ok"

NoFailure == [class |-> "ok", hint |-> NoHint]

(* A call begins with tools on offer when its kind has any: a probe always *)
(* offers one, the loop while its rounds and the retrieval budgets last.   *)

\* Fault: a round more than the loop has.
OfferedOneMore(round, left) == round <= MaxToolRounds /\ left > 0

Offered(round, left) == round # MaxToolRounds /\ left > 0

NewCall(k, a) ==
  [kind |-> k, alias |-> a, mode |-> 1, repairs |-> 0, round |-> 0,
   offering |-> k = "tools" /\ Offered(0, lookups), nudged |-> FALSE,
   open |-> 0, withdrawn |-> FALSE, read |-> FALSE]

Init ==
  /\ call \in {[NewCall("plain", a) EXCEPT !.offering = FALSE] : a \in Aliases}
  /\ at = "idle" /\ attempt = 0 /\ hint = NoHint /\ waited = 0 /\ last = NoFailure
  /\ reply = NoReply /\ outcome = "ok" /\ lookups = Lookups
  /\ modes = [a \in Aliases |-> Unknown]
  /\ toolCapable = [a \in Aliases |-> Unknown]
  /\ unrecorded = 0
  /\ observed = [a \in Aliases |-> [yes |-> {}, no |-> {}]]

-----------------------------------------------------------------------------
(* _create: one request within its retry budget.                           *)

Request ==
  /\ at' = "waiting"
  /\ attempt' = 0 /\ hint' = NoHint /\ last' = NoFailure
  /\ reply' = NoReply

(* The wait before retry number n, the server's hint before our own guess; *)
(* the jitter takes off up to half of the latter.                          *)
Least(x, y) == IF x <= y THEN x ELSE y

Delays(n, h) ==
  IF n = 0 THEN {0}
  ELSE IF h # NoHint THEN {h}
  ELSE LET whole == Least(Backoff * 2 ^ (n - 1), BackoffMax)
       IN  {whole, (whole + 1) \div 2}

Send ==
  /\ at = "waiting"
  /\ waited' \in Delays(attempt, hint)
  /\ at' = "sent" /\ unrecorded' = unrecorded + 1
  /\ UNCHANGED <<call, attempt, hint, last, reply, outcome, lookups,
                 capabilityVars, observed>>

(* Fault: an exchange that raised is missing from the audit trail. *)
RecordUnlessRaised(class) ==
  unrecorded' = unrecorded - (IF class \in Unusable THEN 0 ELSE 1)

Record(class) == unrecorded' = unrecorded - 1

(* The call ends, and with it everything it kept of its rounds.            *)
Over ==
  /\ at' = "idle"
  /\ call' = [NewCall(call.kind, call.alias) EXCEPT !.offering = FALSE, !.read = call.read]
  /\ attempt' = 0 /\ hint' = NoHint

(* A call that raised ends whatever it was part of; only a probe turns the *)
(* failure into one of its own.                                            *)
Raise(class) ==
  /\ Over
  /\ outcome' = IF call.kind \in {"probe_mode", "probe_tools"}
                THEN "probe_incomplete" ELSE class

(* Fault: a hollow answer leaves the hint of an earlier refusal in force. *)
RetryOnOldHint(class, h) ==
  /\ attempt < CallRetries
  /\ attempt' = attempt + 1 /\ hint' = IF h = NoHint THEN hint ELSE h
  /\ at' = "waiting" /\ UNCHANGED <<call, outcome>>

Retry(class, h) ==
  /\ attempt < CallRetries
  /\ attempt' = attempt + 1 /\ hint' = h
  /\ at' = "waiting" /\ UNCHANGED <<call, outcome>>

GiveUp(class) ==
  /\ attempt = CallRetries
  /\ Raise(class)

FinalClasses == PermanentClasses \cup {AccountClass}

(* A refusal of the request or of the account is never sent again.         *)
Fails(class, h) ==
  /\ at = "sent" /\ Record(class)
  /\ last' = [class |-> class, hint |-> h] /\ waited' = 0
  /\ IF class \in FinalClasses
     THEN Raise(class)
     ELSE Retry(class, Least(h, HintCap)) \/ GiveUp(class)
  /\ UNCHANGED <<reply, lookups, capabilityVars, observed>>

(* What an answer in the mode being probed adds to what was seen of it.    *)
Evidence(seen, r) ==
  IF r.text = "valid"
  THEN [seen EXCEPT !.yes = @ \cup {call.mode}]
  ELSE [seen EXCEPT !.no = @ \cup {call.mode}]

(* An answer served by another model, or of a shape the client cannot      *)
(* read, raises; one with nothing in it is sent again.  What a probe saw   *)
(* of the alias is noted for the record only.                              *)
Answers(r) ==
  /\ at = "sent" /\ Record(Verdict(r))
  /\ last' = [class |-> Verdict(r), hint |-> NoHint] /\ waited' = 0
  /\ CASE Verdict(r) = "ok" ->
            /\ at' = "replied" /\ reply' = r /\ UNCHANGED <<call, attempt, hint, outcome>>
       [] Verdict(r) \in Unusable ->
            Raise(Verdict(r)) /\ UNCHANGED reply
       [] Verdict(r) \in Hollow ->
            /\ Retry(Verdict(r), NoHint) \/ GiveUp(Verdict(r))
            /\ UNCHANGED reply
  /\ observed' =
       IF call.kind = "probe_mode" /\ Verdict(r) = "ok"
       THEN [observed EXCEPT ![call.alias] = Evidence(@, r)]
       ELSE observed
  /\ UNCHANGED <<lookups, capabilityVars>>

Exchange ==
  \/ Send
  \/ \E class \in Failures, h \in Hints \cup {NoHint} :
       /\ class \in {"timeout", "connection"} => h = NoHint
       /\ Fails(class, h)
  \/ \E r \in Replies :
       /\ r.text = "valid" => call.kind \in {"structured", "probe_mode"}
       /\ Answers(r)

-----------------------------------------------------------------------------
(* What the call does with a usable reply.                                 *)

Finish(result) ==
  /\ Over /\ outcome' = result
  /\ UNCHANGED <<waited, last>>

(* complete without tools: the text as it came, even none when the model   *)
(* called a tool nobody offered.                                           *)
PlainReturns ==
  /\ at = "replied" /\ call.kind = "plain"
  /\ Finish("ok")
  /\ UNCHANGED <<reply, lookups, capabilityVars, recordVars>>

(* complete with tools: every call of the reply joins the conversation with *)
(* its answer, so none is left open, and the tools are gone for good once  *)
(* a round had none.                                                       *)
ToolRound ==
  /\ at = "replied" /\ call.kind = "tools" /\ ~call.nudged
  /\ call.offering /\ reply.calls > 0
  /\ \E opened \in BOOLEAN :
       /\ lookups' = IF lookups > reply.calls THEN lookups - reply.calls ELSE 0
       /\ lookups = 0 => ~opened
       /\ call' = [call EXCEPT
            !.round = @ + 1,
            !.offering = Offered(call.round + 1, lookups'),
            !.withdrawn = @ \/ ~Offered(call.round + 1, lookups'),
            !.read = @ \/ opened]
  /\ Request
  /\ UNCHANGED <<waited, outcome, capabilityVars, recordVars>>

(* Fault: the unanswered tool call is kept in the conversation. *)
AskAfterAll == [call EXCEPT !.nudged = TRUE, !.open = @ + reply.calls,
                               !.offering = FALSE, !.withdrawn = TRUE]

(* Fault: the model is asked for its answer as often as it gives none.     *)
AskForever == [call EXCEPT !.offering = FALSE, !.withdrawn = TRUE]

Nudged == [call EXCEPT !.nudged = TRUE, !.offering = FALSE, !.withdrawn = TRUE]

AnswerNow ==
  /\ at = "replied" /\ call.kind = "tools" /\ ~call.nudged
  /\ ~(call.offering /\ reply.calls > 0)
  /\ reply.text = "none"
  /\ call' = Nudged
  /\ Request
  /\ UNCHANGED <<waited, outcome, lookups, capabilityVars, recordVars>>

ToolsReturn ==
  /\ at = "replied" /\ call.kind = "tools"
  /\ call.nudged \/ ~(call.offering /\ reply.calls > 0)
  /\ \/ reply.text # "none" /\ Finish("ok")
     \/ call.nudged /\ reply.text = "none" /\ Finish("tool_loop_no_answer")
  /\ UNCHANGED <<reply, lookups, capabilityVars, recordVars>>

(* structured: what the schema refuses is asked again with the reason, a   *)
(* bounded number of times.                                                *)
Repairs == IF call.kind = "probe_mode" THEN 0 ELSE RepairRetries

StructuredReturns ==
  /\ at = "replied" /\ call.kind = "structured"
  /\ \/ reply.text = "valid" /\ Finish("ok")
     \/ /\ reply.text # "valid" /\ call.repairs = Repairs
        /\ Finish("malformed_output")
  /\ UNCHANGED <<reply, lookups, capabilityVars, recordVars>>

Repair ==
  /\ at = "replied" /\ call.kind = "structured"
  /\ reply.text # "valid" /\ call.repairs < Repairs
  /\ call' = [call EXCEPT !.repairs = @ + 1]
  /\ Request
  /\ UNCHANGED <<waited, outcome, lookups, capabilityVars, recordVars>>

(* Fault: any text at all is evidence of the mode. *)
PinAnyText ==
  /\ at = "replied" /\ call.kind = "probe_mode" /\ reply.text # "none"
  /\ modes' = [modes EXCEPT ![call.alias] = Modes[call.mode]]
  /\ Finish("ok")
  /\ UNCHANGED <<reply, lookups, toolCapable, recordVars>>

(* probe_structured_output: the strongest mode the alias answered in, and  *)
(* only an answer outside the schema moves on to a weaker one.             *)
PinMode ==
  /\ at = "replied" /\ call.kind = "probe_mode" /\ reply.text = "valid"
  /\ modes' = [modes EXCEPT ![call.alias] = Modes[call.mode]]
  /\ Finish("ok")
  /\ UNCHANGED <<reply, lookups, toolCapable, recordVars>>

WeakerMode ==
  /\ at = "replied" /\ call.kind = "probe_mode" /\ reply.text # "valid"
  /\ \/ /\ call.mode < Len(Modes)
        /\ call' = [call EXCEPT !.mode = @ + 1]
        /\ Request /\ UNCHANGED <<waited, outcome>>
     \/ call.mode = Len(Modes) /\ Finish("no_structured_output") /\ UNCHANGED reply
  /\ UNCHANGED <<lookups, capabilityVars, recordVars>>

(* probe_tool_calling: whether the reply carried a call at all.            *)
PinTools ==
  /\ at = "replied" /\ call.kind = "probe_tools"
  /\ toolCapable' = [toolCapable EXCEPT ![call.alias] = IF reply.calls > 0 THEN "yes" ELSE "no"]
  /\ Finish("ok")
  /\ UNCHANGED <<reply, lookups, modes, recordVars>>

Continue ==
  \/ PlainReturns \/ ToolRound \/ AnswerNow \/ ToolsReturn
  \/ StructuredReturns \/ Repair \/ PinMode \/ WeakerMode \/ PinTools

-----------------------------------------------------------------------------
(* A caller begins a call.  A probe whose verdict is pinned answers from   *)
(* it without one.                                                         *)
Begin(k, a) ==
  /\ at = "idle"
  /\ k = "probe_mode" => modes[a] = Unknown
  /\ k = "probe_tools" => toolCapable[a] = Unknown
  /\ call' = NewCall(k, a)
  /\ Request
  /\ outcome' = "pending"
  /\ UNCHANGED <<waited, lookups, capabilityVars, recordVars>>

Steps == Exchange \/ Continue

=============================================================================
