-------------------------- MODULE WriterWalkProofs --------------------------
(***************************************************************************)
(* That the client and the walk over it keep their promises for any pool,  *)
(* any budgets and any failures: the waits, the records and the            *)
(* conversation of a request; the evidence behind a pinned mode; what an   *)
(* account's refusal means for the run; and which draft may ship.          *)
(***************************************************************************)
EXTENDS WriterWalk, FiniteSetTheorems, TLAPS

-----------------------------------------------------------------------------
(* The invariant of the client.                                            *)

Calls ==
  [kind : Kinds, alias : Aliases, mode : 1..3,
   repairs : 0..RepairRetries, round : 0..MaxToolRounds,
   offering : BOOLEAN, nudged : BOOLEAN,
   open : 0..MaxToolRounds, withdrawn : BOOLEAN, read : BOOLEAN]

CallTyped ==
  /\ call \in Calls
  /\ at \in {"idle", "waiting", "sent", "replied"}
  /\ attempt \in 0..CallRetries /\ hint \in 0..HintCap
  /\ reply \in Replies /\ lookups \in 0..Lookups

CapabilityTyped ==
  /\ modes \in [Aliases -> {Modes[i] : i \in 1..3} \cup {Unknown}]
  /\ toolCapable \in [Aliases -> {"yes", "no", Unknown}]
  /\ observed \in [Aliases -> [yes : SUBSET (1..3), no : SUBSET (1..3)]]

(* Tools are on offer only while a round is left to serve them, and a      *)
(* conversation has nothing unanswered at any time, not only when it is    *)
(* sent.                                                                   *)
Conversing ==
  /\ call.open = 0
  /\ call.withdrawn => ~ call.offering
  /\ call.offering => call.round < MaxToolRounds

(* The hint in force is the one of the failure the request last ended on.  *)
Spaced ==
  /\ last.hint \in Nat
  /\ at = "waiting" => hint = Least(last.hint, HintCap)
  /\ RetriesAreSpaced

(* A probe that reached a mode has seen every stronger one fail.           *)
Probing ==
  call.kind = "probe_mode" =>
    /\ at # "idle" => 1..(call.mode - 1) \subseteq observed[call.alias].no
    /\ at = "replied" =>
         IF reply.text = "valid"
         THEN call.mode \in observed[call.alias].yes
         ELSE call.mode \in observed[call.alias].no

ClientInv ==
  /\ CallTyped /\ CapabilityTyped /\ Conversing /\ Spaced
  /\ Probing /\ PinnedModeIsProven /\ EveryAttemptIsRecorded

-----------------------------------------------------------------------------
(* The invariant of the walk.                                              *)

Undecided == {"off", "ready", "asking", "over"}

WalkTyped ==
  /\ walk \in Undecided \cup {"chosen", "repairing", "done"}
  /\ start \in Nat
  /\ offset \in 0..WriterAttempts /\ pos \in 0..offset
  /\ nudged \subseteq tried /\ tried \subseteq Everyone
  /\ held \in {<<>>} \cup {<<d>> : d \in Drafts}
  /\ chosen \in {<<>>} \cup {<<d>> : d \in Drafts}
  /\ repairs \in 0..RepairCap
  /\ refusedOnce \in BOOLEAN /\ refusals \in BOOLEAN

(* Where the walk stands: nothing is chosen or concluded while it goes on, *)
(* and the client is its own only while it waits for an answer.            *)
Staged ==
  /\ walk \in Undecided => chosen = <<>>
  /\ walk \in {"chosen", "repairing"} => chosen # <<>>
  /\ result # "none" => walk = "done"
  /\ walk \in {"ready", "over", "chosen", "done"} => at = "idle"
  /\ walk = "asking" =>
       /\ offset < WriterAttempts
       /\ call.kind \in {"plain", "tools"}
       /\ call.alias = InPool(start + pos) /\ call.alias \in tried

(* The walk has noted the account's refusals, but for the attempt under    *)
(* way: a request fails on the account at most once, and ends with it.     *)
Noted ==
  /\ at # "idle" => last.class # AccountClass
  /\ walk \in {"off", "ready", "over"} => refusals = refusedOnce
  /\ walk = "asking" =>
       (refusals <=> refusedOnce \/ (at = "idle" /\ outcome = AccountClass))

Credited(d) == InPool(start + d.place) = d.writer

(* A draft that is held or ships was written by the writer at its place,   *)
(* and when the walk is over the held one is all that can come.            *)
Kept ==
  /\ \A d \in Drafts : held = <<d>> \/ chosen = <<d>> => Credited(d)
  /\ walk = "over" =>
       /\ held # <<>>
       /\ \/ offset + 1 >= WriterAttempts
          \/ Everyone \subseteq tried /\ held[1].writer \in nudged

WalkInv ==
  /\ WalkTyped /\ Staged /\ Noted /\ Kept
  /\ AccountRefusalIsNoVerdict /\ UnreadDraftIsLastResort

Inv == ClientInv /\ WalkInv

-----------------------------------------------------------------------------
(* The wait the client chooses of its own accord is never above its        *)
(* ceiling, whatever the number of the retry.                              *)
LEMMA PowersAreNumbers == \A n \in Nat : 2 ^ n \in Nat
<1> TAKE n \in Nat
<1>1. IsFiniteSet(1..n) /\ Cardinality(1..n) = n
  BY FS_Interval
<1>2. IsFiniteSet(SUBSET (1..n)) /\ Cardinality(SUBSET (1..n)) = 2 ^ n
  BY <1>1, FS_SUBSET
<1> QED BY <1>2, FS_CardinalityType

LEMMA BackoffIsCapped ==
  ASSUME NEW n \in Nat \ {0}, NEW d \in Delays(n, NoHint)
  PROVE  d <= BackoffMax
<1>1. PICK p \in Nat : p = 2 ^ (n - 1)
  BY PowersAreNumbers
<1>2. Backoff * p \in Nat
  BY ClientAssumption DEF ClientAssumption
<1> DEFINE whole == Least(Backoff * p, BackoffMax)
<1>3. whole \in Nat /\ whole <= BackoffMax
  BY <1>2, ClientAssumption DEF ClientAssumption, Least
<1>4. d \in {whole, (whole + 1) \div 2}
  BY <1>1 DEF Delays
<1> HIDE DEF whole
<1> QED BY <1>3, <1>4, ClientAssumption DEF ClientAssumption

(* The rotation always lands on a writer of the pool. *)
LEMMA PoolPlaces == \A i \in Nat : InPool(i) \in Everyone
<1> TAKE i \in Nat
<1>1. Len(Pool) \in Nat \ {0} /\ DOMAIN Pool = 1..Len(Pool)
  BY WalkAssumption DEF WalkAssumption
<1>2. i % Len(Pool) \in 0..(Len(Pool) - 1)
  BY <1>1
<1> QED BY <1>1, <1>2 DEF InPool, Everyone

LEMMA WritersAreAliases == Everyone \subseteq Aliases
  BY WalkAssumption DEF WalkAssumption, Everyone

LEMMA NoReplyIsAReply == NoReply \in Replies
  BY DEF NoReply, Replies

LEMMA CallsAreCounted == \A r \in Replies : r.calls \in 0..1
  BY DEF NoReply, Replies

-----------------------------------------------------------------------------
(* What a step leaves alone.                                               *)
LEMMA CapabilitiesStay ==
  ASSUME CapabilityTyped, PinnedModeIsProven, UNCHANGED <<capabilityVars, observed>>
  PROVE  CapabilityTyped' /\ PinnedModeIsProven'
  BY DEF CapabilityTyped, PinnedModeIsProven, capabilityVars

(* The call ends as it began: with nothing on offer and nothing open.      *)
LEMMA OverClears ==
  ASSUME CallTyped, Over, last'.hint \in Nat, unrecorded' = 0,
         reply' \in Replies, lookups' \in 0..Lookups
  PROVE  /\ CallTyped' /\ Conversing' /\ Spaced' /\ Probing' /\ EveryAttemptIsRecorded'
         /\ call'.kind = call.kind /\ call'.alias = call.alias
<1>1. call' = [kind |-> call.kind, alias |-> call.alias, mode |-> 1, repairs |-> 0,
               round |-> 0, offering |-> FALSE, nudged |-> FALSE, open |-> 0,
               withdrawn |-> FALSE, read |-> call.read]
  BY DEF Over, NewCall, Offered, CallTyped, Calls
<1>2. CallTyped'
  <2>1. call.kind \in Kinds /\ call.alias \in Aliases /\ call.read \in BOOLEAN
    BY DEF CallTyped, Calls
  <2>2. at' = "idle" /\ attempt' = 0 /\ hint' = 0
    BY DEF Over, NoHint
  <2>3. attempt' \in 0..CallRetries /\ hint' \in 0..HintCap
    BY <2>2, ClientAssumption DEF ClientAssumption
  <2>4. call' \in Calls
    BY <1>1, <2>1, ClientAssumption DEF Calls, ClientAssumption
  <2> QED BY <2>2, <2>3, <2>4 DEF CallTyped
<1>3. Conversing'
  BY <1>1 DEF Conversing
<1>4. Spaced' /\ Probing' /\ EveryAttemptIsRecorded'
  BY DEF Over, Spaced, Probing, EveryAttemptIsRecorded, RetriesAreSpaced
<1> QED BY <1>1, <1>2, <1>3, <1>4

(* A request begins with no failure behind it.                             *)
LEMMA RequestBegins ==
  ASSUME ClientInv, at # "sent", Request, UNCHANGED unrecorded
  PROVE  Spaced' /\ EveryAttemptIsRecorded' /\ reply' \in Replies /\ at' = "waiting"
         /\ attempt' = 0 /\ hint' = 0
  BY NoReplyIsAReply, ClientAssumption
     DEF ClientInv, Request, Spaced, RetriesAreSpaced, EveryAttemptIsRecorded, Least,
         NoHint, NoFailure, ClientAssumption

-----------------------------------------------------------------------------
LEMMA BeginKeeps ==
  ASSUME ClientInv, NEW k \in Kinds, NEW a \in Aliases, Begin(k, a)
  PROVE  ClientInv'
<1> USE DEF ClientInv
<1>1. /\ Spaced' /\ EveryAttemptIsRecorded' /\ reply' \in Replies /\ at' = "waiting"
      /\ attempt' = 0 /\ hint' = 0
  BY RequestBegins DEF Begin, recordVars
<1>2. CapabilityTyped' /\ PinnedModeIsProven'
  BY CapabilitiesStay DEF Begin, recordVars
<1>3. CallTyped' /\ Conversing'
  BY <1>1, ClientAssumption DEF Begin, NewCall, Offered, CallTyped, Calls, Conversing, ClientAssumption
<1>4. Probing'
  BY <1>1 DEF Begin, NewCall, Probing
<1> QED BY <1>1, <1>2, <1>3, <1>4

LEMMA SendKeeps ==
  ASSUME ClientInv, Send
  PROVE  ClientInv'
<1> USE DEF ClientInv, Send
<1>1. CapabilityTyped' /\ PinnedModeIsProven'
  BY CapabilitiesStay
<1>2. CallTyped' /\ Conversing' /\ Probing' /\ EveryAttemptIsRecorded'
  BY DEF CallTyped, Conversing, Probing, EveryAttemptIsRecorded
<1>3. Spaced'
  <2>1. hint = Least(last.hint, HintCap) /\ last.hint \in Nat /\ attempt \in Nat
    BY ClientAssumption DEF Spaced, CallTyped, ClientAssumption
  <2>2. CASE attempt = 0
    BY <2>1, <2>2 DEF Spaced, RetriesAreSpaced
  <2>3. CASE attempt > 0 /\ last.hint = NoHint
    <3>1. hint = NoHint
      BY <2>1, <2>3, ClientAssumption DEF Least, NoHint, ClientAssumption
    <3>2. waited' <= BackoffMax
      BY <2>1, <2>3, <3>1, BackoffIsCapped
    <3> QED BY <2>1, <2>3, <3>2 DEF Spaced, RetriesAreSpaced
  <2>4. CASE attempt > 0 /\ last.hint # NoHint
    <3>1. hint # NoHint
      BY <2>1, <2>4, ClientAssumption DEF Least, NoHint, ClientAssumption
    <3>2. waited' = hint
      BY <2>1, <2>4, <3>1 DEF Delays
    <3> QED BY <2>1, <2>4, <3>2 DEF Spaced, RetriesAreSpaced
  <2> QED BY <2>1, <2>2, <2>3, <2>4
<1> QED BY <1>1, <1>2, <1>3

(* A failed exchange is sent again with the failure's own hint, up to the  *)
(* cap.                                                                    *)
LEMMA RetryKeeps ==
  ASSUME CallTyped, Conversing, NEW class, NEW h \in Nat,
         Retry(class, Least(h, HintCap)), last'.hint = h, unrecorded' = 0,
         UNCHANGED <<reply, lookups>>
  PROVE  /\ CallTyped' /\ Conversing' /\ Spaced' /\ EveryAttemptIsRecorded'
         /\ at' = "waiting" /\ call' = call
<1>1. hint' = Least(h, HintCap) /\ hint' \in 0..HintCap /\ attempt' \in 0..CallRetries
  BY ClientAssumption DEF Retry, Least, CallTyped, ClientAssumption
<1> QED BY <1>1 DEF Retry, CallTyped, Conversing, Spaced, EveryAttemptIsRecorded, RetriesAreSpaced

LEMMA FailsKeeps ==
  ASSUME ClientInv, NEW class \in Failures, NEW h \in Hints \cup {NoHint}, Fails(class, h)
  PROVE  ClientInv'
<1> USE DEF ClientInv
<1>1. h \in Nat /\ last'.hint = h /\ unrecorded' = 0
  BY ClientAssumption DEF Fails, Record, EveryAttemptIsRecorded, ClientAssumption, NoHint
<1>2. reply' \in Replies /\ lookups' \in 0..Lookups
  BY DEF Fails, CallTyped
<1>3. CapabilityTyped' /\ PinnedModeIsProven'
  BY CapabilitiesStay DEF Fails
<1>4. CASE Over
  BY <1>1, <1>2, <1>3, <1>4, OverClears
<1>5. CASE Retry(class, Least(h, HintCap))
  <2>1. /\ CallTyped' /\ Conversing' /\ Spaced' /\ EveryAttemptIsRecorded'
        /\ at' = "waiting" /\ call' = call
    BY <1>1, <1>5, RetryKeeps DEF Fails
  <2>2. Probing'
    BY <2>1 DEF Probing, Fails
  <2> QED BY <1>3, <2>1, <2>2
<1> QED BY <1>4, <1>5 DEF Fails, Raise, GiveUp

LEMMA AnswersKeeps ==
  ASSUME ClientInv, NEW r \in Replies, Answers(r)
  PROVE  ClientInv'
<1> USE DEF ClientInv
<1>1. last'.hint = 0 /\ unrecorded' = 0 /\ at = "sent"
  BY DEF Answers, Record, EveryAttemptIsRecorded, NoHint
<1>2. lookups' \in 0..Lookups
  BY DEF Answers, CallTyped
<1>3. CASE Verdict(r) = "ok"
  <2>1. /\ at' = "replied" /\ reply' = r
        /\ UNCHANGED <<call, attempt, hint, lookups, modes, toolCapable>>
    BY <1>3 DEF Answers, capabilityVars, Unusable, Hollow
  <2>2. CallTyped' /\ Conversing' /\ Spaced' /\ EveryAttemptIsRecorded'
    BY <1>1, <2>1 DEF CallTyped, Conversing, Spaced, RetriesAreSpaced, EveryAttemptIsRecorded
  <2>3. CASE call.kind = "probe_mode"
    <3>1. observed' = [observed EXCEPT ![call.alias] = Evidence(observed[call.alias], r)]
      BY <1>3, <2>3 DEF Answers
    <3>2. call.alias \in Aliases /\ call.mode \in 1..3
      BY DEF CallTyped, Calls
    <3>3. /\ \A a \in Aliases : /\ observed[a].yes \subseteq observed'[a].yes
                                /\ observed[a].no \subseteq observed'[a].no
          /\ CapabilityTyped'
      <4> DEFINE seen == observed[call.alias]
                 noted == Evidence(seen, r)
      <4>1. observed \in [Aliases -> [yes : SUBSET (1..3), no : SUBSET (1..3)]]
        BY DEF CapabilityTyped
      <4>2. seen \in [yes : SUBSET (1..3), no : SUBSET (1..3)]
        BY <3>2, <4>1
      <4>3. observed' = [observed EXCEPT ![call.alias] = noted]
        BY <3>1
      <4>4. /\ noted \in [yes : SUBSET (1..3), no : SUBSET (1..3)]
            /\ seen.yes \subseteq noted.yes /\ seen.no \subseteq noted.no
        BY <3>2, <4>2 DEF Evidence
      <4> HIDE DEF noted
      <4>5. observed' \in [Aliases -> [yes : SUBSET (1..3), no : SUBSET (1..3)]]
        BY <4>1, <4>3, <4>4
      <4>6. \A a \in Aliases : /\ observed[a].yes \subseteq observed'[a].yes
                               /\ observed[a].no \subseteq observed'[a].no
        BY <4>1, <4>3, <4>4
      <4> QED BY <2>1, <4>5, <4>6 DEF CapabilityTyped
    <3>4. PinnedModeIsProven'
      BY <2>1, <3>3 DEF PinnedModeIsProven
    <3>5. Probing'
      <4>1. 1..(call.mode - 1) \subseteq observed'[call.alias].no
        BY <1>1, <2>3, <3>2, <3>3 DEF Probing
      <4>2. IF r.text = "valid" THEN call.mode \in observed'[call.alias].yes
            ELSE call.mode \in observed'[call.alias].no
        BY <3>1, <3>2 DEF CapabilityTyped, Evidence
      <4> QED BY <2>1, <4>1, <4>2 DEF Probing
    <3> QED BY <2>2, <3>3, <3>4, <3>5
  <2>4. CASE call.kind # "probe_mode"
    <3>1. CapabilityTyped' /\ PinnedModeIsProven'
      BY <2>4, CapabilitiesStay DEF Answers
    <3> QED BY <2>1, <2>2, <2>4, <3>1 DEF Probing
  <2> QED BY <2>3, <2>4
<1>4. CASE Verdict(r) # "ok"
  <2>1. reply' \in Replies /\ UNCHANGED <<reply, lookups, observed>>
    BY <1>4 DEF Answers, CallTyped, Verdict, Unusable, Hollow
  <2>2. CapabilityTyped' /\ PinnedModeIsProven'
    BY <2>1, CapabilitiesStay DEF Answers
  <2>3. CASE Over
    BY <1>1, <1>2, <2>1, <2>2, <2>3, OverClears
  <2>4. CASE Retry(Verdict(r), NoHint)
    <3>1. Retry(Verdict(r), Least(0, HintCap))
      BY <2>4, ClientAssumption DEF Least, NoHint, ClientAssumption
    <3>2. /\ CallTyped' /\ Conversing' /\ Spaced' /\ EveryAttemptIsRecorded'
          /\ at' = "waiting" /\ call' = call
      BY <1>1, <2>1, <3>1, RetryKeeps
    <3>3. Probing'
      BY <1>1, <2>1, <3>2 DEF Probing
    <3> QED BY <2>2, <3>2, <3>3
  <2>5. Over \/ Retry(Verdict(r), NoHint)
    BY <1>4 DEF Answers, Verdict, Unusable, Hollow, Raise, GiveUp
  <2> QED BY <2>3, <2>4, <2>5
<1> QED BY <1>3, <1>4

-----------------------------------------------------------------------------
(* What the client does with a reply. A call that ends leaves the evidence *)
(* and the record as they were.                                            *)
LEMMA FinishKeeps ==
  ASSUME ClientInv, at = "replied", NEW result_, Finish(result_),
         UNCHANGED <<lookups, unrecorded>>, reply' \in Replies
  PROVE  /\ CallTyped' /\ Conversing' /\ Spaced' /\ Probing' /\ EveryAttemptIsRecorded'
         /\ call'.kind = call.kind /\ call'.alias = call.alias
<1>1. /\ CallTyped /\ Over /\ last'.hint \in Nat /\ unrecorded' = 0
      /\ lookups' \in 0..Lookups
  BY DEF ClientInv, Finish, Spaced, EveryAttemptIsRecorded, CallTyped
<1> QED BY <1>1, OverClears

LEMMA ReturnsKeep ==
  ASSUME ClientInv, PlainReturns \/ ToolsReturn \/ StructuredReturns
  PROVE  ClientInv'
<1>1. PICK res : Finish(res)
  BY DEF PlainReturns, ToolsReturn, StructuredReturns
<1>2. /\ at = "replied" /\ reply' \in Replies
      /\ UNCHANGED <<lookups, unrecorded, capabilityVars, observed>>
  BY DEF PlainReturns, ToolsReturn, StructuredReturns, recordVars, ClientInv, CallTyped
<1>3. CapabilityTyped' /\ PinnedModeIsProven'
  BY <1>2, CapabilitiesStay DEF ClientInv
<1> QED BY <1>1, <1>2, <1>3, FinishKeeps DEF ClientInv

LEMMA RoundKeeps ==
  ASSUME ClientInv, ToolRound \/ AnswerNow \/ Repair
  PROVE  ClientInv'
<1> USE DEF ClientInv
<1>1. at = "replied" /\ Request /\ UNCHANGED <<unrecorded, capabilityVars, observed>>
  BY DEF ToolRound, AnswerNow, Repair, recordVars
<1>2. /\ Spaced' /\ EveryAttemptIsRecorded' /\ reply' \in Replies /\ at' = "waiting"
      /\ attempt' = 0 /\ hint' = 0
  BY <1>1, RequestBegins
<1>3. CapabilityTyped' /\ PinnedModeIsProven'
  BY <1>1, CapabilitiesStay
<1>4. CallTyped' /\ Conversing' /\ call'.kind = call.kind /\ call.kind # "probe_mode"
  <2>1. CASE ToolRound
    <3>1. PICK opened \in BOOLEAN :
        /\ lookups' = IF lookups > reply.calls THEN lookups - reply.calls ELSE 0
        /\ call' = [call EXCEPT
            !.round = @ + 1,
            !.offering = Offered(call.round + 1, lookups'),
            !.withdrawn = @ \/ ~Offered(call.round + 1, lookups'),
            !.read = @ \/ opened]
      BY <2>1 DEF ToolRound
    <3>2. /\ call.round \in 0..(MaxToolRounds - 1) /\ ~ call.withdrawn /\ call.kind = "tools"
      <4>1. call.round \in 0..MaxToolRounds
        BY DEF CallTyped, Calls
      <4>2. call.offering /\ call.kind = "tools"
        BY <2>1 DEF ToolRound
      <4> QED BY <4>1, <4>2, ClientAssumption DEF Conversing, ClientAssumption
    <3>3. lookups' \in 0..Lookups
      <4>1. reply.calls \in 0..1 /\ lookups \in 0..Lookups
        BY CallsAreCounted DEF CallTyped
      <4> QED BY <3>1, <4>1, ClientAssumption DEF ClientAssumption
    <3> DEFINE on == Offered(call.round + 1, lookups')
    <3>4. /\ on \in BOOLEAN /\ (on => call.round + 1 # MaxToolRounds)
          /\ call' = [call EXCEPT !.round = @ + 1, !.offering = on,
                                 !.withdrawn = @ \/ ~ on, !.read = @ \/ opened]
      BY <3>1 DEF Offered
    <3> HIDE DEF on
    <3>5. CallTyped'
      <4>1. call.round + 1 \in 0..MaxToolRounds
        BY <3>2, ClientAssumption DEF ClientAssumption
      <4>2. call' \in Calls
        BY <3>4, <4>1 DEF CallTyped, Calls
      <4> QED BY <1>2, <3>3, <4>2, ClientAssumption DEF CallTyped, ClientAssumption
    <3>6. Conversing'
      <4>1. /\ call'.open = call.open /\ (call'.offering <=> on)
            /\ (call'.withdrawn <=> call.withdrawn \/ ~ on) /\ call'.round = call.round + 1
        BY <3>4 DEF CallTyped, Calls
      <4> QED BY <3>2, <3>4, <4>1, ClientAssumption DEF Conversing, ClientAssumption
    <3>7. call'.kind = call.kind
      BY <3>4 DEF CallTyped, Calls
    <3> QED BY <3>2, <3>5, <3>6, <3>7
  <2>2. CASE AnswerNow
    <3>1. /\ call' = [call EXCEPT !.nudged = TRUE, !.offering = FALSE, !.withdrawn = TRUE]
          /\ call.kind = "tools" /\ lookups' = lookups
      BY <2>2 DEF AnswerNow, Nudged
    <3>2. call' \in Calls /\ call'.kind = call.kind /\ call'.open = call.open
          /\ call'.offering = FALSE
      BY <3>1 DEF CallTyped, Calls
    <3> QED BY <1>2, <3>1, <3>2, ClientAssumption DEF CallTyped, Conversing, ClientAssumption
  <2>3. CASE Repair
    <3>1. /\ call' = [call EXCEPT !.repairs = @ + 1] /\ call.repairs < RepairRetries
          /\ call.kind = "structured" /\ lookups' = lookups
      BY <2>3 DEF Repair, Repairs
    <3>2. call.repairs + 1 \in 0..RepairRetries
      BY <3>1, ClientAssumption DEF CallTyped, Calls, ClientAssumption
    <3>3. /\ call' \in Calls /\ call'.kind = call.kind /\ call'.open = call.open
          /\ call'.offering = call.offering /\ call'.withdrawn = call.withdrawn
          /\ call'.round = call.round
      BY <3>1, <3>2 DEF CallTyped, Calls
    <3> QED BY <1>2, <3>1, <3>3, ClientAssumption DEF CallTyped, Conversing, ClientAssumption
  <2> QED BY <2>1, <2>2, <2>3
<1>5. Probing'
  BY <1>4 DEF Probing
<1> QED BY <1>2, <1>3, <1>4, <1>5

(* A mode is pinned on an answer in it, and every stronger one was tried.  *)
LEMMA PinModeKeeps ==
  ASSUME ClientInv, PinMode
  PROVE  ClientInv'
<1> USE DEF ClientInv, PinMode
<1>1. CallTyped' /\ Conversing' /\ Spaced' /\ Probing' /\ EveryAttemptIsRecorded'
  BY FinishKeeps DEF recordVars, CallTyped
<1>2. /\ call.alias \in Aliases /\ call.mode \in 1..3
      /\ call.mode \in observed[call.alias].yes
      /\ 1..(call.mode - 1) \subseteq observed[call.alias].no
  BY DEF CallTyped, Calls, Probing
<1>3. CapabilityTyped'
  BY <1>2 DEF CapabilityTyped, recordVars
<1>4. PinnedModeIsProven'
  BY <1>2 DEF PinnedModeIsProven, CapabilityTyped, recordVars, Modes
<1> QED BY <1>1, <1>3, <1>4

LEMMA WeakerModeKeeps ==
  ASSUME ClientInv, WeakerMode
  PROVE  ClientInv'
<1> USE DEF ClientInv, WeakerMode
<1>1. CapabilityTyped' /\ PinnedModeIsProven'
  BY CapabilitiesStay DEF recordVars
<1>2. CASE call.mode < Len(Modes) /\ call' = [call EXCEPT !.mode = @ + 1] /\ Request
  <2>1. /\ Spaced' /\ EveryAttemptIsRecorded' /\ reply' \in Replies /\ at' = "waiting"
        /\ attempt' = 0 /\ hint' = 0
    BY <1>2, RequestBegins DEF recordVars
  <2>2. call.mode \in 1..3 /\ call.mode + 1 \in 1..3
    BY <1>2 DEF CallTyped, Calls, Modes
  <2>x. /\ call' \in Calls /\ call'.mode = call.mode + 1 /\ call'.kind = call.kind
        /\ call'.alias = call.alias /\ call'.open = call.open /\ call'.round = call.round
        /\ call'.offering = call.offering /\ call'.withdrawn = call.withdrawn
    BY <1>2, <2>2 DEF CallTyped, Calls
  <2>y. CallTyped' /\ Conversing'
    BY <2>1, <2>x, ClientAssumption DEF CallTyped, Conversing, ClientAssumption
  <2>3. 1..call.mode \subseteq observed[call.alias].no
    BY <2>2 DEF Probing
  <2>4. Probing'
    BY <2>1, <2>x, <2>2, <2>3 DEF Probing, recordVars
  <2> QED BY <1>1, <2>1, <2>y, <2>4
<1>3. CASE Finish("no_structured_output") /\ UNCHANGED reply
  BY <1>1, <1>3, FinishKeeps DEF recordVars, CallTyped
<1> QED BY <1>2, <1>3

LEMMA PinToolsKeeps ==
  ASSUME ClientInv, PinTools
  PROVE  ClientInv'
<1> USE DEF ClientInv, PinTools
<1>1. CallTyped' /\ Conversing' /\ Spaced' /\ Probing' /\ EveryAttemptIsRecorded'
  BY FinishKeeps DEF recordVars, CallTyped
<1>2. CapabilityTyped' /\ PinnedModeIsProven'
  BY DEF CapabilityTyped, PinnedModeIsProven, recordVars
<1> QED BY <1>1, <1>2

LEMMA StepsKeep ==
  ASSUME ClientInv, Steps
  PROVE  ClientInv'
<1>1. CASE Exchange
  BY <1>1, SendKeeps, FailsKeeps, AnswersKeeps DEF Exchange
<1>2. CASE Continue
  BY <1>2, ReturnsKeep, RoundKeeps, PinModeKeeps, WeakerModeKeeps, PinToolsKeeps DEF Continue
<1> QED BY <1>1, <1>2 DEF Steps

LEMMA ClientStays ==
  ASSUME ClientInv, UNCHANGED clientVars
  PROVE  ClientInv'
  BY DEF ClientInv, clientVars, requestVars, capabilityVars, recordVars, CallTyped,
         CapabilityTyped, Conversing, Spaced, RetriesAreSpaced, Probing,
         PinnedModeIsProven, EveryAttemptIsRecorded

-----------------------------------------------------------------------------
(* A step of the client keeps the call's kind and its alias, and a refusal *)
(* of the account is what the call ends on.                                *)
NotRefused == at # "idle" => last.class # AccountClass

EndsOnRefusal ==
  /\ last'.class = AccountClass => at' = "idle"
  /\ at' = "idle" /\ call.kind \in {"plain", "tools"} =>
       (outcome' = AccountClass <=> last'.class = AccountClass)

SameCall == call'.kind = call.kind /\ call'.alias = call.alias

LEMMA OverIsSameCall == CallTyped /\ Over => SameCall
  BY DEF Over, NewCall, Offered, CallTyped, Calls, SameCall

LEMMA FailsMoves ==
  ASSUME CallTyped, NotRefused, NEW class, NEW h, Fails(class, h)
  PROVE  at # "idle" /\ SameCall /\ EndsOnRefusal
<1>1. CASE class \in FinalClasses
  BY <1>1, OverIsSameCall DEF Fails, Raise, Over, EndsOnRefusal
<1>2. CASE class \notin FinalClasses
  <2>1. last'.class = class /\ class # AccountClass
    BY <1>2 DEF Fails, FinalClasses
  <2>2. CASE Retry(class, Least(h, HintCap))
    BY <2>1, <2>2 DEF Fails, Retry, EndsOnRefusal, SameCall
  <2>3. CASE Raise(class)
    BY <2>1, <2>3, OverIsSameCall DEF Fails, Raise, Over, EndsOnRefusal
  <2> QED BY <1>2, <2>2, <2>3 DEF Fails, GiveUp
<1> QED BY <1>1, <1>2

LEMMA AnswersMoves ==
  ASSUME CallTyped, NotRefused, NEW r \in Replies, Answers(r)
  PROVE  at # "idle" /\ SameCall /\ EndsOnRefusal
<1>1. last'.class = Verdict(r) /\ Verdict(r) # AccountClass /\ at = "sent"
  BY DEF Answers, Verdict, AccountClass
<1>2. CASE Verdict(r) = "ok"
  BY <1>1, <1>2 DEF Answers, Unusable, Hollow, EndsOnRefusal, SameCall
<1>3. CASE Retry(Verdict(r), NoHint)
  BY <1>1, <1>3 DEF Retry, EndsOnRefusal, SameCall
<1>4. CASE Raise(Verdict(r))
  BY <1>1, <1>4, OverIsSameCall DEF Raise, Over, EndsOnRefusal
<1> QED BY <1>1, <1>2, <1>3, <1>4 DEF Answers, Verdict, Unusable, Hollow, GiveUp

LEMMA FinishMoves ==
  ASSUME CallTyped, NotRefused, at = "replied", NEW res, Finish(res), res # AccountClass
  PROVE  at # "idle" /\ SameCall /\ EndsOnRefusal
  BY OverIsSameCall DEF Finish, Over, NotRefused, EndsOnRefusal

LEMMA RequestMoves ==
  ASSUME at = "replied", Request, SameCall
  PROVE  at # "idle" /\ SameCall /\ EndsOnRefusal
  BY DEF Request, NoFailure, AccountClass, EndsOnRefusal

LEMMA ContinueMoves ==
  ASSUME CallTyped, NotRefused, Continue
  PROVE  at # "idle" /\ SameCall /\ EndsOnRefusal
<1>1. at = "replied"
  BY DEF Continue, PlainReturns, ToolRound, AnswerNow, ToolsReturn, StructuredReturns,
         Repair, PinMode, WeakerMode, PinTools
<1>2. CASE \E res \in {"ok", "tool_loop_no_answer", "malformed_output",
                       "no_structured_output"} : Finish(res)
  BY <1>1, <1>2, FinishMoves DEF AccountClass
<1>3. CASE Request /\ SameCall
  BY <1>1, <1>3, RequestMoves
<1>4. ToolRound \/ AnswerNow \/ Repair => Request /\ SameCall
  BY DEF ToolRound, AnswerNow, Nudged, Repair, SameCall, CallTyped, Calls
<1>5. WeakerMode => Finish("no_structured_output") \/ (Request /\ SameCall)
  BY DEF WeakerMode, SameCall, CallTyped, Calls
<1> QED BY <1>2, <1>3, <1>4, <1>5
     DEF Continue, PlainReturns, ToolsReturn, StructuredReturns, PinMode, PinTools

LEMMA StepsMove ==
  ASSUME ClientInv, NotRefused, Steps
  PROVE  at # "idle" /\ SameCall /\ EndsOnRefusal
<1>1. CASE Send
  BY <1>1 DEF Send, NotRefused, SameCall, EndsOnRefusal
<1> QED BY <1>1, FailsMoves, AnswersMoves, ContinueMoves DEF Steps, Exchange, ClientInv

-----------------------------------------------------------------------------
(* The walk's own variables, when the client alone moves.                  *)
LEMMA PlacesStay ==
  ASSUME WalkInv, UNCHANGED <<walk, start, placeVars, choiceVars, repairs>>,
         refusals' \in BOOLEAN
  PROVE  WalkTyped' /\ Kept' /\ UnreadDraftIsLastResort'
  BY DEF WalkInv, WalkTyped, Kept, Credited, InPool, UnreadDraftIsLastResort,
         placeVars, choiceVars

LEMMA ClientStepKeeps ==
  ASSUME Inv, ClientStep
  PROVE  Inv'
<1>1. ClientInv'
  BY StepsKeep DEF Inv, ClientStep
<1>2. at # "idle" /\ SameCall /\ EndsOnRefusal
  BY StepsMove DEF Inv, ClientStep, WalkInv, Noted, NotRefused
<1>3. walk \in {"off", "asking", "repairing"} /\ result = "none"
  BY <1>2 DEF Inv, WalkInv, WalkTyped, Staged, Undecided
<1>4. /\ UNCHANGED <<walk, start, placeVars, choiceVars, repairs>>
      /\ refusals' = (refusals \/ (walk = "asking" /\ last'.class = AccountClass))
      /\ refusals' \in BOOLEAN
  BY DEF ClientStep, Inv, WalkInv, WalkTyped
<1>5. WalkTyped' /\ Kept' /\ UnreadDraftIsLastResort'
  BY <1>4, PlacesStay DEF Inv
<1>6. Staged'
  BY <1>2, <1>3, <1>4 DEF Inv, WalkInv, Staged, SameCall, InPool, Undecided, placeVars, choiceVars
<1>7. Noted'
  <2>1. /\ at' # "idle" => last'.class # AccountClass
        /\ walk' = walk /\ refusedOnce' = refusedOnce
    BY <1>2, <1>4 DEF EndsOnRefusal, choiceVars
  <2>2. CASE walk = "asking"
    <3>1. call.kind \in {"plain", "tools"} /\ (refusals <=> refusedOnce)
      BY <1>2, <2>2 DEF Inv, WalkInv, Staged, Noted
    <3>2. refusals' <=> refusedOnce \/ last'.class = AccountClass
      BY <1>4, <2>2, <3>1
    <3>3. last'.class = AccountClass <=> at' = "idle" /\ outcome' = AccountClass
      BY <1>2, <3>1 DEF EndsOnRefusal
    <3> QED BY <2>1, <2>2, <3>2, <3>3 DEF Noted
  <2>3. CASE walk # "asking"
    <3>1. refusals' = refusals
      BY <1>4, <2>3 DEF Inv, WalkInv, WalkTyped
    <3> QED BY <1>3, <2>1, <2>3, <3>1 DEF Inv, WalkInv, Noted
  <2> QED BY <2>2, <2>3
<1>8. AccountRefusalIsNoVerdict'
  BY <1>3, <1>4 DEF AccountRefusalIsNoVerdict, choiceVars
<1> QED BY <1>1, <1>5, <1>6, <1>7, <1>8 DEF Inv, WalkInv

(* What a call that begins leaves behind: its own alias, and no failure.   *)
LEMMA BeginMoves ==
  ASSUME NEW k, NEW a, Begin(k, a)
  PROVE  /\ call'.kind = k /\ call'.alias = a /\ at' = "waiting" /\ at = "idle"
         /\ last'.class # AccountClass
  BY DEF Begin, NewCall, Request, NoFailure, AccountClass

LEMMA AnyCallerKeeps ==
  ASSUME Inv, AnyCaller
  PROVE  Inv'
<1>1. PICK k \in Kinds, a \in Others : Begin(k, a)
  BY DEF AnyCaller
<1>2. ClientInv'
  BY <1>1, BeginKeeps, WalkAssumption DEF Inv, WalkAssumption
<1>3. UNCHANGED walkVars /\ walk = "off" /\ result = "none"
  BY DEF AnyCaller, Inv, WalkInv, Staged
<1>4. WalkTyped' /\ Kept' /\ UnreadDraftIsLastResort'
  BY <1>3, PlacesStay DEF Inv, WalkInv, WalkTyped, walkVars
<1>5. Staged' /\ Noted' /\ AccountRefusalIsNoVerdict'
  BY <1>1, <1>3, BeginMoves
     DEF Inv, WalkInv, Staged, Noted, AccountRefusalIsNoVerdict, walkVars, choiceVars, Undecided
<1> QED BY <1>2, <1>4, <1>5 DEF Inv, WalkInv

-----------------------------------------------------------------------------
(* The walk's steps.                                                       *)
LEMMA AskKeeps ==
  ASSUME Inv, Ask
  PROVE  Inv'
<1> DEFINE writer == InPool(start + pos)
<1>1. start + pos \in Nat /\ writer \in Everyone /\ writer \in Aliases
  <2>1. start \in Nat /\ offset \in Nat /\ pos \in Nat
    BY WalkAssumption DEF Inv, WalkInv, WalkTyped, WalkAssumption
  <2> QED BY <2>1, PoolPlaces, WritersAreAliases
<1>2. /\ Begin(IF Tooled THEN "tools" ELSE "plain", writer) /\ tried' = tried \cup {writer}
      /\ walk = "ready" /\ walk' = "asking" /\ offset < WriterAttempts
      /\ UNCHANGED <<start, offset, pos, nudged, choiceVars, repairs, refusals>>
  BY DEF Ask
<1> HIDE DEF writer
<1>3. ClientInv'
  BY <1>1, <1>2, BeginKeeps DEF Inv, Kinds
<1>4. /\ call'.kind \in {"tools", "plain"} /\ call'.alias = writer /\ at' = "waiting"
      /\ last'.class # AccountClass
  BY <1>2, BeginMoves
<1>5. WalkTyped'
  BY <1>1, <1>2 DEF Inv, WalkInv, WalkTyped, Undecided, choiceVars
<1>6. Staged'
  BY <1>2, <1>4 DEF Inv, WalkInv, Staged, choiceVars, Undecided, InPool, writer
<1>7. Noted'
  BY <1>2, <1>4 DEF Inv, WalkInv, Noted, choiceVars
<1>8. chosen' = <<>> /\ result' = "none"
  BY <1>2 DEF Inv, WalkInv, Staged, choiceVars, Undecided
<1>9. Kept'
  BY <1>2 DEF Inv, WalkInv, Kept, Credited, InPool, choiceVars
<1> QED BY <1>3, <1>5, <1>6, <1>7, <1>8, <1>9
     DEF Inv, WalkInv, AccountRefusalIsNoVerdict, UnreadDraftIsLastResort

LEMMA CrashesKeeps ==
  ASSUME Inv, Crashes
  PROVE  Inv'
<1> USE DEF Inv, WalkInv, Crashes
<1>1. ClientInv'
  BY ClientStays
<1>2. WalkTyped'
  BY DEF WalkTyped, placeVars
<1>3. Staged' /\ Noted' /\ AccountRefusalIsNoVerdict'
  BY DEF Staged, Noted, AccountRefusalIsNoVerdict, Undecided, clientVars, requestVars
<1>4. Kept' /\ UnreadDraftIsLastResort'
  BY DEF Kept, Credited, InPool, UnreadDraftIsLastResort, placeVars
<1> QED BY <1>1, <1>2, <1>3, <1>4

(* The attempt's place in the walk, once its answer is in.                 *)
LEMMA AttemptPlaced ==
  ASSUME Inv, Returned
  PROVE  /\ offset \in Nat /\ pos \in 0..offset /\ offset + 1 \in 0..WriterAttempts
         /\ chosen = <<>> /\ result = "none" /\ start \in Nat
         /\ call.alias = InPool(start + pos) /\ call.alias \in tried
         /\ call.alias \in Everyone /\ call.read \in BOOLEAN
         /\ (refusals <=> refusedOnce \/ outcome = AccountClass)
<1>1. call.read \in BOOLEAN
  BY DEF Inv, ClientInv, CallTyped, Calls
<1> QED BY <1>1, WalkAssumption
     DEF Inv, WalkInv, WalkTyped, Staged, Noted, Undecided, Returned, WalkAssumption

LEMMA AttemptFailsKeeps ==
  ASSUME Inv, AttemptFails
  PROVE  Inv'
<1> USE DEF Inv, WalkInv, AttemptFails, NextOne
<1>1. /\ offset \in Nat /\ pos \in 0..offset /\ offset + 1 \in 0..WriterAttempts
      /\ chosen = <<>> /\ result = "none"
      /\ (refusals <=> refusedOnce \/ outcome = AccountClass)
  BY AttemptPlaced
<1>2. ClientInv'
  BY ClientStays
<1>3. WalkTyped'
  BY <1>1 DEF WalkTyped, Undecided
<1>4. Staged'
  BY <1>1 DEF Staged, Undecided, Returned, clientVars
<1>5. Noted'
  <2>1. refusals' = refusedOnce'
    BY <1>1 DEF WalkTyped
  <2> QED BY <2>1 DEF Noted, Returned, clientVars
<1>6. Kept' /\ UnreadDraftIsLastResort' /\ AccountRefusalIsNoVerdict'
  BY <1>1 DEF Kept, Credited, InPool, UnreadDraftIsLastResort, AccountRefusalIsNoVerdict
<1> QED BY <1>2, <1>3, <1>4, <1>5, <1>6

(* The draft a writer hands in is credited to the place it was asked at.   *)
LEMMA DraftIsCredited ==
  ASSUME Inv, Returned, NEW trait \in Traits
  PROVE  Draft(trait) \in Drafts /\ Credited(Draft(trait))
<1>1. /\ pos \in 0..offset /\ offset \in Nat /\ offset + 1 \in 0..WriterAttempts
      /\ call.alias = InPool(start + pos) /\ call.alias \in Everyone /\ call.read \in BOOLEAN
  BY AttemptPlaced
<1>2. pos \in 0..(WriterAttempts - 1)
  BY <1>1, WalkAssumption DEF WalkAssumption
<1>3. trait \in {"sound", "unread"}
  BY DEF Traits
<1> QED BY <1>1, <1>2, <1>3 DEF Draft, Drafts, Credited

LEMMA SetAsideKeeps ==
  ASSUME Inv, SetAside
  PROVE  Inv'
<1> USE DEF Inv, WalkInv
<1>1. PICK trait \in Traits :
       /\ SetsAside(trait)
       /\ held' = <<Draft(trait)>>
       /\ IF call.alias \notin nudged /\ offset + 1 < WriterAttempts
          THEN /\ nudged' = nudged \cup {call.alias} /\ Same
          ELSE IF NobodyLeft
          THEN walk' = "over" /\ UNCHANGED <<offset, pos, nudged>>
          ELSE NextOne
  BY DEF SetAside
<1>2. /\ Returned /\ outcome = "ok"
      /\ UNCHANGED <<clientVars, start, tried, refusedOnce, chosen, result, repairs, refusals>>
  BY DEF SetAside, Handed
<1>3. /\ offset \in Nat /\ pos \in 0..offset /\ offset + 1 \in 0..WriterAttempts
      /\ chosen = <<>> /\ result = "none" /\ call.alias \in tried
      /\ (refusals <=> refusedOnce)
  BY <1>2, AttemptPlaced DEF AccountClass
<1> DEFINE d == Draft(trait)
<1>4. d \in Drafts /\ Credited(d)
  BY <1>2, DraftIsCredited
<1>5. d.writer = call.alias
  BY DEF Draft
<1> HIDE DEF d
<1>6. held' = <<d>>
  BY <1>1 DEF d
<1>7. ClientInv'
  BY <1>2, ClientStays
<1>8. walk' \in {"ready", "over"} /\ offset' \in 0..WriterAttempts /\ pos' \in 0..offset'
      /\ nudged' \subseteq tried
  BY <1>1, <1>3 DEF Same, NextOne, WalkTyped
<1>9. WalkTyped'
  BY <1>2, <1>4, <1>6, <1>8 DEF WalkTyped, Undecided
<1>10. Staged'
  BY <1>2, <1>3, <1>8 DEF Staged, Undecided, Returned, clientVars
<1>11. Noted'
  <2>1. refusals' = refusedOnce'
    BY <1>2, <1>3 DEF WalkTyped
  <2> QED BY <1>2, <1>8, <2>1 DEF Noted, Returned, clientVars
<1>12. Kept'
  <2>1. \A e \in Drafts : held' = <<e>> \/ chosen' = <<e>> => Credited(e)'
    <3> SUFFICES ASSUME NEW e \in Drafts, held' = <<e>> \/ chosen' = <<e>>
                 PROVE  Credited(e)'
      OBVIOUS
    <3>1. e = d
      BY <1>2, <1>3, <1>6
    <3> QED BY <1>2, <1>4, <3>1 DEF Credited, InPool
  <2>2. walk' = "over" => \/ offset' + 1 >= WriterAttempts
                          \/ Everyone \subseteq tried' /\ held'[1].writer \in nudged'
    <3> SUFFICES ASSUME walk' = "over"
                 PROVE  \/ offset' + 1 >= WriterAttempts
                        \/ Everyone \subseteq tried' /\ held'[1].writer \in nudged'
      OBVIOUS
    <3>1. /\ ~ (call.alias \notin nudged /\ offset + 1 < WriterAttempts) /\ NobodyLeft
          /\ UNCHANGED <<offset, pos, nudged>>
      BY <1>1 DEF Same, NextOne
    <3>2. held'[1].writer = call.alias
      BY <1>5, <1>6
    <3> QED BY <1>2, <1>3, <3>1, <3>2, WalkAssumption DEF NobodyLeft, WalkAssumption
  <2> QED BY <1>6, <2>1, <2>2 DEF Kept
<1>13. UnreadDraftIsLastResort' /\ AccountRefusalIsNoVerdict'
  BY <1>2, <1>3 DEF UnreadDraftIsLastResort, AccountRefusalIsNoVerdict
<1> QED BY <1>7, <1>9, <1>10, <1>11, <1>12, <1>13

LEMMA AcceptKeeps ==
  ASSUME Inv, Accept
  PROVE  Inv'
<1> USE DEF Inv, WalkInv
<1>1. PICK trait \in Traits : ~ SetsAside(trait) /\ chosen' = <<Draft(trait)>>
  BY DEF Accept
<1>2. /\ Returned /\ walk' = "chosen"
      /\ UNCHANGED <<clientVars, start, placeVars, held, refusedOnce, result, repairs, refusals>>
  BY DEF Accept, Handed
<1>3. result = "none"
  BY <1>2, AttemptPlaced
<1> DEFINE d == Draft(trait)
<1>4. d \in Drafts /\ Credited(d)
  BY <1>2, DraftIsCredited
<1>5. d.trait # "sound" => d.read
  BY <1>1 DEF Draft, SetsAside
<1> HIDE DEF d
<1>6. chosen' = <<d>>
  BY <1>1 DEF d
<1>7. ClientInv'
  BY <1>2, ClientStays
<1>8. WalkTyped' /\ Staged' /\ Noted' /\ AccountRefusalIsNoVerdict'
  BY <1>2, <1>3, <1>4, <1>6
     DEF WalkTyped, Staged, Noted, AccountRefusalIsNoVerdict, Undecided, Returned,
         clientVars, requestVars, placeVars
<1>9. Kept'
  <2> SUFFICES ASSUME NEW e \in Drafts, held' = <<e>> \/ chosen' = <<e>>
               PROVE  Credited(e)'
    BY <1>2 DEF Kept
  <2>1. e = d \/ held = <<e>>
    BY <1>2, <1>6
  <2>2. Credited(e)
    BY <1>4, <2>1 DEF Kept
  <2> QED BY <1>2, <2>2 DEF Credited, InPool
<1>10. UnreadDraftIsLastResort'
  BY <1>5, <1>6 DEF UnreadDraftIsLastResort
<1> QED BY <1>7, <1>8, <1>9, <1>10

LEMMA SettleKeeps ==
  ASSUME Inv, Settle
  PROVE  Inv'
<1> USE DEF Inv, WalkInv
<1>1. /\ walk \in {"over", "ready"} /\ (walk = "ready" => offset = WriterAttempts)
      /\ UNCHANGED <<clientVars, start, placeVars, held, refusedOnce, repairs, refusals>>
      /\ chosen = <<>> /\ result = "none" /\ at = "idle" /\ refusals = refusedOnce
  BY DEF Settle, Staged, Noted, Undecided
<1>2. ClientInv'
  BY <1>1, ClientStays
<1>3. CASE held # <<>>
  <2>1. chosen' = held /\ walk' = "chosen" /\ UNCHANGED result
    BY <1>3 DEF Settle
  <2>2. WalkTyped' /\ Staged' /\ Noted' /\ AccountRefusalIsNoVerdict'
    BY <1>1, <1>3, <2>1
       DEF WalkTyped, Staged, Noted, AccountRefusalIsNoVerdict, Undecided,
           clientVars, requestVars, placeVars
  <2>3. Kept'
    BY <1>1, <2>1 DEF Kept, Credited, InPool
  <2>4. \/ offset + 1 >= WriterAttempts
        \/ Everyone \subseteq tried /\ held[1].writer \in nudged
    BY <1>1, WalkAssumption DEF Kept, WalkAssumption
  <2>5. UnreadDraftIsLastResort'
    BY <1>1, <2>1, <2>4 DEF UnreadDraftIsLastResort, placeVars
  <2> QED BY <1>2, <2>2, <2>3, <2>5
<1>4. CASE held = <<>>
  <2>1. /\ walk' = "done" /\ chosen' = <<>>
        /\ result' = IF refusedOnce THEN "deferred" ELSE "aborted"
    BY <1>1, <1>4 DEF Settle, Defers
  <2>2. WalkTyped' /\ Staged' /\ Noted'
    BY <1>1, <2>1
       DEF WalkTyped, Staged, Noted, Undecided, clientVars, requestVars, placeVars
  <2>3. AccountRefusalIsNoVerdict'
    BY <1>1, <1>4, <2>1 DEF AccountRefusalIsNoVerdict
  <2>4. Kept' /\ UnreadDraftIsLastResort'
    BY <1>1, <1>4, <2>1 DEF Kept, Credited, InPool, UnreadDraftIsLastResort
  <2> QED BY <1>2, <2>2, <2>3, <2>4
<1> QED BY <1>3, <1>4

LEMMA AskRepairKeeps ==
  ASSUME Inv, AskRepair
  PROVE  Inv'
<1> USE DEF Inv, WalkInv
<1>1. /\ walk = "chosen" /\ walk' = "repairing" /\ repairs < RepairCap
      /\ repairs' = repairs + 1 /\ Begin("plain", chosen[1].writer)
      /\ UNCHANGED <<start, placeVars, choiceVars, refusals>>
      /\ result = "none" /\ chosen # <<>>
  BY DEF AskRepair, Staged
<1>2. chosen[1].writer \in Aliases
  <2>1. PICK d \in Drafts : chosen = <<d>>
    BY <1>1 DEF WalkTyped
  <2>2. d.writer \in Everyone
    BY DEF Drafts
  <2> QED BY <2>1, <2>2, WritersAreAliases
<1>3. ClientInv'
  BY <1>1, <1>2, BeginKeeps DEF Kinds
<1>4. at' = "waiting" /\ last'.class # AccountClass
  BY <1>1, BeginMoves
<1>5. WalkTyped'
  <2>1. repairs' \in 0..RepairCap
    BY <1>1, WalkAssumption DEF WalkTyped, WalkAssumption
  <2> QED BY <1>1, <2>1 DEF WalkTyped, Undecided, placeVars, choiceVars
<1>6. Staged' /\ Noted' /\ AccountRefusalIsNoVerdict'
  BY <1>1, <1>4 DEF Staged, Noted, AccountRefusalIsNoVerdict, Undecided, placeVars, choiceVars
<1>7. Kept' /\ UnreadDraftIsLastResort'
  BY <1>1 DEF Kept, Credited, InPool, UnreadDraftIsLastResort, placeVars, choiceVars
<1> QED BY <1>3, <1>5, <1>6, <1>7

LEMMA RepairedKeeps ==
  ASSUME Inv, Repaired
  PROVE  Inv'
<1> USE DEF Inv, WalkInv, Repaired
<1>1. ClientInv'
  BY ClientStays
<1>2. WalkTyped'
  BY DEF WalkTyped, Undecided, placeVars, choiceVars
<1>3. Staged' /\ Noted' /\ AccountRefusalIsNoVerdict'
  BY DEF Staged, Noted, AccountRefusalIsNoVerdict, Undecided, clientVars, requestVars,
         placeVars, choiceVars
<1>4. Kept' /\ UnreadDraftIsLastResort'
  BY DEF Kept, Credited, InPool, UnreadDraftIsLastResort, placeVars, choiceVars
<1> QED BY <1>1, <1>2, <1>3, <1>4

LEMMA ShipKeeps ==
  ASSUME Inv, Ship
  PROVE  Inv'
<1> USE DEF Inv, WalkInv
<1>1. /\ walk \in {"chosen", "repairing"} /\ walk' = "done" /\ result' = "draft"
      /\ at = "idle"
      /\ UNCHANGED <<clientVars, start, placeVars, held, refusedOnce, chosen, repairs, refusals>>
  BY DEF Ship, Staged
<1>2. ClientInv'
  BY <1>1, ClientStays
<1>3. WalkTyped'
  BY <1>1 DEF WalkTyped, Undecided, placeVars
<1>4. Staged' /\ Noted' /\ AccountRefusalIsNoVerdict'
  BY <1>1 DEF Staged, Noted, AccountRefusalIsNoVerdict, Undecided, clientVars, requestVars
<1>5. Kept' /\ UnreadDraftIsLastResort'
  BY <1>1 DEF Kept, Credited, InPool, UnreadDraftIsLastResort, placeVars
<1> QED BY <1>2, <1>3, <1>4, <1>5

LEMMA StutterKeeps ==
  ASSUME Inv, UNCHANGED vars
  PROVE  Inv'
<1> USE DEF Inv, WalkInv, vars, walkVars
<1>1. ClientInv'
  BY ClientStays
<1>2. WalkTyped'
  BY DEF WalkTyped, placeVars, choiceVars
<1>3. Staged' /\ Noted' /\ AccountRefusalIsNoVerdict'
  BY DEF Staged, Noted, AccountRefusalIsNoVerdict, InPool, clientVars, requestVars,
         placeVars, choiceVars
<1>4. Kept' /\ UnreadDraftIsLastResort'
  BY DEF Kept, Credited, InPool, UnreadDraftIsLastResort, placeVars, choiceVars
<1> QED BY <1>1, <1>2, <1>3, <1>4

-----------------------------------------------------------------------------
LEMMA InitInv == WInit => Inv
<1> SUFFICES ASSUME WInit PROVE Inv
  OBVIOUS
<1>1. PICK a \in Aliases : call = [NewCall("plain", a) EXCEPT !.offering = FALSE]
  BY DEF WInit, Init
<1>2. call = [kind |-> "plain", alias |-> a, mode |-> 1, repairs |-> 0, round |-> 0,
              offering |-> FALSE, nudged |-> FALSE, open |-> 0,
              withdrawn |-> FALSE, read |-> FALSE]
  BY <1>1 DEF NewCall
<1>3. CallTyped /\ Conversing
  BY <1>2, NoReplyIsAReply, ClientAssumption
     DEF WInit, Init, CallTyped, Calls, Kinds, Conversing, NoHint, ClientAssumption
<1>4. CapabilityTyped /\ PinnedModeIsProven
  BY DEF WInit, Init, CapabilityTyped, PinnedModeIsProven
<1>5. Spaced /\ Probing /\ EveryAttemptIsRecorded
  BY <1>2 DEF WInit, Init, Spaced, RetriesAreSpaced, Probing, EveryAttemptIsRecorded,
              NoFailure, NoHint
<1>6. WalkTyped /\ Staged
  <2>1. /\ start \in Nat /\ 0 \in 0..WriterAttempts /\ 0 \in 0..RepairCap /\ 0 \in 0..0
    BY WalkAssumption DEF WInit, WalkAssumption
  <2>2. WalkTyped
    BY <2>1 DEF WInit, WalkTyped, Undecided
  <2>3. Staged
    BY DEF WInit, Init, Staged, Undecided
  <2> QED BY <2>2, <2>3
<1>7. Noted /\ Kept /\ AccountRefusalIsNoVerdict /\ UnreadDraftIsLastResort
  BY DEF WInit, Init, Noted, Kept, AccountRefusalIsNoVerdict, UnreadDraftIsLastResort
<1> QED BY <1>3, <1>4, <1>5, <1>6, <1>7 DEF Inv, ClientInv, WalkInv

LEMMA NextInv == Inv /\ [Next]_vars => Inv'
  BY AskKeeps, CrashesKeeps, AttemptFailsKeeps, SetAsideKeeps, AcceptKeeps, SettleKeeps,
     AskRepairKeeps, RepairedKeeps, ShipKeeps, ClientStepKeeps, AnyCallerKeeps, StutterKeeps
     DEF Next, WalkStep

LEMMA Invariance == Spec => []Inv
  BY InitInv, NextInv, PTL DEF Spec

-----------------------------------------------------------------------------
(* Every counter of a call and of a walk stays within its budget           *)
(* (_create, complete, structured, generate).                              *)
THEOREM TypeCorrect == Spec => []TypeOK
<1>1. Inv => TypeOK
  <2> SUFFICES ASSUME Inv PROVE TypeOK
    OBVIOUS
  <2> USE DEF Inv, ClientInv, WalkInv
  <2>1. /\ call \in [kind : Kinds, alias : Aliases, mode : 1..Len(Modes),
                     repairs : 0..RepairRetries, round : 0..MaxToolRounds,
                     offering : BOOLEAN, nudged : BOOLEAN,
                     open : 0..MaxToolRounds, withdrawn : BOOLEAN, read : BOOLEAN]
        /\ modes \in [Aliases -> {Modes[i] : i \in 1..Len(Modes)} \cup {Unknown}]
    BY DEF CallTyped, Calls, CapabilityTyped, Modes
  <2>2. unrecorded \in 0..1
    BY DEF EveryAttemptIsRecorded
  <2>3. offset \in 0..WriterAttempts /\ pos \in 0..WriterAttempts
    BY WalkAssumption DEF WalkTyped, WalkAssumption
  <2> QED BY <2>1, <2>2, <2>3 DEF CallTyped, CapabilityTyped, WalkTyped, TypeOK
<1> QED BY <1>1, Invariance, PTL

(* The wait before a retry is the server's own hint, capped, or the        *)
(* client's guess, under its ceiling (_backoff, _retry_after).             *)
THEOREM WaitsAreSpaced == Spec => []RetriesAreSpaced
<1>1. Inv => RetriesAreSpaced
  BY DEF Inv, ClientInv, Spaced
<1> QED BY <1>1, Invariance, PTL

(* Every HTTP attempt leaves one record, also the one that raised          *)
(* (_record_call).                                                         *)
THEOREM AttemptsAreRecorded == Spec => []EveryAttemptIsRecorded
<1>1. Inv => EveryAttemptIsRecorded
  BY DEF Inv, ClientInv
<1> QED BY <1>1, Invariance, PTL

(* A pinned mode was answered in, and every stronger one was not           *)
(* (probe_structured_output).                                              *)
THEOREM ModesAreProven == Spec => []PinnedModeIsProven
<1>1. Inv => PinnedModeIsProven
  BY DEF Inv, ClientInv
<1> QED BY <1>1, Invariance, PTL

(* No request carries an unanswered tool call or a tool withdrawn before   *)
(* (complete).                                                             *)
THEOREM ConversationsAreAnswerable == Spec => []ConversationIsAnswerable
<1>1. Inv => ConversationIsAnswerable
  BY DEF Inv, ClientInv, Conversing, ConversationIsAnswerable
<1> QED BY <1>1, Invariance, PTL

(* A refusal of the account defers the run and is never a verdict on it    *)
(* (generate).                                                             *)
THEOREM RefusalsDefer == Spec => []AccountRefusalIsNoVerdict
<1>1. Inv => AccountRefusalIsNoVerdict
  BY DEF Inv, WalkInv
<1> QED BY <1>1, Invariance, PTL

(* A draft written unread ships only when nothing better can come          *)
(* (generate).                                                             *)
THEOREM UnreadShipsLast == Spec => []UnreadDraftIsLastResort
<1>1. Inv => UnreadDraftIsLastResort
  BY DEF Inv, WalkInv
<1> QED BY <1>1, Invariance, PTL

(* The rotation a draft leaves behind names its own writer (generate).     *)
THEOREM WritersAreCredited == Spec => []CreditGoesToItsWriter
<1>1. Inv => CreditGoesToItsWriter
  <2> SUFFICES ASSUME Inv, chosen # <<>>
               PROVE  InPool(RotationAfter - 1) = Author
    BY DEF CreditGoesToItsWriter
  <2>1. PICK d \in Drafts : chosen = <<d>>
    BY DEF Inv, WalkInv, WalkTyped
  <2>2. Credited(d) /\ d.place \in Nat /\ start \in Nat
    BY <2>1, WalkAssumption DEF Inv, WalkInv, WalkTyped, Kept, Drafts, WalkAssumption
  <2>3. RotationAfter - 1 = start + d.place /\ Author = d.writer
    BY <2>1, <2>2 DEF RotationAfter, Author
  <2> QED BY <2>2, <2>3 DEF Credited
<1> QED BY <1>1, Invariance, PTL
=============================================================================
