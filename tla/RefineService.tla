---------------------------- MODULE RefineService ----------------------------
(***************************************************************************)
(* The question refinement service of the web edge: requests on threads of *)
(* their own ask a model for suggestions through a cache that coalesces    *)
(* equal questions, a ceiling on live calls that sheds instead of queuing, *)
(* and a store of the offers a submission may claim one suggestion of.     *)
(*                                                                         *)
(* One action per critical section or blocking point.  A request is made   *)
(* once, so it also names the pending entry and the offer it creates.  A   *)
(* suggestion stands for its index, transform and text; an answer is the   *)
(* set of those that passed validation, {} when the model had none.        *)
(***************************************************************************)
EXTENDS Integers, Sequences, FiniteSets, SequencesExt, Filtering

CONSTANTS
  Requests,
  Questions,      \* texts as submitted
  Asks,           \* who may ask what, a set of [Requests -> Questions]
  KeyOf,          \* [Questions -> what is left of a text once normalised]
  Suggestions,
  Concurrency,    \* live calls at most
  CacheEntries, CacheTTL,
  OfferEntries, OfferTTL,
  Lingers,        \* the permit of a timed-out call is held back for a while
  MaxTime         \* bound of the model: ticks of the clock

Answers == SUBSET Suggestions
Nobody == "nobody"

ASSUME RefineAssumption ==
  /\ IsFiniteSet(Requests) /\ Nobody \notin Requests /\ DOMAIN KeyOf = Questions
  /\ Asks \subseteq [Requests -> Questions]
  /\ Concurrency \in Nat \ {0}
  /\ CacheEntries \in Nat \ {0} /\ CacheTTL \in Nat \ {0}
  /\ OfferEntries \in Nat \ {0} /\ OfferTTL \in Nat \ {0}
  /\ Lingers \in BOOLEAN

KeySet == {KeyOf[q] : q \in Questions}

VARIABLES
  now, up,
  stage,      \* [request -> where its thread is]
  asks,       \* [request -> its question]
  cell,       \* [request -> owner of the pending entry it waits on]
  reply,      \* [request -> what its own call returned: <<>> or <<answer>>]
  published,  \* [request -> answer in the pending entry it owns]
  signalled,  \* owners whose pending entry is released
  answer,     \* [request -> what it was served]
  pending,    \* [key -> owner of the computation under way]
  cache,      \* entries, least recently used first
  offers,     \* records, least recently used first
  permits, lingering

threads == <<stage, asks, cell, reply, answer>>
cells == <<published, signalled>>
vars == <<now, up, threads, cells, pending, cache, offers, permits, lingering>>

Init ==
  /\ now = 0 /\ up = TRUE
  /\ stage = [r \in Requests |-> "idle"] /\ asks \in Asks
  /\ cell = [r \in Requests |-> Nobody] /\ reply = [r \in Requests |-> << >>]
  /\ published = [r \in Requests |-> {}] /\ signalled = {}
  /\ answer = [r \in Requests |-> {}]
  /\ pending = [k \in KeySet |-> Nobody] /\ cache = << >> /\ offers = << >>
  /\ permits = Concurrency /\ lingering = {}

At(r, s) == stage' = [stage EXCEPT ![r] = s]
Key(r) == KeyOf[asks[r]]

(* Both stores keep at most so many entries, the most recently used.       *)
Recent(entries, limit) ==
  IF Len(entries) <= limit THEN entries
  ELSE SubSeq(entries, Len(entries) - limit + 1, Len(entries))

Without(entries, e) == Only(entries, ToSet(entries) \ {e})

-----------------------------------------------------------------------------
(* One look at the cache and at what is under way, under one lock: a fresh *)
(* entry is served, a computation under way is joined, and otherwise the   *)
(* request becomes the owner of one.                                       *)

Fresh(key) == {e \in ToSet(cache) : e.key = key /\ e.expires > now}
Stale(key) == {e \in ToSet(cache) : e.key = key /\ e.expires <= now}

(* Fault: every miss computes, whoever else already does. *)
NoOneAsks(key) == TRUE

Unasked(key) == pending[key] = Nobody

Suggest(r) ==
  /\ stage[r] = "idle"
  /\ \/ \E e \in Fresh(Key(r)) :
          /\ answer' = [answer EXCEPT ![r] = e.answer]
          /\ cache' = Append(Without(cache, e), e)
          /\ At(r, "minting")
          /\ UNCHANGED <<cell, pending>>
     \/ /\ Fresh(Key(r)) = {}
        /\ cache' = Only(cache, ToSet(cache) \ Stale(Key(r)))
        /\ IF Unasked(Key(r))
           THEN /\ pending' = [pending EXCEPT ![Key(r)] = r]
                /\ cell' = [cell EXCEPT ![r] = r] /\ At(r, "acquiring")
           ELSE /\ cell' = [cell EXCEPT ![r] = pending[Key(r)]] /\ At(r, "waiting")
                /\ UNCHANGED pending
        /\ UNCHANGED answer
  /\ UNCHANGED <<now, up, asks, reply, cells, offers, permits, lingering>>

-----------------------------------------------------------------------------
(* The owner's call: a permit or nothing, and the permit back, later when  *)
(* the call timed out and its upstream work may still be running.          *)

Acquire(r) ==
  /\ stage[r] = "acquiring"
  /\ IF permits > 0 THEN permits' = permits - 1 /\ At(r, "calling")
                    ELSE At(r, "publishing") /\ UNCHANGED permits
  /\ UNCHANGED <<now, up, asks, cell, reply, answer, cells, pending, cache, offers,
                 lingering>>

(* Fault: the lingering permit is given back at once as well. *)
ReleaseTwice(r, timedOut) ==
  /\ permits' = permits + 1
  /\ lingering' = IF timedOut /\ Lingers THEN lingering \cup {r} ELSE lingering

ReleasePermit(r, timedOut) ==
  IF timedOut /\ Lingers THEN lingering' = lingering \cup {r} /\ UNCHANGED permits
                         ELSE permits' = permits + 1 /\ UNCHANGED lingering

Return(r) ==
  /\ stage[r] = "calling"
  /\ \/ \E a \in Answers : reply' = [reply EXCEPT ![r] = <<a>>] /\ ReleasePermit(r, FALSE)
     \/ \E timedOut \in BOOLEAN : UNCHANGED reply /\ ReleasePermit(r, timedOut)
  /\ At(r, "publishing")
  /\ UNCHANGED <<now, up, asks, cell, answer, cells, pending, cache, offers>>

Fire(r) ==
  /\ r \in lingering
  /\ lingering' = lingering \ {r} /\ permits' = permits + 1
  /\ UNCHANGED <<now, up, threads, cells, pending, cache, offers>>

-----------------------------------------------------------------------------
(* The pending entry is taken down, an answer is cached (a failure is      *)
(* not), and only then are the waiters let go.                             *)

(* Fault: a failed owner leaves its waiters parked.                        *)
SignalAnswers(r) == IF reply[r] = << >> THEN signalled ELSE signalled \cup {r}

Cached(r) ==
  IF reply[r] = << >> THEN cache
  ELSE Recent(Append(cache, [key |-> Key(r), expires |-> now + CacheTTL,
                             answer |-> reply[r][1]]), CacheEntries)

Signal(r) == signalled \cup {r}

Publish(r) ==
  /\ stage[r] = "publishing"
  /\ pending' = [pending EXCEPT ![Key(r)] = Nobody]
  /\ cache' = Cached(r)
  /\ published' = [published EXCEPT ![r] = IF reply[r] = << >> THEN {} ELSE reply[r][1]]
  /\ At(r, "signalling")
  /\ UNCHANGED <<now, up, asks, cell, reply, answer, signalled, offers, permits,
                 lingering>>

Release(r) ==
  /\ stage[r] = "signalling"
  /\ signalled' = Signal(r)
  /\ answer' = [answer EXCEPT ![r] = published[r]]
  /\ At(r, "minting")
  /\ UNCHANGED <<now, up, asks, cell, reply, published, pending, cache, offers, permits,
                 lingering>>

Wake(r) ==
  /\ stage[r] = "waiting" /\ cell[r] \in signalled
  /\ answer' = [answer EXCEPT ![r] = published[cell[r]]]
  /\ At(r, "minting")
  /\ UNCHANGED <<now, up, asks, cell, reply, cells, pending, cache, offers, permits,
                 lingering>>

(* Only something to show gets an offer. *)
Mint(r) ==
  /\ stage[r] = "minting"
  /\ offers' = IF answer[r] = {} THEN offers
               ELSE Recent(Append(offers, [id |-> r, question |-> asks[r],
                                           suggestions |-> answer[r],
                                           expires |-> now + OfferTTL]), OfferEntries)
  /\ At(r, "done")
  /\ UNCHANGED <<now, up, asks, cell, reply, answer, cells, pending, cache, permits,
                 lingering>>

-----------------------------------------------------------------------------
(* A submission claims a suggestion of an offer, the page's or any other;  *)
(* the record decides what the run is said to come from.                   *)

(* Fault: a known offer vouches for whatever question was submitted. *)
VouchesForAll(record, selected, text) == selected \in record.suggestions

Vouches(record, selected, text) == selected \in record.suggestions /\ text = selected

Live(id) == {o \in ToSet(offers) : o.id = id /\ o.expires > now}

(* What a claim is recorded as having come from: the question of the offer *)
(* that vouches for it, or nothing.                                        *)
VerifiedFrom(id, selected, text) ==
  {o.question : o \in {x \in Live(id) : Vouches(x, selected, text)}}

Resolve(id) ==
  /\ \E o \in Live(id) : offers' = Append(Without(offers, o), o)
  /\ UNCHANGED <<now, up, threads, cells, pending, cache, permits, lingering>>

Tick == /\ now < MaxTime
        /\ now' = now + 1
        /\ UNCHANGED <<up, threads, cells, pending, cache, offers, permits, lingering>>

(* Timers still to fire are cancelled, and their permits stay taken. *)
Shutdown ==
  /\ up /\ up' = FALSE
  /\ lingering' = {}
  /\ UNCHANGED <<now, threads, cells, pending, cache, offers, permits>>

Serve(r) == \/ Acquire(r) \/ Return(r) \/ Publish(r) \/ Release(r) \/ Wake(r) \/ Mint(r)

Next == \/ \E r \in Requests : Suggest(r) \/ Serve(r) \/ Fire(r) \/ Resolve(r)
        \/ Tick \/ Shutdown

Spec == Init /\ [][Next]_vars

(* Threads run, calls return (the client gives every call a timeout) and   *)
(* timers fire; nobody is obliged to ask.                                  *)
FairSpec == Spec /\ \A r \in Requests : WF_vars(Serve(r)) /\ WF_vars(Fire(r))
-----------------------------------------------------------------------------
(* Every variable keeps its type, and the stores their bounds. *)
TypeOK ==
  /\ now \in 0..MaxTime /\ up \in BOOLEAN
  /\ stage \in [Requests -> {"idle", "waiting", "acquiring", "calling", "publishing",
                             "signalling", "minting", "done"}]
  /\ asks \in [Requests -> Questions] /\ cell \in [Requests -> Requests \cup {Nobody}]
  /\ reply \in [Requests -> {<< >>} \cup {<<a>> : a \in Answers}]
  /\ published \in [Requests -> Answers] /\ signalled \subseteq Requests
  /\ answer \in [Requests -> Answers] /\ pending \in [KeySet -> Requests \cup {Nobody}]
  /\ Len(cache) <= CacheEntries /\ Len(offers) <= OfferEntries
  /\ permits \in 0..Concurrency /\ lingering \subseteq Requests

(* A permit is free, held by a call, held back after a timeout, or was so  *)
(* held back when the service shut down; there are always as many.         *)
InCall == {r \in Requests : stage[r] = "calling"}

PermitsAreConserved ==
  LET taken == permits + Cardinality(InCall) + Cardinality(lingering)
  IN taken <= Concurrency /\ (up => taken = Concurrency)

(* One question costs one call at a time, and everybody who joined it is   *)
(* served what its owner was.                                              *)
Computing == {r \in Requests : stage[r] \in {"acquiring", "calling", "publishing"}}

OneComputationPerQuestion ==
  /\ \A r, s \in Computing : Key(r) = Key(s) => r = s
  /\ \A r \in Requests : stage[r] = "done" /\ cell[r] # Nobody =>
       answer[r] = IF reply[cell[r]] = << >> THEN {} ELSE reply[cell[r]][1]

(* A claim is verified only for a suggestion that the service served to    *)
(* that page, for the text of exactly that suggestion, and it names the    *)
(* question the page had asked.                                            *)
VerifiedIsGenuine ==
  \A id \in Requests, selected \in Suggestions, text \in Suggestions \cup Questions :
    VerifiedFrom(id, selected, text) # {} =>
      /\ stage[id] = "done" /\ selected \in answer[id]
      /\ text = selected /\ VerifiedFrom(id, selected, text) = {asks[id]}

(* No request hangs: neither the owner of a call nor one that joined it.   *)
EverySuggestReturns == \A r \in Requests : (stage[r] # "idle") ~> (stage[r] = "done")
=============================================================================
