------------------------- MODULE RefineServiceProofs -------------------------
(***************************************************************************)
(* What holds of RefineService for any number of requests, questions and   *)
(* suggestions, any ceiling on live calls and any size of the stores: the  *)
(* permits are conserved, one question costs one call at a time, and what  *)
(* a submission is said to come from is what its page was served.          *)
(***************************************************************************)
EXTENDS RefineService, FoldLemmas

Stages == {"idle", "waiting", "acquiring", "calling", "publishing", "signalling",
           "minting", "done"}

(* What the call of an owner came to, as everybody who joined it sees it.  *)
Outcome(o) == IF reply[o] = << >> THEN {} ELSE reply[o][1]

Types ==
  /\ stage \in [Requests -> Stages] /\ asks \in [Requests -> Questions]
  /\ cell \in [Requests -> Requests \cup {Nobody}]
  /\ pending \in [KeySet -> Requests \cup {Nobody}]
  /\ DOMAIN reply = Requests /\ DOMAIN published = Requests /\ DOMAIN answer = Requests
  /\ up \in BOOLEAN /\ permits \in Nat
  /\ signalled \subseteq Requests /\ lingering \subseteq Requests

(* A permit held back belongs to a call that has returned, so no request   *)
(* holds a permit in both ways.                                            *)
LingersAfterTheCall ==
  \A r \in lingering : stage[r] \in {"publishing", "signalling", "minting", "done"}

(* Whoever computes is the one the table names for the question, and waits *)
(* on its own entry.                                                       *)
Owns ==
  /\ \A r \in Requests : stage[r] = "idle" => cell[r] = Nobody
  /\ \A r \in Computing : cell[r] = r /\ pending[Key(r)] = r

(* An entry is let go only once it holds what the call came to, and the    *)
(* call is over, so that what it came to is not going to change.           *)
Settles ==
  /\ \A r \in Requests : stage[r] = "signalling" => cell[r] = r /\ published[r] = Outcome(r)
  /\ \A o \in signalled : stage[o] \in {"minting", "done"} /\ published[o] = Outcome(o)
  /\ \A r \in Requests : stage[r] \in {"minting", "done"} /\ cell[r] # Nobody =>
       cell[r] \in signalled /\ answer[r] = Outcome(cell[r])

Inv == Types /\ LingersAfterTheCall /\ PermitsAreConserved /\ Owns /\ Settles

-----------------------------------------------------------------------------
LEMMA KeyType == ASSUME Types, NEW r \in Requests PROVE Key(r) \in KeySet
  BY RefineAssumption DEF Types, Key, KeySet

(* The sets the permits are counted over are finite.                       *)
LEMMA PermitCounts ==
  ASSUME Types
  PROVE  /\ IsFiniteSet(InCall) /\ Cardinality(InCall) \in Nat
         /\ IsFiniteSet(lingering) /\ Cardinality(lingering) \in Nat
         /\ Concurrency \in Nat
<1>1. InCall \in SUBSET Requests /\ lingering \in SUBSET Requests
  BY DEF InCall, Types
<1>2. IsFiniteSet(Requests)
  BY RefineAssumption
<1>3. IsFiniteSet(InCall) /\ IsFiniteSet(lingering)
  BY <1>1, <1>2, FS_Subset
<1> QED BY <1>3, FS_CardinalityType, RefineAssumption

LEMMA InitEstablishes == Init => Inv
<1> SUFFICES ASSUME Init PROVE Inv
  OBVIOUS
<1>1. Types
  BY RefineAssumption DEF Init, Types, Stages
<1>2. InCall = {} /\ Cardinality(InCall) = 0 /\ lingering = {} /\ Cardinality(lingering) = 0
  BY FS_EmptySet DEF Init, InCall
<1>3. PermitsAreConserved
  BY <1>2, RefineAssumption DEF Init, PermitsAreConserved
<1>4. LingersAfterTheCall
  BY <1>2 DEF LingersAfterTheCall
<1>5. Owns /\ Settles
  BY DEF Init, Owns, Settles, Computing
<1> QED BY <1>1, <1>3, <1>4, <1>5 DEF Inv

-----------------------------------------------------------------------------
(* The permits, one lemma per way of holding one.                          *)

LEMMA PermitsUntouched ==
  ASSUME Inv, InCall' = InCall, UNCHANGED <<up, permits, lingering>>
  PROVE  PermitsAreConserved'
  BY DEF Inv, PermitsAreConserved

LEMMA PermitTaken ==
  ASSUME Inv, NEW r \in Requests, stage[r] # "calling", permits > 0,
         permits' = permits - 1, InCall' = InCall \cup {r}, UNCHANGED <<up, lingering>>
  PROVE  PermitsAreConserved'
<1>1. r \notin InCall
  BY DEF InCall
<1>2. Cardinality(InCall') = Cardinality(InCall) + 1
  BY <1>1, PermitCounts, FS_AddElement DEF Inv
<1> QED BY <1>2, PermitCounts DEF Inv, Types, PermitsAreConserved

LEMMA PermitReturned ==
  ASSUME Inv, NEW r \in Requests, stage[r] = "calling", InCall' = InCall \ {r}, up' = up,
         NEW timedOut \in BOOLEAN, ReleasePermit(r, timedOut)
  PROVE  PermitsAreConserved'
<1>1. r \in InCall /\ r \notin lingering
  BY DEF Inv, LingersAfterTheCall, InCall
<1>2. Cardinality(InCall') = Cardinality(InCall) - 1
  BY <1>1, PermitCounts, FS_RemoveElement DEF Inv
<1>3. Cardinality(lingering \cup {r}) = Cardinality(lingering) + 1
  BY <1>1, PermitCounts, FS_AddElement DEF Inv
<1>4. CASE timedOut /\ Lingers
  <2>1. permits' = permits /\ lingering' = lingering \cup {r}
    BY <1>4 DEF ReleasePermit
  <2> QED BY <2>1, <1>2, <1>3, PermitCounts DEF Inv, Types, PermitsAreConserved
<1>5. CASE ~ (timedOut /\ Lingers)
  <2>1. permits' = permits + 1 /\ lingering' = lingering
    BY <1>5 DEF ReleasePermit
  <2> QED BY <2>1, <1>2, PermitCounts DEF Inv, Types, PermitsAreConserved
<1> QED BY <1>4, <1>5

LEMMA PermitFired ==
  ASSUME Inv, NEW r \in lingering, permits' = permits + 1, lingering' = lingering \ {r},
         InCall' = InCall, up' = up
  PROVE  PermitsAreConserved'
<1>1. Cardinality(lingering') = Cardinality(lingering) - 1
  BY PermitCounts, FS_RemoveElement DEF Inv
<1> QED BY <1>1, PermitCounts DEF Inv, Types, PermitsAreConserved

LEMMA PermitsForfeited ==
  ASSUME Inv, Shutdown
  PROVE  PermitsAreConserved'
<1>1. InCall' = InCall /\ Cardinality(lingering') = 0
  BY FS_EmptySet DEF Shutdown, InCall, threads
<1> QED BY <1>1, PermitCounts DEF Shutdown, Inv, Types, PermitsAreConserved

-----------------------------------------------------------------------------
(* One lemma per action; the invariant but for the permits first.          *)

LEMMA SuggestKeeps == ASSUME Inv, NEW r \in Requests, Suggest(r) PROVE Inv'
<1> USE DEF Inv
<1> DEFINE Hit == /\ At(r, "minting") /\ UNCHANGED <<cell, pending>>
                  /\ \E a : answer' = [answer EXCEPT ![r] = a]
           Own == /\ At(r, "acquiring") /\ cell' = [cell EXCEPT ![r] = r]
                  /\ pending[Key(r)] = Nobody
                  /\ pending' = [pending EXCEPT ![Key(r)] = r] /\ answer' = answer
           Join == /\ At(r, "waiting") /\ cell' = [cell EXCEPT ![r] = pending[Key(r)]]
                   /\ UNCHANGED <<pending, answer>>
<1>1. Key(r) \in KeySet
  BY KeyType
<1>2. /\ stage[r] = "idle" /\ cell[r] = Nobody
      /\ UNCHANGED <<up, asks, reply, published, signalled, permits, lingering>>
  BY DEF Suggest, cells, Owns
<1>3. Hit \/ Own \/ Join
  BY DEF Suggest, Unasked
<1>4. Types'
  BY <1>1, <1>2, <1>3 DEF Types, Stages, At
<1>5. InCall' = InCall
  BY <1>2, <1>3 DEF InCall, Types, At
<1>6. PermitsAreConserved'
  BY <1>2, <1>5, PermitsUntouched
<1>7. LingersAfterTheCall'
  BY <1>2, <1>3 DEF LingersAfterTheCall, Types, At
<1>8. \A s \in Requests : Key(s)' = Key(s) /\ Key(s) \in KeySet
  BY <1>2, KeyType DEF Key
<1>9. Owns'
  <2>1. CASE Hit
    BY <1>2, <1>8, <2>1 DEF Owns, Computing, Types, At
  <2>2. CASE Own
    BY <1>1, <1>2, <1>8, <2>2, RefineAssumption DEF Owns, Computing, Types, At
  <2>3. CASE Join
    BY <1>2, <1>8, <2>3 DEF Owns, Computing, Types, At
  <2> QED BY <1>3, <2>1, <2>2, <2>3
<1>10. \A o \in Requests : Outcome(o)' = Outcome(o)
  BY <1>2 DEF Outcome
<1>11. Settles'
  <2>1. CASE Hit
    BY <1>2, <1>10, <2>1 DEF Settles, Types, At
  <2>2. CASE Own
    BY <1>2, <1>10, <2>2 DEF Settles, Types, At
  <2>3. CASE Join
    BY <1>2, <1>10, <2>3 DEF Settles, Types, At
  <2> QED BY <1>3, <2>1, <2>2, <2>3
<1> QED BY <1>4, <1>6, <1>7, <1>9, <1>11

LEMMA AcquireKeeps == ASSUME Inv, NEW r \in Requests, Acquire(r) PROVE Inv'
<1> USE DEF Inv, Acquire, At
<1>1. Types'
  BY DEF Types, Stages, cells
<1>2. PermitsAreConserved'
  <2>1. CASE permits > 0
    <3>1. InCall' = InCall \cup {r}
      BY <2>1 DEF InCall, Types
    <3> QED BY <2>1, <3>1, PermitTaken
  <2>2. CASE ~ (permits > 0)
    <3>1. InCall' = InCall
      BY <2>2 DEF InCall, Types
    <3> QED BY <2>2, <3>1, PermitsUntouched
  <2> QED BY <2>1, <2>2
<1>3. LingersAfterTheCall'
  BY DEF LingersAfterTheCall, Types
<1>4. Owns'
  BY DEF Owns, Computing, Types, Key
<1>5. Settles'
  BY DEF Settles, Types, Outcome, cells
<1> QED BY <1>1, <1>2, <1>3, <1>4, <1>5

LEMMA ReturnKeeps == ASSUME Inv, NEW r \in Requests, Return(r) PROVE Inv'
<1> USE DEF Inv, Return, At
<1>1. PICK timedOut \in BOOLEAN : ReleasePermit(r, timedOut)
  OBVIOUS
<1>2. Types'
  BY <1>1 DEF Types, Stages, cells, ReleasePermit
<1>3. InCall' = InCall \ {r}
  BY DEF InCall, Types
<1>4. PermitsAreConserved'
  BY <1>1, <1>3, PermitReturned
<1>5. LingersAfterTheCall'
  BY <1>1 DEF LingersAfterTheCall, Types, ReleasePermit
<1>6. Owns'
  BY DEF Owns, Computing, Types, Key
<1>7. \A o \in Requests : o # r => Outcome(o)' = Outcome(o)
  BY DEF Outcome, Types
<1>8. Settles'
  BY <1>7 DEF Settles, Types, cells
<1> QED BY <1>2, <1>4, <1>5, <1>6, <1>8

LEMMA PublishKeeps == ASSUME Inv, NEW r \in Requests, Publish(r) PROVE Inv'
<1> USE DEF Inv, Publish, At
<1>1. Types'
  BY KeyType DEF Types, Stages
<1>2. InCall' = InCall
  BY DEF InCall, Types
<1>3. PermitsAreConserved'
  BY <1>2, PermitsUntouched
<1>4. LingersAfterTheCall'
  BY DEF LingersAfterTheCall, Types
<1>5. Owns'
  BY DEF Owns, Computing, Types, Key
<1>6. Settles'
  BY DEF Settles, Owns, Computing, Types, Outcome
<1> QED BY <1>1, <1>3, <1>4, <1>5, <1>6

LEMMA ReleaseKeeps == ASSUME Inv, NEW r \in Requests, Release(r) PROVE Inv'
<1> USE DEF Inv, Release, At
<1>1. Types'
  BY DEF Types, Stages, Signal
<1>2. InCall' = InCall
  BY DEF InCall, Types
<1>3. PermitsAreConserved'
  BY <1>2, PermitsUntouched
<1>4. LingersAfterTheCall'
  BY DEF LingersAfterTheCall, Types
<1>5. Owns'
  BY DEF Owns, Computing, Types, Key
<1>6. \A o \in Requests : Outcome(o)' = Outcome(o)
  BY DEF Outcome
<1>7. cell[r] = r /\ published[r] = Outcome(r)
  BY DEF Settles
<1>8. Settles'
  <2>1. stage' = [stage EXCEPT ![r] = "minting"] /\ signalled' = signalled \cup {r}
        /\ answer' = [answer EXCEPT ![r] = published[r]] /\ UNCHANGED <<cell, published>>
    BY DEF Signal
  <2> QED BY <1>6, <1>7, <2>1 DEF Settles, Types
<1> QED BY <1>1, <1>3, <1>4, <1>5, <1>8

LEMMA WakeKeeps == ASSUME Inv, NEW r \in Requests, Wake(r) PROVE Inv'
<1> USE DEF Inv, Wake, At
<1>1. Types'
  BY DEF Types, Stages, cells
<1>2. InCall' = InCall
  BY DEF InCall, Types
<1>3. PermitsAreConserved'
  BY <1>2, PermitsUntouched
<1>4. LingersAfterTheCall'
  BY DEF LingersAfterTheCall, Types
<1>5. Owns'
  BY DEF Owns, Computing, Types, Key
<1>6. Settles'
  <2>1. \A o \in Requests : Outcome(o)' = Outcome(o)
    BY DEF Outcome
  <2>2. cell[r] \in signalled /\ published[cell[r]] = Outcome(cell[r])
    BY DEF Settles, Types
  <2>3. /\ stage' = [stage EXCEPT ![r] = "minting"] /\ answer' = [answer EXCEPT ![r] = published[cell[r]]]
        /\ UNCHANGED <<cell, published, signalled>>
    BY DEF cells
  <2> QED BY <2>1, <2>2, <2>3 DEF Settles, Types
<1> QED BY <1>1, <1>3, <1>4, <1>5, <1>6

LEMMA MintKeeps == ASSUME Inv, NEW r \in Requests, Mint(r) PROVE Inv'
<1> USE DEF Inv, Mint, At
<1>1. Types'
  BY DEF Types, Stages, cells
<1>2. InCall' = InCall
  BY DEF InCall, Types
<1>3. PermitsAreConserved'
  BY <1>2, PermitsUntouched
<1>4. LingersAfterTheCall'
  BY DEF LingersAfterTheCall, Types
<1>5. Owns'
  BY DEF Owns, Computing, Types, Key
<1>6. Settles'
  BY DEF Settles, Types, Outcome, cells
<1> QED BY <1>1, <1>3, <1>4, <1>5, <1>6

(* Timers, the clock, claims and the shutdown touch no request's thread.   *)
LEMMA ThreadsUntouched ==
  ASSUME Inv, UNCHANGED <<threads, cells, pending>>, up' \in BOOLEAN, permits' \in Nat,
         lingering' \subseteq lingering, PermitsAreConserved'
  PROVE  Inv'
<1> USE DEF Inv, threads, cells
<1>1. Types'
  BY DEF Types
<1>2. LingersAfterTheCall'
  BY DEF LingersAfterTheCall
<1>3. Owns' /\ Settles'
  BY DEF Owns, Settles, Computing, Key, Outcome
<1> QED BY <1>1, <1>2, <1>3

LEMMA FireKeeps == ASSUME Inv, NEW r \in Requests, Fire(r) PROVE Inv'
<1>1. InCall' = InCall /\ permits' \in Nat
  BY DEF Fire, Inv, Types, InCall, threads
<1>2. PermitsAreConserved'
  BY <1>1, PermitFired DEF Fire
<1> QED BY <1>1, <1>2, ThreadsUntouched DEF Fire, Inv, Types

LEMMA QuietKeeps ==
  ASSUME Inv, UNCHANGED <<up, threads, cells, pending, permits, lingering>>
  PROVE  Inv'
<1>1. InCall' = InCall
  BY DEF InCall, threads
<1>2. PermitsAreConserved'
  BY <1>1, PermitsUntouched
<1> QED BY <1>2, ThreadsUntouched DEF Inv, Types

LEMMA StepKeeps == Inv /\ [Next]_vars => Inv'
<1> SUFFICES ASSUME Inv, [Next]_vars PROVE Inv'
  OBVIOUS
<1>1. ASSUME NEW r \in Requests, Suggest(r) \/ Serve(r) \/ Fire(r) PROVE Inv'
  BY <1>1, SuggestKeeps, AcquireKeeps, ReturnKeeps, PublishKeeps, ReleaseKeeps, WakeKeeps,
     MintKeeps, FireKeeps DEF Serve
<1>2. ASSUME NEW r \in Requests, Resolve(r) PROVE Inv'
  BY <1>2, QuietKeeps DEF Resolve
<1>3. CASE Tick
  BY <1>3, QuietKeeps DEF Tick
<1>4. CASE Shutdown
  BY <1>4, PermitsForfeited, ThreadsUntouched DEF Shutdown, Inv, Types
<1>5. CASE UNCHANGED vars
  BY <1>5, QuietKeeps DEF vars
<1> QED BY <1>1, <1>2, <1>3, <1>4, <1>5 DEF Next

THEOREM Invariance == Spec => []Inv
  BY InitEstablishes, StepKeeps, PTL DEF Spec

-----------------------------------------------------------------------------
(* Whatever times out, lingers or shuts down, no permit of the ceiling on  *)
(* live calls is lost while the service is up and none is ever given back  *)
(* twice (RefinementClient's semaphore and its release timers).            *)
THEOREM PermitsStay == Spec => []PermitsAreConserved
<1>1. Inv => PermitsAreConserved
  BY DEF Inv
<1> QED BY <1>1, Invariance, PTL

(* However many requests ask one question at once, one of them computes,   *)
(* and those that joined it are served what its call came to               *)
(* (SuggestionCache.get_or_compute).                                       *)
THEOREM OneCallServesAll == Spec => []OneComputationPerQuestion
<1>1. Inv => OneComputationPerQuestion
  BY RefineAssumption DEF Inv, Owns, Settles, OneComputationPerQuestion, Outcome, Computing
<1> QED BY <1>1, Invariance, PTL

-----------------------------------------------------------------------------
(* Every offer is one that a request minted when it was done: it names the *)
(* question of that request and what the request was served.               *)
Minted ==
  {[id |-> r, question |-> asks[r], suggestions |-> answer[r], expires |-> t] :
     r \in {x \in Requests : stage[x] = "done"}, t \in Int}

Offered == now \in Int /\ offers \in Seq(Minted)

(* The most recent of a sequence are of it, and so is what is left of it.  *)
LEMMA RecentOf ==
  ASSUME NEW T, NEW entries \in Seq(T), NEW limit \in Nat
  PROVE  Recent(entries, limit) \in Seq(T)
<1>1. CASE Len(entries) <= limit
  BY <1>1 DEF Recent
<1>2. CASE ~ (Len(entries) <= limit)
  <2>1. Len(entries) \in Nat /\ Len(entries) - limit + 1 \in 1..(Len(entries) + 1)
    BY <1>2
  <2> QED BY <1>2, <2>1, SubSeqProperties DEF Recent
<1> QED BY <1>1, <1>2

LEMMA UsedAgain ==
  ASSUME NEW T, NEW entries \in Seq(T), NEW e \in ToSet(entries)
  PROVE  Append(Without(entries, e), e) \in Seq(T)
<1>1. e \in T
  BY DEF ToSet
<1>2. Without(entries, e) \in Seq(T)
  <2>1. Without(entries, e) \in Seq(T \cap (ToSet(entries) \ {e}))
    BY OnlyKeeps DEF Without
  <2> QED BY <2>1, SeqMonotonic
<1> QED BY <1>1, <1>2, AppendProperties

(* Whoever is done stays done, with the question and the answer it had.    *)
LEMMA MintedStays ==
  ASSUME Types, Next
  PROVE  Minted \subseteq Minted'
<1>1. asks' = asks /\ \A r \in Requests : stage[r] = "done" =>
        stage'[r] = "done" /\ answer'[r] = answer[r]
  <2>1. ASSUME NEW r \in Requests, Suggest(r) \/ Serve(r) \/ Fire(r) \/ Resolve(r)
        PROVE  asks' = asks /\ \A x \in Requests : stage[x] = "done" =>
                 stage'[x] = "done" /\ answer'[x] = answer[x]
    BY <2>1 DEF Suggest, Serve, Acquire, Return, Publish, Release, Wake, Mint, Fire, Resolve,
                At, threads, Types
  <2>2. CASE Tick \/ Shutdown
    BY <2>2 DEF Tick, Shutdown, threads
  <2> QED BY <2>1, <2>2 DEF Next
<1> QED BY <1>1 DEF Minted

LEMMA OfferedInit == Init => Offered
  BY DEF Init, Offered

LEMMA OfferedKeeps == ASSUME Types, Offered, Next PROVE Offered'
<1>1. offers \in Seq(Minted')
  BY MintedStays, SeqMonotonic DEF Offered
<1>2. CASE Tick
  BY <1>1, <1>2 DEF Tick, Offered
<1>3. CASE Shutdown
  BY <1>1, <1>3 DEF Shutdown, Offered
<1>4. ASSUME NEW r \in Requests, Mint(r) PROVE Offered'
  <2>1. now' = now /\ now \in Int
    BY <1>4 DEF Mint, Offered
  <2>2. CASE answer[r] = {}
    BY <1>1, <1>4, <2>1, <2>2 DEF Mint, Offered
  <2>3. CASE answer[r] # {}
    <3> DEFINE o == [id |-> r, question |-> asks[r], suggestions |-> answer[r],
                     expires |-> now + OfferTTL]
    <3>1. offers' = Recent(Append(offers, o), OfferEntries)
      BY <1>4, <2>3 DEF Mint
    <3>2. stage'[r] = "done" /\ answer' = answer /\ asks' = asks
      BY <1>4 DEF Mint, At, Types
    <3>3. now + OfferTTL \in Int
      BY <2>1, RefineAssumption
    <3>4. o \in Minted'
      BY <3>2, <3>3 DEF Minted
    <3> HIDE DEF o
    <3>5. Append(offers, o) \in Seq(Minted')
      BY <1>1, <3>4, AppendProperties
    <3>6. OfferEntries \in Nat
      BY RefineAssumption
    <3> QED BY <2>1, <3>1, <3>5, <3>6, RecentOf DEF Offered
  <2> QED BY <2>2, <2>3
<1>5. ASSUME NEW r \in Requests, Resolve(r) PROVE Offered'
  <2>1. PICK o \in Live(r) : offers' = Append(Without(offers, o), o)
    BY <1>5 DEF Resolve
  <2>2. o \in ToSet(offers)
    BY DEF Live
  <2>3. offers' \in Seq(Minted')
    BY <1>1, <2>1, <2>2, UsedAgain
  <2> QED BY <1>5, <2>3 DEF Resolve, Offered
<1>6. ASSUME NEW r \in Requests,
             Suggest(r) \/ Acquire(r) \/ Return(r) \/ Publish(r) \/ Release(r) \/ Wake(r) \/ Fire(r)
      PROVE  Offered'
  <2>1. now' = now /\ offers' = offers
    BY <1>6 DEF Suggest, Acquire, Return, Publish, Release, Wake, Fire
  <2> QED BY <1>1, <2>1 DEF Offered
<1> QED BY <1>2, <1>3, <1>4, <1>5, <1>6 DEF Next, Serve

LEMMA OfferedIsGenuine == Offered => VerifiedIsGenuine
<1> SUFFICES ASSUME Offered, NEW id \in Requests, NEW selected \in Suggestions,
                    NEW text \in Suggestions \cup Questions,
                    VerifiedFrom(id, selected, text) # {}
             PROVE  /\ stage[id] = "done" /\ selected \in answer[id]
                    /\ text = selected /\ VerifiedFrom(id, selected, text) = {asks[id]}
  BY DEF VerifiedIsGenuine
<1>1. ASSUME NEW o \in Live(id)
      PROVE  stage[id] = "done" /\ o.question = asks[id] /\ o.suggestions = answer[id]
  <2>1. o \in Minted /\ o.id = id
    <3>1. o \in ToSet(offers) /\ o.id = id
      BY DEF Live
    <3> QED BY <3>1 DEF Offered, ToSet
  <2> QED BY <2>1 DEF Minted
<1> QED BY <1>1 DEF VerifiedFrom, Vouches

(* Only the suggestion a page was served can be claimed for it, as it was  *)
(* worded, and the run then names the question that page had asked,        *)
(* however many offers the store has dropped, renewed or let expire        *)
(* (OfferStore.resolve, create_run).                                       *)
THEOREM VerifiedIsGenuineHolds == Spec => []VerifiedIsGenuine
<1>1. Inv => Types
  BY DEF Inv
<1>2. Types /\ Offered /\ [Next]_vars => Offered'
  <2>1. ASSUME Types, Offered, UNCHANGED vars PROVE Offered'
    BY <2>1 DEF Offered, Minted, vars, threads
  <2> QED BY <2>1, OfferedKeeps
<1> QED BY <1>1, <1>2, Invariance, OfferedInit, OfferedIsGenuine, PTL DEF Spec
=============================================================================
