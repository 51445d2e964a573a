--------------------------- MODULE DeviceNotices ---------------------------
(***************************************************************************)
(* Push subscriptions and the notices a stopped run sends (web/push.py).   *)
(* The store is one file behind a lock, replaced whole, so every operation *)
(* on it is one step; a notice reads its owner's rows once and then calls  *)
(* the push services one by one, while devices come and go.                *)
(***************************************************************************)
EXTENDS Integers, Sequences, FiniteSets, SequencesExt, Filtering

CONSTANTS
  Owners,
  Endpoints,       \* what a browser is reached by, as long as its subscription lives
  Strangers,       \* endpoints at hosts outside the present allowlist
  MaxPerIdentity,
  Notifiers,       \* worker threads, each able to send one notice at a time
  MaxClaims, MaxNotices   \* bounds

ASSUME DevicesAssumption ==
  /\ IsFiniteSet(Owners) /\ "nobody" \notin Owners
  /\ IsFiniteSet(Endpoints) /\ Strangers \subseteq Endpoints
  /\ MaxPerIdentity \in Nat \ {0} /\ MaxClaims \in Nat /\ MaxNotices \in Nat

VARIABLES
  rows,      \* [identity -> endpoints registered, oldest first]
  notice,    \* [notifier -> the notice being sent]
  dead,      \* endpoints whose push service answers that they are gone
  claims, notices,  \* registrations and notices so far
  claimant,  \* history: [endpoint -> who claimed it last, when, and not given up since]
  clocked,   \* history: [identity -> its registrations so far]
  strayed    \* history: a notice reached a device its owner had lost before the stop

store == <<rows, notice, dead, claims, notices>>
ownership == <<claimant, clocked, strayed>>
deviceVars == <<store, ownership>>

Nobody == [who |-> "nobody", at |-> 0]
NoNotice == [todo |-> << >>]

(* Rows registered under an earlier, wider allowlist may be there at start. *)
DevicesInit ==
  /\ \E i \in Owners, old \in {<< >>} \cup {<<s>> : s \in Strangers} :
       rows = [j \in Owners |-> IF j = i THEN old ELSE << >>]
  /\ notice = [n \in Notifiers |-> NoNotice]
  /\ dead = {} /\ claims = 0 /\ notices = 0 /\ strayed = FALSE
  /\ claimant = [e \in Endpoints |-> Nobody] /\ clocked = [i \in Owners |-> 0]

Newest(seq) == IF Len(seq) <= MaxPerIdentity THEN seq
               ELSE SubSeq(seq, Len(seq) - MaxPerIdentity + 1, Len(seq))

(* A fault: a registration drops the caller's own old row alone. *)
ClaimedOwn(i, e) == [rows EXCEPT ![i] = Newest(Append(Only(@, Endpoints \ {e}), e))]

(* A registration drops the endpoint from every identity, and the oldest   *)
(* row gives way.                                                          *)
Claimed(i, e) ==
  LET freed == [j \in Owners |-> Only(rows[j], Endpoints \ {e})]
  IN [freed EXCEPT ![i] = Newest(Append(@, e))]

Subscribe(i, e) ==
  /\ claims < MaxClaims /\ e \notin Strangers
  /\ claims' = claims + 1
  /\ rows' = Claimed(i, e)
  /\ clocked' = [clocked EXCEPT ![i] = @ + 1]
  /\ claimant' = [claimant EXCEPT ![e] = [who |-> i, at |-> clocked[i] + 1]]
  /\ UNCHANGED <<notice, dead, notices, strayed>>

(* Scoped to the caller: another's endpoint is left alone. *)
Unsubscribe(i, e) ==
  /\ Contains(rows[i], e)
  /\ rows' = [rows EXCEPT ![i] = Only(@, Endpoints \ {e})]
  /\ claimant' = [claimant EXCEPT ![e] = IF @.who = i THEN Nobody ELSE @]
  /\ UNCHANGED <<notice, dead, claims, notices, clocked, strayed>>

(* The browser withdraws its subscription, or its push service drops it. *)
Lapse(e) ==
  /\ e \notin dead \cup Strangers
  /\ dead' = dead \cup {e}
  /\ UNCHANGED <<rows, notice, claims, notices, ownership>>

-----------------------------------------------------------------------------
(* A run of i's stops: its rows are read, once. *)
Stopped(n, i) ==
  /\ notice[n] = NoNotice /\ notices < MaxNotices
  /\ notices' = notices + 1
  /\ notice' = [notice EXCEPT ![n] =
       IF rows[i] = << >> THEN NoNotice
       ELSE [todo |-> rows[i],
             lost |-> {e \in Endpoints : claimant[e].who \in Owners \ {i}}]]
  /\ UNCHANGED <<rows, dead, claims, ownership>>

(* An endpoint that is of no use any more is forgotten wherever it stands. *)
Pruned(e) == [j \in Owners |-> Only(rows[j], Endpoints \ {e})]

(* The next row: not a permitted host, gone, failed for now, or told. *)
Deliver(n) ==
  /\ notice[n].todo # << >>
  /\ LET e == Head(notice[n].todo)
         rest == Tail(notice[n].todo)
     IN /\ \/ /\ e \in Strangers \cup dead
              /\ rows' = Pruned(e)
              /\ UNCHANGED strayed
           \/ /\ e \notin Strangers
              /\ UNCHANGED <<rows, strayed>>
           \/ /\ e \notin Strangers \cup dead
              /\ strayed' = (strayed \/ e \in notice[n].lost)
              /\ UNCHANGED rows
        /\ notice' = IF rest = << >> THEN [notice EXCEPT ![n] = NoNotice]
                     ELSE [notice EXCEPT ![n].todo = rest]
  /\ UNCHANGED <<dead, claims, notices, claimant, clocked>>

(* The process is stopped and started: notices not yet sent are never      *)
(* sent; the file remains.                                                 *)
Restart ==
  /\ \E n \in Notifiers : notice[n] # NoNotice
  /\ notice' = [n \in Notifiers |-> NoNotice]
  /\ UNCHANGED <<rows, dead, claims, notices, ownership>>

DevicesNext ==
  \/ \E i \in Owners, e \in Endpoints : Subscribe(i, e) \/ Unsubscribe(i, e)
  \/ \E e \in Endpoints : Lapse(e)
  \/ \E n \in Notifiers : Deliver(n) \/ \E i \in Owners : Stopped(n, i)
  \/ Restart

DevicesSpec == DevicesInit /\ [][DevicesNext]_deviceVars

-----------------------------------------------------------------------------
(* A device follows the identity it was last signed in as, whatever        *)
(* notices are on their way: it stands under no other; while it lives, and *)
(* its owner has not registered MaxPerIdentity newer ones nor given it up, *)
(* it stands there; and no notice of a stop reaches a device that had      *)
(* been signed away before the stop (PushStore.add, prune, Notifier).      *)
DevicesFollowTheirIdentity ==
  /\ \A e \in Endpoints, i \in Owners :
       /\ claimant[e].who = i =>
            \A j \in Owners \ {i} : ~ Contains(rows[j], e)
       /\ claimant[e].who = i /\ e \notin dead
            /\ clocked[i] < claimant[e].at + MaxPerIdentity => Contains(rows[i], e)
  /\ ~ strayed
=============================================================================
