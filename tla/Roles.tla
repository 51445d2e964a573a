-------------------------------- MODULE Roles --------------------------------
(***************************************************************************)
(* Who writes and who reviews.  A roster is a sequence of writer aliases   *)
(* and, per lens, a sequence of critic aliases; independence is judged on  *)
(* the resolved identity behind an alias and on that identity's family.    *)
(* A member of a pool is a position in its sequence, so that "in roster    *)
(* order" is the order of the positions.  `gone` is the set of aliases     *)
(* removed from the pools: unreachable at startup, or sidelined.           *)
(***************************************************************************)
EXTENDS Integers, Sequences, FiniteSets

CONSTANTS
  Lenses,
  Writers,      \* sequence of aliases
  Critics,      \* [Lenses -> sequence of aliases]
  Orchestrator, \* the alias asked for the polish advice
  IdentityOf,   \* [alias -> resolved provider/model identity]
  FamilyOf      \* [identity -> model family]

WriterAliases == {Writers[i] : i \in DOMAIN Writers}
CriticAliases == UNION {{Critics[l][i] : i \in DOMAIN Critics[l]} : l \in Lenses}
Aliases == WriterAliases \cup CriticAliases \cup {Orchestrator}
Identities == {IdentityOf[a] : a \in Aliases}
Families == {FamilyOf[x] : x \in Identities}

ASSUME RosterAssumption ==
  /\ Writers \in Seq(WriterAliases) /\ Writers # << >>
  /\ Critics \in [Lenses -> Seq(CriticAliases)]
  /\ IdentityOf \in [Aliases -> Identities]
  /\ FamilyOf \in [Identities -> Families]
  /\ "external" \notin Identities

-----------------------------------------------------------------------------
(* Positions in order: how many of S come before i, the n first, the k-th. *)

Before(S, i) == Cardinality({j \in S : j < i})

FirstOf(S, n) == {i \in S : Before(S, i) < n}

Nth(S, k) == CHOOSE i \in S : Before(S, i) = k

Larger(a, b) == IF a >= b THEN a ELSE b

-----------------------------------------------------------------------------
(* Round robin over the reachable writers; the current author is one of    *)
(* them.                                                                   *)

WriterPool(gone) == {i \in DOMAIN Writers : Writers[i] \notin gone}

NextWriter(gone, rotation) ==
  Writers[Nth(WriterPool(gone), rotation % Cardinality(WriterPool(gone)))]

(* Identity of the critic at a position, and the positions still in a pool. *)
Reader(l, i) == IdentityOf[Critics[l][i]]

CriticPool(l, gone) == {i \in DOMAIN Critics[l] : Critics[l][i] \notin gone}

(* Not the author, and the first alias of its identity. *)
EligibleCritics(l, author, gone) ==
  {i \in CriticPool(l, gone) :
     /\ Reader(l, i) # author
     /\ \A j \in CriticPool(l, gone) : Reader(l, j) = Reader(l, i) => i <= j}

(* The critics that read lens l in one pass: up to `depth` unused ones of  *)
(* families new to this artifact; failing that one unused critic; failing  *)
(* that, the pool in rotation.  Empty when no one is eligible.             *)
CriticSlate(l, author, gone, used, depth, rotation) ==
  LET eligible == EligibleCritics(l, author, gone)
      fresh == {i \in eligible : Reader(l, i) \notin used}
      usedFamilies == {FamilyOf[x] : x \in used}
      familyFresh == {i \in fresh :
        /\ FamilyOf[Reader(l, i)] \notin usedFamilies
        /\ \A j \in fresh : FamilyOf[Reader(l, j)] = FamilyOf[Reader(l, i)] => i <= j}
      inTurn(S) == {Nth(S, rotation % Cardinality(S))}
  IN CASE familyFresh # {} -> FirstOf(familyFresh, Larger(1, depth))
       [] familyFresh = {} /\ fresh # {} -> inTurn(fresh)
       [] fresh = {} /\ eligible # {} -> inTurn(eligible)
       [] OTHER -> {}

(* A clean record [artifact, lens, critic, author] counts for the present  *)
(* artifact and author only, and only while its critic is eligible.        *)
LensStatus(l, author, gone, artifact, records, used) ==
  LET eligible == {Reader(l, i) : i \in EligibleCritics(l, author, gone)}
      cleared == {r.critic : r \in {q \in records :
                    /\ q.artifact = artifact /\ q.lens = l
                    /\ q.author = author /\ q.critic # author
                    /\ q.critic \in eligible}}
      familiesOf(S) == {FamilyOf[x] : x \in S}
  IN [cleared  |-> Cardinality(familiesOf(cleared)),
      eligible |-> Cardinality(familiesOf(eligible)),
      unused   |-> Cardinality(familiesOf(eligible \ used) \ familiesOf(cleared))]

LensStatuses(author, gone, artifact, records, used) ==
  [l \in Lenses |-> LensStatus(l, author, gone, artifact, records, used[l])]

-----------------------------------------------------------------------------
(* The roster can staff a run: a writer is left, and every lens keeps a    *)
(* critic that is not any remaining writer's own model.  `down` is gone    *)
(* from every pool, `benched` from the critic pools only.                  *)
Staffed(down, benched) ==
  /\ WriterPool(down) # {}
  /\ \A l \in Lenses, w \in WriterPool(down) :
       \E i \in CriticPool(l, down \cup benched) : Reader(l, i) # IdentityOf[Writers[w]]

(* Who may rule on a writer's dispute: neither the disputer nor a known    *)
(* raiser, identities that never write first.                              *)
EligibleArbiters(down, disputer, raisers) ==
  {x \in {IdentityOf[a] : a \in Aliases \ down} : x # disputer /\ x \notin raisers}

FirstArbiters(down, disputer, raisers) ==
  LET eligible == EligibleArbiters(down, disputer, raisers)
      stakeless == eligible \ {IdentityOf[Writers[w]] : w \in WriterPool(down)}
  IN IF stakeless = {} THEN eligible ELSE stakeless
==============================================================================
