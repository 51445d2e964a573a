-------------------------- MODULE RefineLoopProofs --------------------------
(***************************************************************************)
(* What the refine loop owes its reader, for every roster, every set of    *)
(* lenses, every budget and whatever the models return.                    *)
(***************************************************************************)
EXTENDS RefineLoopProperties, FiniteSetTheorems, TLAPS

-----------------------------------------------------------------------------
(* Counting, positions in order, and the critics the roster's rules        *)
(* choose: they are on the roster, and there is one whenever anybody is    *)
(* eligible.                                                               *)

(* A finite set of naturals with 0 and every successor would be as large   *)
(* as itself without 0: a set of naturals closed under both is all of them *)
(* up to any bound.                                                        *)
LEMMA Climbing ==
  ASSUME NEW S \in SUBSET Nat, 0 \in S, NEW n \in Nat,
         \A m \in S : m < n => m + 1 \in S
  PROVE  n \in S
<1> SUFFICES ASSUME n \notin S PROVE FALSE
  OBVIOUS
<1> DEFINE L == {m \in S : m < n}
           next == [m \in L |-> m + 1]
<1>1. IsFiniteSet(L)
  <2>1. L \in SUBSET Nat
    OBVIOUS
  <2>2. \A m \in L : m <= n
    OBVIOUS
  <2> HIDE DEF L
  <2> QED BY <2>1, <2>2, FS_BoundedSetOfNaturals
<1>2. \A m \in L : m + 1 \in L
  <2> SUFFICES ASSUME NEW m \in L PROVE m + 1 \in L
    OBVIOUS
  <2>1. m + 1 \in S /\ m \in Nat /\ m < n /\ m + 1 # n
    OBVIOUS
  <2> QED BY <2>1
<1>3. next \in Injection(L, L)
  <2>1. next \in [L -> L]
    BY <1>2
  <2>2. \A a, b \in L : next[a] = next[b] => a = b
    OBVIOUS
  <2> HIDE DEF next, L
  <2>3. DOMAIN next = L
    BY <2>1
  <2> QED BY <2>1, <2>2, <2>3 DEF Injection, IsInjective
<1>4. next \in Surjection(L, L)
  BY <1>1, <1>3, FS_Injection
<1>5. 0 \in L
  OBVIOUS
<1>6. \E m \in L : next[m] = 0
  BY <1>4, <1>5 DEF Surjection
<1> QED BY <1>6

LEMMA LeastMember ==
  ASSUME NEW S \in SUBSET Nat, S # {}
  PROVE  \E x \in S : \A y \in S : x <= y
<1> SUFFICES ASSUME \A x \in S : \E y \in S : y < x PROVE FALSE
  OBVIOUS
<1> DEFINE below == {m \in Nat : \A y \in S : m < y}
<1> PICK n \in S : TRUE
  OBVIOUS
<1>1. 0 \in below
  OBVIOUS
<1>2. \A m \in below : m + 1 \in below
  <2> SUFFICES ASSUME NEW m \in below, NEW y \in S PROVE m + 1 < y
    OBVIOUS
  <2>1. \E x \in S : x < y
    OBVIOUS
  <2> QED BY <2>1
<1>3. n \in below
  BY <1>1, <1>2, Climbing
<1> QED BY <1>3

(* A set counted as two has two members, finite or not.                    *)
LEMMA TwoMembers ==
  ASSUME NEW S, Cardinality(S) >= 2 PROVE \E x, y \in S : x # y
<1> SUFFICES ASSUME \A x, y \in S : x = y PROVE FALSE
  OBVIOUS
<1>1. S = {} \/ \E x : S = {x}
  OBVIOUS
<1>2. Cardinality(S) \in {0, 1}
  BY <1>1, FS_EmptySet, FS_Singleton
<1> QED BY <1>2

LEMMA OneMember ==
  ASSUME NEW S, Cardinality(S) >= 1 PROVE S # {}
  BY FS_EmptySet

(* A finite set with two members is counted as two or more.                *)
LEMMA AtLeastTwo ==
  ASSUME NEW S, IsFiniteSet(S), NEW x \in S, NEW y \in S, x # y
  PROVE  Cardinality(S) >= 2
<1>1. Cardinality(S) \in Nat
  BY FS_CardinalityType
<1>2. Cardinality(S) # 0 /\ Cardinality(S) # 1
  BY FS_EmptySet, FS_Singleton
<1> QED BY <1>1, <1>2

(* The k-th of a set, counting from 0, is there when the set is that large. *)
LEMMA NthMember ==
  ASSUME NEW S \in SUBSET Nat, IsFiniteSet(S), NEW k \in Nat, k < Cardinality(S)
  PROVE  Nth(S, k) \in S
<1> DEFINE under(i) == {j \in S : j < i}
           G == {m \in Nat : m < Cardinality(S) => \E i \in S : Cardinality(under(i)) = m}
<1>1. Cardinality(S) \in Nat
  BY FS_CardinalityType
<1>2. 0 \in G
  <2> SUFFICES ASSUME 0 < Cardinality(S) PROVE \E i \in S : Cardinality(under(i)) = 0
    OBVIOUS
  <2>1. S # {}
    BY FS_EmptySet
  <2> PICK i \in S : \A y \in S : i <= y
    BY <2>1, LeastMember
  <2>2. \A j \in S : ~ (j < i)
    OBVIOUS
  <2>3. under(i) = {}
    BY <2>2
  <2> QED BY <2>3, FS_EmptySet
<1>3. ASSUME NEW m \in G, m < k PROVE m + 1 \in G
  <2> SUFFICES ASSUME m + 1 < Cardinality(S)
               PROVE  \E i \in S : Cardinality(under(i)) = m + 1
    OBVIOUS
  <2> PICK i \in S : Cardinality(under(i)) = m
    BY <1>1
  <2> DEFINE over == {j \in S : i < j}
  <2>1. IsFiniteSet(under(i)) /\ IsFiniteSet(under(i) \cup {i})
        /\ Cardinality(under(i) \cup {i}) = m + 1
    <3>1. IsFiniteSet(under(i))
      BY FS_Subset
    <3>2. i \notin under(i)
      OBVIOUS
    <3> HIDE DEF under
    <3> QED BY <3>1, <3>2, FS_AddElement
  <2>2. over # {}
    <3>0. \A j \in S : j < i \/ j = i \/ i < j
      OBVIOUS
    <3>1. S = (under(i) \cup {i}) \cup over
      BY <3>0
    <3>2. over = {} => Cardinality(S) = m + 1
      BY <2>1, <3>1
    <3> QED BY <1>1, <3>2
  <2> PICK j \in over : \A y \in over : j <= y
    BY <2>2, LeastMember
  <2>3. under(j) = under(i) \cup {i}
    <3>1. \A y \in S : y < j <=> y < i \/ y = i
      OBVIOUS
    <3> QED BY <3>1
  <2> QED BY <2>1, <2>3
<1>4. k \in G
  <2> HIDE DEF G
  <2>1. G \in SUBSET Nat
    BY DEF G
  <2> QED BY <1>2, <1>3, <2>1, Climbing
<1>5. \E i \in S : Before(S, i) = k
  BY <1>4 DEF Before
<1> QED BY <1>5 DEF Nth

LEMMA FirstOfSome ==
  ASSUME NEW S \in SUBSET Nat, NEW n
  PROVE  /\ FirstOf(S, n) \subseteq S
         /\ S # {} /\ n \in Int /\ n >= 1 => FirstOf(S, n) # {}
<1>1. FirstOf(S, n) \subseteq S
  BY DEF FirstOf
<1>2. ASSUME S # {}, n \in Int, n >= 1 PROVE FirstOf(S, n) # {}
  <2> PICK i \in S : \A y \in S : i <= y
    BY <1>2, LeastMember
  <2>0. \A j \in S : ~ (j < i)
    OBVIOUS
  <2>1. {j \in S : j < i} = {}
    BY <2>0
  <2>2. Before(S, i) = 0
    BY <2>1, FS_EmptySet DEF Before
  <2> QED BY <1>2, <2>2 DEF FirstOf
<1> QED BY <1>1, <1>2

(* A turn taken modulo the size of a set falls on a member.                *)
LEMMA TurnMember ==
  ASSUME NEW S \in SUBSET Nat, IsFiniteSet(S), S # {}, NEW turn \in Nat
  PROVE  Nth(S, turn % Cardinality(S)) \in S
<1>1. Cardinality(S) \in Nat /\ Cardinality(S) # 0
  BY FS_CardinalityType, FS_EmptySet
<1>2. turn % Cardinality(S) \in Nat /\ turn % Cardinality(S) < Cardinality(S)
  BY <1>1
<1> QED BY <1>2, NthMember

-----------------------------------------------------------------------------
(* The critics of one pass are eligible, there is one whenever anybody is, *)
(* and somebody not asked before whenever there is such a one.             *)
LEMMA SlateChosen ==
  ASSUME NEW l \in Lenses, NEW writer, NEW gone, NEW asked, NEW depth, NEW turn \in Nat,
         NEW eligible, eligible = EligibleCritics(l, writer, gone),
         NEW slate, slate = CriticSlate(l, writer, gone, asked, depth, turn)
  PROVE  /\ eligible \subseteq DOMAIN Critics[l] /\ IsFiniteSet(eligible)
         /\ slate \subseteq eligible
         /\ depth \in Int /\ eligible # {} => slate # {}
         /\ depth \in Int /\ (\E i \in eligible : Reader(l, i) \notin asked) =>
              \E i \in slate : Reader(l, i) \notin asked
<1> DEFINE fresh == {i \in eligible : Reader(l, i) \notin asked}
           usedFamilies == {FamilyOf[x] : x \in asked}
           familyFresh == {i \in fresh :
             /\ FamilyOf[Reader(l, i)] \notin usedFamilies
             /\ \A j \in fresh : FamilyOf[Reader(l, j)] = FamilyOf[Reader(l, i)] => i <= j}
           inTurn(S) == {Nth(S, turn % Cardinality(S))}
<1>1. slate = CASE familyFresh # {} -> FirstOf(familyFresh, Larger(1, depth))
                [] familyFresh = {} /\ fresh # {} -> inTurn(fresh)
                [] fresh = {} /\ eligible # {} -> inTurn(eligible)
                [] OTHER -> {}
  BY DEF CriticSlate
<1>2. DOMAIN Critics[l] = 1..Len(Critics[l]) /\ Len(Critics[l]) \in Nat
  BY RosterAssumption
<1>3. eligible \subseteq DOMAIN Critics[l]
  BY DEF EligibleCritics, CriticPool
<1>4. IsFiniteSet(eligible) /\ eligible \in SUBSET Nat
  <2>1. IsFiniteSet(1..Len(Critics[l]))
    BY <1>2, FS_Interval
  <2> QED BY <1>2, <1>3, <2>1, FS_Subset
<1>5. /\ fresh \subseteq eligible /\ IsFiniteSet(fresh)
      /\ familyFresh \subseteq fresh
  BY <1>4, FS_Subset
<1> HIDE DEF fresh, familyFresh
<1>6. CASE familyFresh # {}
  <2>1. slate = FirstOf(familyFresh, Larger(1, depth))
    BY <1>1, <1>5, <1>6
  <2>2. depth \in Int => Larger(1, depth) \in Int /\ Larger(1, depth) >= 1
    BY DEF Larger
  <2>3. familyFresh \in SUBSET Nat
    BY <1>4, <1>5
  <2>4. slate \subseteq familyFresh /\ (depth \in Int => slate # {})
    BY <1>6, <2>1, <2>2, <2>3, FirstOfSome
  <2> QED BY <1>3, <1>4, <1>5, <2>4 DEF fresh
<1>7. CASE familyFresh = {} /\ fresh # {}
  <2>1. slate = {Nth(fresh, turn % Cardinality(fresh))}
    BY <1>1, <1>7
  <2>2. Nth(fresh, turn % Cardinality(fresh)) \in fresh
    BY <1>4, <1>5, <1>7, TurnMember
  <2> QED BY <1>3, <1>4, <1>5, <2>1, <2>2 DEF fresh
<1>8. CASE familyFresh = {} /\ fresh = {} /\ eligible # {}
  <2>1. slate = {Nth(eligible, turn % Cardinality(eligible))}
    BY <1>1, <1>8
  <2>2. Nth(eligible, turn % Cardinality(eligible)) \in eligible
    BY <1>4, <1>8, TurnMember
  <2> QED BY <1>3, <1>4, <1>8, <2>1, <2>2 DEF fresh
<1>9. CASE familyFresh = {} /\ fresh = {} /\ eligible = {}
  <2>1. slate = {}
    BY <1>1, <1>9
  <2> QED BY <1>3, <1>4, <1>9, <2>1
<1> QED BY <1>6, <1>7, <1>8, <1>9

-----------------------------------------------------------------------------
(* The controller's table always decides, by the first rule that applies.  *)

LEMMA LeastOf ==
  ASSUME NEW S \in SUBSET (1..14), 14 \in S
  PROVE  \E r \in S : \A q \in 1..(r - 1) : q \notin S
  OBVIOUS

LEMMA FirstRule ==
  ASSUME NEW ci
  PROVE  /\ Rule(ci) \in 1..14 /\ Applies(Rule(ci), ci)
         /\ \A q \in 1..(Rule(ci) - 1) : ~ Applies(q, ci)
<1> DEFINE S == {r \in 1..14 : Applies(r, ci)}
<1>1. 14 \in S
  BY DEF Applies
<1>2. \E r \in S : \A q \in 1..(r - 1) : q \notin S
  BY <1>1, LeastOf
<1>3. \E r \in 1..14 : Applies(r, ci) /\ \A q \in 1..(r - 1) : ~ Applies(q, ci)
  BY <1>2
<1> QED BY <1>3 DEF Rule

(* What a decision says, by its action and its status, of what the         *)
(* controller was shown.                                                   *)
LEMMA Decided ==
  ASSUME NEW ci, ci.fatal \in BOOLEAN, ci.round \in Nat, ci.failed \in Nat,
         ci.blocking \in Nat, ci.major \in Nat, NEW unread, NEW d, d = Decide(ci, unread)
  PROVE  /\ d.action \in {"recritique", "generate", "terminal"}
         /\ d.status \in Terminals \cup {"none"}
         /\ d.action = "terminal" <=> d.status # "none"
         /\ ci.fatal => d.status = "aborted" /\ d.rule = 1
         /\ d.action = "recritique" <=> d.rule \in {2, 8}
         /\ d.rule = 2 => ci.critiqueLeft > 0
         /\ d.rule = 8 => /\ ci.confirmLeft > 0
                          /\ \A l \in d.lenses : Toppable(ci.status[l])
         /\ d.action = "generate" => ci.round < HardCap
         /\ d.status \notin {"aborted", "none"} => ci.failed = 0
         /\ d.status \in {"accepted", "converged_unconfirmed"} =>
              ci.round >= MinTicks /\ ci.blocking = 0 /\ ci.major = 0
         /\ d.status = "accepted" => StrongMet(ci.status)
         /\ d.status = "converged_unconfirmed" => WeakMet(ci.status)
         /\ d.status = "needs_human_review" => ci.blocking > 0 \/ ci.major > 0
         /\ d.rewrite => d.rule = 13
         /\ d.rule = 13 => ci.stagnation >= StagnationLimit
<1> DEFINE r == Rule(ci)
<1>1. /\ r \in 1..14 /\ Applies(r, ci)
      /\ \A q \in 1..(r - 1) : ~ Applies(q, ci)
  BY FirstRule
<1>2. /\ d.rule = r /\ d.action = Action(r, ci) /\ d.rewrite = Rewrites(r, ci)
      /\ d.lenses = RecritiqueLenses(r, ci, unread)
      /\ d.status = IF Action(r, ci) = "terminal" THEN TerminalStatus(r, ci) ELSE "none"
  BY DEF Decide
<1> HIDE DEF r
<1>0. r = 8 => \A l \in d.lenses : Toppable(ci.status[l])
  BY <1>2 DEF RecritiqueLenses
<1>3. CASE r \in {1, 2, 3, 4}
  <2>1. r # 1 => ~ Applies(1, ci)
    BY <1>1, <1>3
  <2>6. r # 1 => ~ ci.fatal
    BY <2>1 DEF Applies
  <2>2. Applies(r, ci)
    BY <1>1
  <2>3. /\ r = 1 \/ ~ ci.fatal
        /\ r = 2 => ci.critiqueLeft > 0
        /\ r = 4 => ci.round < HardCap
    BY <1>3, <2>1, <2>2, BudgetsAssumption DEF Applies
  <2>4. /\ r = 2 => Action(r, ci) = "recritique"
        /\ r = 4 => Action(r, ci) = "generate"
        /\ r \in {1, 3} => Action(r, ci) = "terminal" /\ TerminalStatus(r, ci) = "aborted"
        /\ ~ Rewrites(r, ci)
    BY <1>3 DEF Action, TerminalStatus, Rewrites
  <2>5. d.status = IF r \in {1, 3} THEN "aborted" ELSE "none"
    BY <1>2, <1>3, <2>4
  <2> QED BY <1>2, <1>3, <2>3, <2>4, <2>5, <2>6 DEF Terminals
<1>4. CASE r \in 5..14
  <2>1. /\ ~ ci.fatal /\ ci.failed = 0 /\ ci.round >= MinTicks
        /\ AtCap(ci) /\ r > 6 => ci.blocking = 0 /\ ci.major = 0
        /\ AtCap(ci) /\ r = 6 => ci.blocking = 0
    <3>1. ~ Applies(1, ci) /\ ~ Applies(2, ci) /\ ~ Applies(3, ci) /\ ~ Applies(4, ci)
      BY <1>1, <1>4
    <3>2. r > 5 => ~ Applies(5, ci)
      BY <1>1, <1>4
    <3>3. r > 6 => ~ Applies(6, ci)
      BY <1>1, <1>4
    <3> QED BY <1>4, <3>1, <3>2, <3>3, BudgetsAssumption DEF Applies
  <2>2. r > 11 => Material(ci) # 0
    <3>1. r > 11 => ~ Applies(11, ci)
      BY <1>1, <1>4
    <3> QED BY <3>1 DEF Applies
  <2>3. Applies(r, ci)
    BY <1>1
  <2>4. CASE r \in {5, 6}
    BY <1>2, <2>1, <2>3, <2>4 DEF Applies, Action, TerminalStatus, Rewrites, Terminals
  <2>5. CASE r \in {7, 8, 9, 10, 11}
    BY <1>0, <1>2, <2>1, <2>3, <2>5, BudgetsAssumption
       DEF Applies, Action, TerminalStatus, Rewrites, Terminals, Material, AtCap
  <2>6. CASE r \in {12, 13, 14}
    BY <1>2, <2>1, <2>2, <2>3, <2>6, BudgetsAssumption
       DEF Applies, Action, TerminalStatus, Rewrites, Terminals, Material, AtCap
  <2> QED BY <1>4, <2>4, <2>5, <2>6
<1> QED BY <1>1, <1>3, <1>4

-----------------------------------------------------------------------------
(* Clearance: a lens counted as cleared has the records to show for it.    *)

Vouches(c, l) ==
  c.artifact = report /\ c.lens = l /\ c.author = author /\ c.critic # author

LEMMA ClearedTwice ==
  ASSUME NEW l \in Lenses, NEW gone,
         LensStatuses(author, gone, report, clean, used)[l].cleared >= 2
  PROVE  \E c, d \in clean : /\ Vouches(c, l) /\ Vouches(d, l)
                             /\ FamilyOf[c.critic] # FamilyOf[d.critic]
<1> DEFINE eligible == {Reader(l, i) : i \in EligibleCritics(l, author, gone)}
           cleared == {r.critic : r \in {q \in clean :
                         /\ q.artifact = report /\ q.lens = l
                         /\ q.author = author /\ q.critic # author
                         /\ q.critic \in eligible}}
           families == {FamilyOf[x] : x \in cleared}
<1>1. Cardinality(families) >= 2
  BY DEF LensStatuses, LensStatus
<1>2. \E f, g \in families : f # g
  BY <1>1, TwoMembers
<1> QED BY <1>2 DEF Vouches

LEMMA ClearedOnce ==
  ASSUME NEW l \in Lenses, NEW gone,
         LensStatuses(author, gone, report, clean, used)[l].cleared >= 1
  PROVE  \E c \in clean : Vouches(c, l)
<1> DEFINE eligible == {Reader(l, i) : i \in EligibleCritics(l, author, gone)}
           cleared == {r.critic : r \in {q \in clean :
                         /\ q.artifact = report /\ q.lens = l
                         /\ q.author = author /\ q.critic # author
                         /\ q.critic \in eligible}}
           families == {FamilyOf[x] : x \in cleared}
<1>1. Cardinality(families) >= 1
  BY DEF LensStatuses, LensStatus
<1>2. families # {}
  BY <1>1, OneMember
<1> QED BY <1>2 DEF Vouches

-----------------------------------------------------------------------------
(* The findings of a draft: finitely many, and one of them is material     *)
(* exactly when some completed review holds an issue that stands.          *)

IssuesKnown == \A r \in reviews : r.issues \subseteq Issues

Standing == \E r \in reviews : \E i \in r.issues : Stands(i)

LEMMA IssuesFinite == IsFiniteSet(Issues)
<1> DEFINE f == [p \in Keys \X Severities |-> [key |-> p[1], sev |-> p[2]]]
<1>1. IsFiniteSet(Keys \X Severities)
  <2>1. IsFiniteSet(Keys)
    BY LoopAssumption
  <2>2. 0 \in Int /\ 2 \in Int
    OBVIOUS
  <2>3. IsFiniteSet(Severities)
    BY <2>2, FS_Interval, Zenon DEF Severities
  <2> QED BY <2>1, <2>3, FS_Product
<1>2. f \in Surjection(Keys \X Severities, Issues)
  <2>1. f \in [Keys \X Severities -> Issues]
    BY DEF Issues
  <2>2. ASSUME NEW i \in Issues PROVE \E p \in Keys \X Severities : f[p] = i
    <3>1. f[<<i.key, i.sev>>] = i /\ <<i.key, i.sev>> \in Keys \X Severities
      BY DEF Issues
    <3> QED BY <3>1
  <2> QED BY <2>1, <2>2 DEF Surjection
<1> QED BY <1>1, <1>2, FS_Surjection

LEMMA ClampedIssues ==
  ASSUME NEW S \in SUBSET Issues
  PROVE  /\ Clamped(S) \subseteq Issues
         /\ \A i \in S : Stands(i) => [key |-> i.key, sev |-> Larger(i.sev, FloorOf[i.key])]
                                         \in Clamped(S)
         /\ \A c \in Clamped(S) : c.key \notin Stylistic /\ c.sev >= 1 =>
              \E i \in S : i.key = c.key /\ Stands(i)
<1> USE LoopAssumption DEF Issues, Severities, Larger, Clamped
<1>1. Clamped(S) \subseteq Issues
  OBVIOUS
<1>2. \A i \in S : Stands(i) => [key |-> i.key, sev |-> Larger(i.sev, FloorOf[i.key])]
                                  \in Clamped(S)
  BY DEF Stands, Upheld
<1>3. ASSUME NEW c \in Clamped(S), c.key \notin Stylistic, c.sev >= 1
      PROVE  \E i \in S : i.key = c.key /\ Stands(i)
  <2> PICK i \in S : /\ i.key \notin Upheld
                     /\ c = [key |-> i.key, sev |-> Larger(i.sev, FloorOf[i.key])]
    OBVIOUS
  <2> QED BY <1>3 DEF Stands, Upheld
<1> QED BY <1>1, <1>2, <1>3

LEMMA FindingsStand ==
  ASSUME IssuesKnown
  PROVE  /\ Findings \subseteq Issues
         /\ \A r \in reviews : \A i \in r.issues : Stands(i) =>
              \E x \in Findings : x.key = i.key /\ x.sev >= i.sev /\ x.sev >= 1
         /\ (\E i \in Findings : i.sev >= 1) <=> Standing
<1> DEFINE raised == {i \in UNION {Clamped(r.issues) : r \in reviews} : i.key \notin Stylistic}
<1>1. Findings = {i \in raised : \A j \in raised : j.key = i.key => j.sev <= i.sev}
  BY DEF Findings
<1>2. raised \subseteq Issues
  BY ClampedIssues DEF IssuesKnown
<1>3. ASSUME NEW i \in Findings, i.sev >= 1 PROVE Standing
  <2> PICK r \in reviews : i \in Clamped(r.issues) /\ i.key \notin Stylistic
    BY <1>1
  <2>1. \E j \in r.issues : Stands(j)
    BY <1>3, ClampedIssues DEF IssuesKnown
  <2> QED BY <2>1 DEF Standing
<1>4. ASSUME NEW r \in reviews, NEW i \in r.issues, Stands(i)
      PROVE  \E x \in Findings : x.key = i.key /\ x.sev >= i.sev /\ x.sev >= 1
  <2> DEFINE c == [key |-> i.key, sev |-> Larger(i.sev, FloorOf[i.key])]
  <2>0. i \in Issues
    BY DEF IssuesKnown
  <2>1. c \in raised /\ c.sev >= 1 /\ c.sev >= i.sev /\ c.key = i.key
    <3>1. c \in Clamped(r.issues) /\ c.key \notin Stylistic /\ c.sev >= 1
      BY <1>4, ClampedIssues DEF IssuesKnown, Stands
    <3>2. c.sev >= i.sev
      BY <2>0, LoopAssumption DEF Larger, Issues, Severities
    <3> QED BY <3>1, <3>2
  <2> HIDE DEF c, raised
  <2>2. \A j \in raised : j.sev \in 0..2
    BY <1>2 DEF Issues, Severities
  <2>3. CASE \E j \in raised : j.key = c.key /\ j.sev = 2
    <3>1. i.sev <= 2
      BY <2>0 DEF Issues, Severities
    <3> QED BY <1>1, <2>1, <2>2, <2>3, <3>1
  <2>4. CASE ~ \E j \in raised : j.key = c.key /\ j.sev = 2
    <3>1. \A j \in raised : j.key = c.key => j.sev <= c.sev
      BY <2>1, <2>2, <2>4
    <3> QED BY <1>1, <2>1, <3>1
  <2> QED BY <2>3, <2>4
<1>5. Findings \subseteq Issues
  BY <1>1, <1>2
<1> QED BY <1>3, <1>4, <1>5 DEF Standing

(* Counting the findings of a severity finds them.                         *)
LEMMA CountFindings ==
  ASSUME IssuesKnown
  PROVE  /\ \A n \in Severities : Count(Findings, n) \in Nat
         /\ Count(Findings, 2) = 0 /\ Count(Findings, 1) = 0 <=> ~ Standing
<1> DEFINE at(n) == {i \in Findings : i.sev = n}
<1>1. IsFiniteSet(Findings)
  BY FindingsStand, IssuesFinite, FS_Subset
<1>2. ASSUME NEW n \in Severities
      PROVE  Cardinality(at(n)) \in Nat /\ (Cardinality(at(n)) = 0 <=> at(n) = {})
  <2>1. IsFiniteSet(at(n))
    BY <1>1, FS_Subset
  <2> QED BY <2>1, FS_CardinalityType, FS_EmptySet
<1>3. (\E i \in Findings : i.sev >= 1) <=> at(2) # {} \/ at(1) # {}
  BY FindingsStand DEF Issues, Severities
<1>4. /\ Count(Findings, 2) = 0 <=> at(2) = {}
      /\ Count(Findings, 1) = 0 <=> at(1) = {}
  BY <1>2 DEF Count, Severities
<1> QED BY <1>2, <1>3, <1>4, FindingsStand DEF Count

LEMMA UnreadCounted ==
  /\ Cardinality(UnreviewedLenses) \in Nat
  /\ Cardinality(UnreviewedLenses) = 0 => \A l \in Lenses : \E r \in reviews : r.lens = l
<1>1. IsFiniteSet(UnreviewedLenses)
  BY LoopAssumption, FS_Subset DEF UnreviewedLenses
<1>2. UnreviewedLenses = {} => \A l \in Lenses : \E r \in reviews : r.lens = l
  BY DEF UnreviewedLenses
<1> QED BY <1>1, <1>2, FS_CardinalityType, FS_EmptySet

-----------------------------------------------------------------------------
(* Every variable keeps its type. *)

LEMMA CriticsKnown ==
  ASSUME TypeOK, NEW l \in Lenses
  PROVE  /\ Slate(l) \subseteq EligibleCritics(l, author, Gone) /\ IsFiniteSet(Slate(l))
         /\ \A i \in Slate(l) : /\ Critics[l][i] \in CriticAliases
                                /\ Reader(l, i) \in Identities /\ Reader(l, i) # author
<1>1. tries[l] \in Nat
  BY DEF TypeOK
<1>2. /\ EligibleCritics(l, author, Gone) \subseteq DOMAIN Critics[l]
      /\ IsFiniteSet(EligibleCritics(l, author, Gone))
      /\ Slate(l) \subseteq EligibleCritics(l, author, Gone)
  <2>1. Slate(l) = CriticSlate(l, author, Gone, used[l], Wanted(l), tries[l])
    BY DEF Slate
  <2> QED BY <1>1, <2>1, SlateChosen
<1>3. IsFiniteSet(Slate(l))
  BY <1>2, FS_Subset
<1>4. ASSUME NEW i \in Slate(l)
      PROVE  /\ Critics[l][i] \in CriticAliases
             /\ Reader(l, i) \in Identities /\ Reader(l, i) # author
  <2>1. i \in DOMAIN Critics[l] /\ Reader(l, i) # author
    BY <1>2 DEF EligibleCritics
  <2>2. Critics[l][i] \in CriticAliases
    BY <2>1 DEF CriticAliases
  <2> QED BY <2>1, <2>2 DEF Reader, Identities, Aliases
<1> QED BY <1>2, <1>3, <1>4

LEMMA SlotsKnown ==
  ASSUME TypeOK, NEW s \in Slots
  PROVE  /\ s.lens \in Lenses /\ s.lens \in pending /\ s.alias \in CriticAliases
         /\ IdentityOf[s.alias] \in Identities /\ IdentityOf[s.alias] # author
<1> PICK l \in pending : s \in {[lens |-> l, alias |-> Critics[l][i]] : i \in Slate(l)}
  BY DEF Slots
<1>1. l \in Lenses
  BY DEF TypeOK
<1> PICK i \in Slate(l) : s = [lens |-> l, alias |-> Critics[l][i]]
  OBVIOUS
<1> QED BY <1>1, CriticsKnown DEF Reader

LEMMA TypeIssues == ASSUME TypeOK PROVE IssuesKnown
  BY DEF TypeOK, Reviews, IssuesKnown

LEMMA NextWriterKnown ==
  ASSUME TypeOK, Staffed(unreachable, {}), NEW turn \in Nat
  PROVE  \E w \in WriterPool(unreachable) : NextWriter(unreachable, turn) = Writers[w]
<1> DEFINE pool == WriterPool(unreachable)
<1>1. DOMAIN Writers = 1..Len(Writers) /\ Len(Writers) \in Nat
  BY RosterAssumption
<1>2. pool \in SUBSET (1..Len(Writers)) /\ pool # {}
  BY <1>1 DEF WriterPool, Staffed
<1>3. IsFiniteSet(pool)
  <2>1. IsFiniteSet(1..Len(Writers))
    BY <1>1, FS_Interval
  <2> QED BY <1>2, <2>1, FS_Subset
<1>4. pool \in SUBSET Nat
  BY <1>1, <1>2
<1> HIDE DEF pool
<1>5. Nth(pool, turn % Cardinality(pool)) \in pool
  BY <1>2, <1>3, <1>4, TurnMember
<1> QED BY <1>5 DEF NextWriter, pool

LEMMA InitType == Init => TypeOK
<1> SUFFICES ASSUME Init PROVE TypeOK OBVIOUS
<1> USE BudgetsAssumption, LoopAssumption DEF Init
<1>1. view \in Views
  BY DEF NoView, Views
<1>2. decision \in Decisions
  BY DEF NoDecision, Decisions
<1>3. final.status \in Terminals \cup {"none"} /\ final.defects \subseteq Issues
  BY DEF NoFinal
<1>4. DOMAIN board \subseteq Nat /\ \A d \in DOMAIN board : board[d] \in Rows
  OBVIOUS
<1>5. strikes \in [CriticAliases -> 0..StrikeLimit]
  OBVIOUS
<1>6. /\ history \in Seq(Nat) /\ reviews \subseteq Reviews /\ clean \subseteq Records
      /\ used \in [Lenses -> SUBSET Identities] /\ tries \in [Lenses -> Nat]
      /\ ruled \in [Keys -> {"none", "upheld", "overruled", "dismissed"}]
  OBVIOUS
<1>7. /\ critiqueLeft \in 0..CritiqueAttempts /\ confirmLeft \in 0..ConfirmAttempts
      /\ rewritesUsed \in 0..RewriteCap /\ disputeLeft \in 0..DisputeBudget
      /\ restarts \in 0..MaxRestarts /\ unreachable \in Outages
  OBVIOUS
<1> QED BY <1>1, <1>2, <1>3, <1>4, <1>5, <1>6, <1>7 DEF TypeOK, Nobody

LEMMA IntakeType == ASSUME TypeOK, Intake PROVE TypeOK'
<1>1. /\ node' \in {"generate", "critique"} /\ report' \in Nat /\ steps' \in Nat
      /\ author' \in Identities \cup {External, Nobody} /\ rotation' \in Nat
      /\ history' \in Seq(Nat) /\ round' \in Nat
  <2>1. CASE Go("generate") /\ UNCHANGED draftVars
    BY <2>1 DEF TypeOK, Go, draftVars
  <2>2. CASE /\ report' = 1 /\ author' = External /\ history' = <<1>> /\ round' = 1
             /\ Go("critique") /\ UNCHANGED rotation
    <3>1. <<1>> \in Seq(Nat)
      OBVIOUS
    <3> QED BY <2>2, <3>1 DEF TypeOK, Go
  <2> QED BY <2>1, <2>2 DEF Intake
<1>2. UNCHANGED <<reviewVars, healthVars, triageVars, budgetVars, disputeVars,
                  polishNext, fatal, decision, final, trail, processVars>>
  BY DEF Intake
<1> QED BY <1>1, <1>2
        DEF TypeOK, reviewVars, healthVars, triageVars, budgetVars, disputeVars, processVars

LEMMA GenerateType == ASSUME TypeOK, Staffed(unreachable, {}), Generate PROVE TypeOK'
<1> PICK pos \in 0..(WriterAttempts - 1),
         draft \in DraftsSoFar \cup {Cardinality(DraftsSoFar) + 1} :
      /\ author' = IdentityOf[NextWriter(unreachable, rotation + pos)]
      /\ rotation' = rotation + pos + 1
      /\ report' = draft
      /\ history' = Append(history, draft)
  BY DEF Generate
<1>1. draft \in Nat
  <2>1. DOMAIN history = 1..Len(history) /\ Len(history) \in Nat
        /\ \A i \in DOMAIN history : history[i] \in Nat
    BY DEF TypeOK
  <2>2. IsFiniteSet(DOMAIN history)
    BY <2>1, FS_Interval
  <2>3. [i \in DOMAIN history |-> history[i]] \in Surjection(DOMAIN history, DraftsSoFar)
    BY DEF Surjection, DraftsSoFar
  <2>4. Cardinality(DraftsSoFar) \in Nat
    BY <2>2, <2>3, FS_Surjection, FS_CardinalityType
  <2> QED BY <2>1, <2>4 DEF DraftsSoFar
<1>2. rotation + pos \in Nat /\ rotation' \in Nat
  <2>1. rotation \in Nat
    BY DEF TypeOK
  <2>2. pos \in Nat
    BY LoopAssumption
  <2> QED BY <2>1, <2>2
<1>3. author' \in Identities
  BY <1>2, NextWriterKnown DEF Identities, Aliases, WriterAliases, WriterPool
<1>5. history' \in Seq(Nat) /\ round' \in Nat /\ steps' \in Nat
  <2>1. history \in Seq(Nat) /\ round \in Nat /\ steps \in Nat
    BY DEF TypeOK
  <2>2. round' = round + 1 /\ steps' = steps + 1
    BY DEF Generate, Go
  <2> QED BY <1>1, <2>1, <2>2
<1>4. /\ node' = "adjudicate" /\ pending' = Lenses /\ polishNext' = FALSE
      /\ reviews' = {} /\ clean' = {} /\ defects' = {}
      /\ used' = [l \in Lenses |-> {}] /\ tries' = [l \in Lenses |-> 0]
      /\ UNCHANGED <<healthVars, view, board, stagnation, prevSignature, budgetVars,
                     ruled, disputeLeft, fatal, decision, final, trail, processVars>>
  BY DEF Generate, ResetDraft, Go
<1> QED BY <1>1, <1>2, <1>3, <1>4, <1>5 DEF TypeOK, healthVars, budgetVars, processVars

LEMMA GenerateFailsType == ASSUME TypeOK, GenerateFails PROVE TypeOK'
  BY DEF TypeOK, GenerateFails, Go, draftVars, reviewVars, healthVars, triageVars,
         budgetVars, disputeVars, processVars

LEMMA AdjudicateType ==
  ASSUME TypeOK, IsFiniteSet(disputes), Adjudicate PROVE TypeOK'
<1> DEFINE new == NewDisputes
           keysOf(D) == {d.key : d \in D}
<1> PICK heard \in {H \in SUBSET new : Cardinality(H) = Paid(new)} :
      \E verdict \in [keysOf(heard) -> {"upheld", "overruled", "dismissed"}] :
        /\ disputeLeft' = disputeLeft - Paid(new)
        /\ ruled' = [k \in Keys |-> CASE k \in keysOf(heard) -> verdict[k]
                                     [] k \in keysOf(new) \ keysOf(heard) -> "dismissed"
                                     [] OTHER -> ruled[k]]
  BY DEF Adjudicate
<1> PICK verdict \in [keysOf(heard) -> {"upheld", "overruled", "dismissed"}] :
        /\ disputeLeft' = disputeLeft - Paid(new)
        /\ ruled' = [k \in Keys |-> CASE k \in keysOf(heard) -> verdict[k]
                                     [] k \in keysOf(new) \ keysOf(heard) -> "dismissed"
                                     [] OTHER -> ruled[k]]
  OBVIOUS
<1>1. ruled' \in [Keys -> {"none", "upheld", "overruled", "dismissed"}]
  BY DEF TypeOK
<1>2. /\ node' = "critique" /\ steps' \in Nat
      /\ UNCHANGED <<draftVars, reviewVars, healthVars, triageVars, budgetVars,
                     polishNext, fatal, decision, final, trail, processVars>>
  BY DEF Adjudicate, Go, TypeOK
<1>3. disputeLeft' \in 0..DisputeBudget
  <2>1. Cardinality(new) \in Nat
    BY FS_Subset, FS_CardinalityType DEF NewDisputes
  <2>2. disputeLeft \in 0..DisputeBudget /\ DisputeBudget \in Nat
    BY LoopAssumption DEF TypeOK
  <2>3. disputeLeft' = disputeLeft - Paid(new)
    OBVIOUS
  <2> HIDE DEF new
  <2>4. Paid(new) \in 0..disputeLeft
    BY <2>1, <2>2 DEF Paid
  <2> QED BY <2>2, <2>3, <2>4
<1> QED BY <1>1, <1>2, <1>3
        DEF TypeOK, draftVars, reviewVars, healthVars, triageVars, budgetVars, processVars

LEMMA CritiqueType ==
  ASSUME TypeOK, author \in Identities \cup {External}, Critique PROVE TypeOK'
<1> PICK outcome \in [Slots -> UNION {Outcomes(l) : l \in Lenses}] :
      /\ \A s \in Slots : outcome[s] \in Outcomes(s.lens)
      /\ reviews' = reviews \cup
           {[artifact |-> report, author |-> author, lens |-> s.lens,
             critic |-> IdentityOf[s.alias], issues |-> outcome[s].issues] :
               s \in {t \in Slots : outcome[t].class = "ok"}}
      /\ strikes' = NewStrikes(outcome)
      /\ \E S \in Sideline(outcome) : sidelined' = sidelined \cup S
  BY DEF Critique
<1>1. reviews' \subseteq Reviews
  <2> SUFFICES ASSUME NEW s \in Slots
               PROVE  [artifact |-> report, author |-> author, lens |-> s.lens,
                       critic |-> IdentityOf[s.alias], issues |-> outcome[s].issues]
                      \in Reviews
    BY DEF TypeOK
  <2>1. s.lens \in Lenses /\ IdentityOf[s.alias] \in Identities
    BY SlotsKnown
  <2>2. outcome[s].issues \in SUBSET Issues
    BY <2>1, LoopAssumption DEF Outcomes
  <2> QED BY <2>1, <2>2 DEF Reviews, TypeOK
<1>2. strikes' \in [CriticAliases -> 0..StrikeLimit]
  <2>1. \A a \in CriticAliases : strikes[a] \in 0..StrikeLimit
    BY DEF TypeOK
  <2>2. StrikeLimit \in Nat
    BY LoopAssumption
  <2>3. strikes' = NewStrikes(outcome)
    OBVIOUS
  <2>4. ASSUME NEW a \in CriticAliases PROVE strikes'[a] \in 0..StrikeLimit
    <3> DEFINE answered == a \in AliasesWith(outcome, "ok")
               failed == a \in Struck(outcome)
    <3>1. strikes'[a] = CASE answered -> 0
                          [] failed /\ strikes[a] < StrikeLimit -> strikes[a] + 1
                          [] OTHER -> strikes[a]
      BY <2>3 DEF NewStrikes
    <3>2. ~ (answered /\ failed)
      BY DEF Struck
    <3> HIDE DEF answered, failed
    <3> QED BY <2>1, <2>2, <3>1, <3>2
  <2>5. strikes' = [a \in CriticAliases |-> strikes'[a]]
    BY <2>3 DEF NewStrikes
  <2> QED BY <2>4, <2>5
<1>3. sidelined' \subseteq CriticAliases
  <2> PICK S \in Sideline(outcome) : sidelined' = sidelined \cup S
    OBVIOUS
  <2>1. S \subseteq Struck(outcome)
    BY DEF Sideline
  <2>2. Struck(outcome) \subseteq CriticAliases
    BY SlotsKnown DEF Struck, AliasesWith
  <2> QED BY <2>1, <2>2 DEF TypeOK
<1>4. used' \in [Lenses -> SUBSET Identities]
  <2>1. used' = [l \in Lenses |->
          used[l] \cup {IdentityOf[s.alias] : s \in {t \in Slots : t.lens = l}}]
    BY DEF Critique
  <2>2. ASSUME NEW l \in Lenses
        PROVE  used[l] \cup {IdentityOf[s.alias] : s \in {t \in Slots : t.lens = l}}
                 \in SUBSET Identities
    <3>1. \A s \in Slots : IdentityOf[s.alias] \in Identities
      BY SlotsKnown
    <3> QED BY <3>1 DEF TypeOK
  <2> QED BY <2>1, <2>2
<1>5. tries' \in [Lenses -> Nat]
  <2>1. tries' = [l \in Lenses |->
                   IF l \in pending THEN tries[l] + Larger(1, Cardinality(Slate(l)))
                   ELSE tries[l]]
    BY DEF Critique
  <2>2. ASSUME NEW l \in Lenses PROVE Larger(1, Cardinality(Slate(l))) \in Nat
    <3>1. Cardinality(Slate(l)) \in Nat
      BY CriticsKnown, FS_CardinalityType
    <3> QED BY <3>1 DEF Larger
  <2> QED BY <2>1, <2>2 DEF TypeOK
<1>6. /\ node' = "triage" /\ steps' \in Nat
      /\ UNCHANGED <<draftVars, pending, triageVars, budgetVars, disputeVars,
                     polishNext, fatal, decision, final, processVars>>
  BY DEF Critique, Go, TypeOK
<1> QED BY <1>1, <1>2, <1>3, <1>4, <1>5, <1>6
        DEF TypeOK, draftVars, triageVars, budgetVars, disputeVars, processVars

LEMMA RowType == ASSUME TypeOK PROVE Row \in Rows /\ Findings \subseteq Issues
<1>1. Findings \subseteq Issues
  BY TypeIssues, FindingsStand
<1>2. /\ Count(Findings, 2) \in Nat /\ Count(Findings, 1) \in Nat
      /\ Count(Findings, 0) \in Nat
  BY TypeIssues, CountFindings DEF Severities
<1> QED BY <1>1, <1>2 DEF Row, Rows, TypeOK

LEMMA TriageType == ASSUME TypeOK, Triage PROVE TypeOK'
<1>1. clean' \subseteq Records
  BY DEF Triage, CleanRecords, TypeOK, Records, Reviews
<1>2. defects' \subseteq Issues
  BY RowType DEF Triage
<1>3. stagnation' \in Nat
  BY DEF Triage, TypeOK
<1>4. view' \in Views
  <2>1. Row.blocking \in Nat /\ Row.major \in Nat /\ Row.minor \in Nat
    BY RowType DEF Rows
  <2>2. DetectCycle(history) \in BOOLEAN
    BY DEF DetectCycle
  <2> QED BY <1>3, <2>1, <2>2, UnreadCounted DEF Triage, Views, TypeOK
<1>5. DOMAIN board' \subseteq Nat /\ \A d \in DOMAIN board' : board'[d] \in Rows
  BY RowType DEF Triage, LatestRows, TypeOK
<1>6. /\ node' = "orchestrate" /\ steps' \in Nat
      /\ UNCHANGED <<draftVars, reviewVars, healthVars, budgetVars, disputeVars,
                     polishNext, fatal, decision, final, trail, processVars>>
  BY DEF Triage, Go, TypeOK
<1> QED BY <1>1, <1>2, <1>3, <1>4, <1>5, <1>6
        DEF TypeOK, draftVars, reviewVars, healthVars, budgetVars, disputeVars, processVars

LEMMA OrchestrateType == ASSUME TypeOK, Orchestrate PROVE TypeOK'
  BY DEF TypeOK, Orchestrate, Go, draftVars, reviewVars, healthVars, triageVars,
         budgetVars, disputeVars, processVars

(* The controller decides on what the graph shows it.                      *)
LEMMA ControlDecides ==
  ASSUME TypeOK, Control
  PROVE  /\ decision' = Decide(ControllerInput, UnreviewedLenses)
         /\ decision' \in Decisions /\ decision'.action # "none"
         /\ decision'.rewrite => rewritesUsed < RewriteCap
         /\ Recritique(decision') \/ NextDraft(decision') \/ Stop(decision')
<1> DEFINE ci == ControllerInput
           r == Rule(ci)
<1>1. decision' = Decide(ci, UnreviewedLenses)
  BY DEF Control
<1>2. r \in 1..14
  BY FirstRule
<1>3. DOMAIN ci.status = Lenses /\ ci.rewritesUsed = rewritesUsed
  BY DEF ControllerInput, LensStatuses
<1> HIDE DEF ci, r
<1>4. Action(r, ci) \in {"generate", "recritique", "terminal"}
      /\ TerminalStatus(r, ci) \in Terminals
      /\ Rewrites(r, ci) \in BOOLEAN
  BY DEF Action, TerminalStatus, Terminals, Rewrites
<1>5. RecritiqueLenses(r, ci, UnreviewedLenses) \subseteq Lenses
  BY <1>3 DEF RecritiqueLenses, UnreviewedLenses
<1>6. decision' \in Decisions /\ decision'.action # "none"
  BY <1>1, <1>2, <1>4, <1>5 DEF Decide, Decisions, r
<1>7. decision'.rewrite => rewritesUsed < RewriteCap
  BY <1>1, <1>3 DEF Decide, Rewrites, r
<1> QED BY <1>1, <1>6, <1>7 DEF Control, ci

(* What the controller is shown, in its own terms.                         *)
LEMMA InputType ==
  ASSUME TypeOK
  PROVE  LET ci == ControllerInput IN
         /\ ci.fatal = fatal /\ ci.round = view.round /\ ci.failed = view.failed
         /\ ci.blocking = view.blocking /\ ci.major = view.major
         /\ ci.stagnation = view.stagnation
         /\ ci.critiqueLeft = critiqueLeft /\ ci.confirmLeft = confirmLeft
         /\ ci.status = LensStatuses(author, Gone, report, clean, used)
         /\ ci.fatal \in BOOLEAN /\ ci.round \in Nat /\ ci.failed \in Nat
         /\ ci.blocking \in Nat /\ ci.major \in Nat
  BY DEF ControllerInput, TypeOK, Views

LEMMA ControlType == ASSUME TypeOK, Control PROVE TypeOK'
<1>1. /\ decision' \in Decisions
      /\ decision'.rewrite => rewritesUsed < RewriteCap
      /\ Recritique(decision') \/ NextDraft(decision') \/ Stop(decision')
  BY ControlDecides
<1>2. UNCHANGED <<draftVars, reviews, used, tries, healthVars, clean, defects, view,
                  board, prevSignature, disputeVars, fatal, final, trail, processVars>>
  BY DEF Control
<1>3. decision'.polish \in BOOLEAN /\ decision'.rewrite \in BOOLEAN
      /\ decision'.lenses \in SUBSET Lenses
  BY <1>1 DEF Decisions
<1>4. /\ node' \in {"critique", "generate", "finalize"} /\ steps' \in Nat
      /\ pending' \subseteq Lenses
      /\ critiqueLeft' \in 0..CritiqueAttempts /\ confirmLeft' \in 0..ConfirmAttempts
      /\ polishNext' \in BOOLEAN /\ polishUsed' \in Nat
      /\ rewritesUsed' \in 0..RewriteCap /\ stagnation' \in Nat
  <2>1. /\ critiqueLeft \in 0..CritiqueAttempts /\ confirmLeft \in 0..ConfirmAttempts
        /\ CritiqueAttempts \in Nat /\ ConfirmAttempts \in Nat /\ RewriteCap \in Nat
        /\ steps \in Nat /\ pending \subseteq Lenses /\ polishNext \in BOOLEAN
        /\ polishUsed \in Nat /\ rewritesUsed \in 0..RewriteCap /\ stagnation \in Nat
    BY LoopAssumption, BudgetsAssumption DEF TypeOK
  <2>2. CASE Recritique(decision')
    <3>1. /\ decision'.rule = 2 => critiqueLeft > 0
          /\ decision'.rule # 2 => confirmLeft > 0
      BY <2>2, ControlDecides, InputType, Decided DEF Recritique
    <3> QED BY <1>3, <2>1, <2>2, <3>1 DEF Recritique, RetriesLeft, Go
  <2>3. CASE NextDraft(decision')
    BY <1>1, <1>3, <2>1, <2>3 DEF NextDraft, StagnationAfter, Go
  <2>4. CASE Stop(decision')
    BY <2>1, <2>4 DEF Stop, Go
  <2> QED BY <1>1, <2>2, <2>3, <2>4
<1> QED BY <1>1, <1>2, <1>4
        DEF TypeOK, draftVars, healthVars, disputeVars, processVars

LEMMA FinalizeType ==
  ASSUME TypeOK, board # << >> => SelectShipped(board) \in DOMAIN board, Finalize
  PROVE  TypeOK'
<1>1. final'.status \in Terminals \cup {"none"} /\ final'.defects \subseteq Issues
  <2>1. decision.status \in Terminals \cup {"none"} /\ defects \subseteq Issues
        /\ \A d \in DOMAIN board : board[d].defects \subseteq Issues
    BY DEF TypeOK, Decisions, Rows
  <2>2. \/ final' = [status |-> decision.status, draft |-> report, round |-> round,
                      defects |-> defects]
        \/ /\ board # << >>
           /\ final' = [status |-> decision.status, draft |-> SelectShipped(board),
                        round |-> board[SelectShipped(board)].round,
                        defects |-> board[SelectShipped(board)].defects]
    BY DEF Finalize
  <2> QED BY <2>1, <2>2
<1>2. /\ node' = "done" /\ steps' \in Nat
      /\ UNCHANGED <<draftVars, reviewVars, healthVars, triageVars, budgetVars,
                     disputeVars, polishNext, fatal, decision, trail, processVars>>
  BY DEF Finalize, Go, TypeOK
<1> QED BY <1>1, <1>2
        DEF TypeOK, draftVars, reviewVars, healthVars, triageVars, budgetVars, disputeVars,
            processVars

LEMMA RestartType == ASSUME TypeOK, Restart PROVE TypeOK' /\ Staffed(unreachable', {})
<1>1. restarts' \in 0..MaxRestarts /\ unreachable' \in Outages
      /\ Staffed(unreachable', {})
  BY LoopAssumption DEF TypeOK, Restart
<1>2. UNCHANGED <<node, draftVars, reviewVars, healthVars, triageVars, budgetVars,
                  disputeVars, polishNext, fatal, decision, final, trail, steps>>
  BY DEF Restart
<1> QED BY <1>1, <1>2
        DEF TypeOK, draftVars, reviewVars, healthVars, triageVars, budgetVars, disputeVars

-----------------------------------------------------------------------------
(* The invariant, part by part. *)

(* The process can staff a run, and a revision disputes finitely much.     *)
Staffing == Staffed(unreachable, {}) /\ IsFiniteSet(disputes)

Drafting ==
  /\ round = Len(history) /\ round <= HardCap
  /\ node = "intake" => round = 0
  /\ node = "generate" => round < HardCap
  /\ node \in {"adjudicate", "critique", "triage", "orchestrate"} => round > 0
  /\ node = "control" /\ ~ fatal => round > 0
  /\ round > 0 => author \in Identities \cup {External}

(* A verdict is given by the last decision only, and a run without a       *)
(* writer has no other.                                                    *)
Verdicted ==
  /\ fatal => node \in {"control", "finalize", "done"}
  /\ decision.status # "none" <=> node \in {"finalize", "done"}
  /\ fatal /\ node \in {"finalize", "done"} => decision.status = "aborted"

(* A draft nobody has read has no record and no finding.                   *)
Fresh == node \in {"intake", "adjudicate"} => clean = {} /\ reviews = {} /\ defects = {}

(* A clean record has a review to show for it; a material task, a finding  *)
(* that stands.                                                            *)
Backs(r, c) ==
  /\ r.artifact = c.artifact /\ r.lens = c.lens /\ r.critic = c.critic
  /\ r.author = c.author
  /\ \A i \in r.issues : ~ Stands(i)

Witnessing ==
  /\ \A c \in clean : \E r \in reviews : Backs(r, c)
  /\ (\E i \in defects : i.sev >= 1) => Standing

(* What the controller is about to read is true of the reviews.            *)
Seen ==
  node \in {"orchestrate", "control"} /\ ~ fatal =>
    /\ defects = Findings
    /\ view.blocking = Count(Findings, 2) /\ view.major = Count(Findings, 1)
    /\ view.failed = Cardinality(UnreviewedLenses) /\ view.round = round

(* What a verdict rests on.                                                *)
Judged ==
  node \in {"finalize", "done"} =>
    /\ decision.status # "aborted" => \A l \in Lenses : \E r \in reviews : r.lens = l
    /\ decision.status = "accepted" =>
         /\ round >= MinTicks /\ ~ Standing
         /\ \A l \in Lenses : \E r, s \in reviews :
              /\ CleanReview(r) /\ CleanReview(s) /\ r.lens = l /\ s.lens = l
              /\ FamilyOf[r.critic] # FamilyOf[s.critic]

Shipped ==
  node = "done" =>
    /\ final.status = decision.status
    /\ final.status = "accepted" => final.draft = report

(* The scoreboard is a table, with rows of drafts under the cap.           *)
Ranked == /\ board = [d \in DOMAIN board |-> board[d]]
          /\ \A d \in DOMAIN board : board[d].round <= HardCap

(* The process of a run that was never resumed has its author at hand.     *)
Manned ==
  restarts = 0 /\ round > 0 =>
    author = External \/ \E w \in WriterPool(unreachable) : author = IdentityOf[Writers[w]]

Inv == /\ TypeOK /\ Staffing /\ Drafting /\ Verdicted /\ Fresh /\ Witnessing
       /\ Seen /\ Judged /\ Shipped /\ Ranked /\ Manned

(* A step that leaves everything but the process alone.                    *)
Idle == UNCHANGED <<node, draftVars, reviewVars, healthVars, triageVars, budgetVars,
                    disputeVars, polishNext, fatal, decision, final, trail, steps>>

LEMMA Idling == Restart \/ UNCHANGED vars => Idle
  BY DEF Restart, Idle, vars

LEMMA SameFindings ==
  ASSUME UNCHANGED <<reviews, ruled>>
  PROVE  /\ Findings' = Findings /\ Standing' = Standing
         /\ UnreviewedLenses' = UnreviewedLenses
         /\ \A n : Count(Findings, n)' = Count(Findings, n)
         /\ \A i : Stands(i)' = Stands(i)
<1>1. Upheld' = Upheld
  BY DEF Upheld
<1>2. \A S : Clamped(S)' = Clamped(S)
  BY <1>1 DEF Clamped
<1>3. Findings' = Findings
  BY <1>2 DEF Findings
<1>4. \A i : Stands(i)' = Stands(i)
  BY DEF Stands
<1> QED BY <1>3, <1>4 DEF Standing, UnreviewedLenses, Count

-----------------------------------------------------------------------------
(* The scoreboard always has a best draft to ship. *)
LEMMA BestDraft ==
  ASSUME TypeOK, Ranked, board # << >>
  PROVE  SelectShipped(board) \in DOMAIN board
<1>1. DOMAIN board # {}
  <2>1. ASSUME DOMAIN board = {} PROVE board = << >>
    BY <2>1 DEF Ranked
  <2> QED BY <2>1
<1>2. ASSUME NEW d \in DOMAIN board
      PROVE  /\ board[d].round \in Nat /\ HardCap - board[d].round \in Nat
             /\ Score(board[d]) \in Nat
  <2>1. /\ board[d].round \in Nat /\ board[d].blocking \in Nat /\ board[d].major \in Nat
        /\ board[d].minor \in Nat
    BY DEF TypeOK, Rows
  <2>2. board[d].round <= HardCap /\ HardCap \in Nat
    BY BudgetsAssumption DEF Ranked
  <2>3. \A b, m, n \in Nat : 100 * b + 10 * m + n \in Nat
    OBVIOUS
  <2>4. Score(board[d]) \in Nat
    BY <2>1, <2>3 DEF Score
  <2> QED BY <2>1, <2>2, <2>4
<1> DEFINE scores == {Score(board[d]) : d \in DOMAIN board}
<1>3. scores \in SUBSET Nat /\ scores # {}
  BY <1>1, <1>2
<1>4. PICK m \in scores : \A x \in scores : m <= x
  BY <1>3, LeastMember
<1> DEFINE left == {HardCap - board[d].round : d \in {e \in DOMAIN board : Score(board[e]) = m}}
<1>5. left \in SUBSET Nat /\ left # {}
  BY <1>2, <1>4
<1>6. PICK n \in left : \A x \in left : n <= x
  BY <1>5, LeastMember
<1>7. PICK d \in DOMAIN board : Score(board[d]) = m /\ n = HardCap - board[d].round
  BY <1>6
<1>8. ASSUME NEW e \in DOMAIN board
      PROVE  \/ Score(board[d]) < Score(board[e])
             \/ Score(board[d]) = Score(board[e]) /\ board[d].round >= board[e].round
  <2>1. m <= Score(board[e]) /\ m \in Nat /\ Score(board[e]) \in Nat
    BY <1>2, <1>3, <1>4
  <2>2. Score(board[e]) = m => n <= HardCap - board[e].round
    BY <1>6
  <2>3. HardCap \in Nat /\ board[e].round \in Nat /\ board[d].round \in Nat
    BY <1>2, BudgetsAssumption
  <2> QED BY <1>7, <2>1, <2>2, <2>3
<1>9. \E b \in DOMAIN board : \A e \in DOMAIN board :
         \/ Score(board[b]) < Score(board[e])
         \/ Score(board[b]) = Score(board[e]) /\ board[b].round >= board[e].round
  BY <1>7, <1>8
<1> QED BY <1>9 DEF SelectShipped

-----------------------------------------------------------------------------
(* Each part is kept by every step. *)

LEMMA Types == ASSUME Inv, [Next]_vars PROVE TypeOK'
<1>1. ASSUME node \in {"critique"} PROVE author \in Identities \cup {External}
  BY <1>1 DEF Inv, Drafting, TypeOK
<1>2. board # << >> => SelectShipped(board) \in DOMAIN board
  BY BestDraft DEF Inv
<1>3. CASE Critique
  BY <1>1, <1>3, CritiqueType DEF Inv, Critique
<1>4. CASE Finalize
  BY <1>2, <1>4, FinalizeType DEF Inv
<1>5. CASE UNCHANGED vars
  BY <1>5 DEF Inv, TypeOK, vars, draftVars, reviewVars, healthVars, triageVars, budgetVars,
              disputeVars, processVars
<1> QED BY <1>3, <1>4, <1>5, IntakeType, GenerateType, GenerateFailsType, AdjudicateType,
           TriageType, OrchestrateType, ControlType, RestartType
        DEF Inv, Staffing, Next, Step

LEMMA StaffingKept == ASSUME Inv, [Next]_vars PROVE Staffing'
<1>1. CASE Generate
  <2>1. disputes' \in Elicited /\ unreachable' = unreachable
    BY <1>1 DEF Generate, processVars
  <2>2. ASSUME NEW D \in SUBSET defects
        PROVE  IsFiniteSet({Dispute(d) : d \in D})
    <3> DEFINE f == [d \in D |-> Dispute(d)]
    <3>1. IsFiniteSet(D)
      BY IssuesFinite, FS_Subset DEF Inv, TypeOK
    <3>2. f \in Surjection(D, {Dispute(d) : d \in D})
      BY DEF Surjection
    <3> HIDE DEF f
    <3> QED BY <3>1, <3>2, FS_Surjection
  <2>3. IsFiniteSet({})
    BY FS_EmptySet
  <2>4. IsFiniteSet(disputes')
    BY <2>1, <2>2, <2>3 DEF Elicited
  <2> QED BY <2>1, <2>4 DEF Inv, Staffing
<1>2. CASE Restart
  BY <1>2, RestartType DEF Inv, Staffing, Restart, disputeVars
<1>3. CASE Adjudicate
  BY <1>3, FS_EmptySet DEF Inv, Staffing, Adjudicate, processVars
<1>4. CASE ~ Generate /\ ~ Restart /\ ~ Adjudicate
  <2>1. UNCHANGED <<unreachable, disputes>>
    BY <1>4 DEF Next, Step, Intake, GenerateFails, Critique, Triage, Orchestrate, Control,
                Finalize, vars, disputeVars, processVars
  <2> QED BY <2>1 DEF Inv, Staffing
<1> QED BY <1>1, <1>2, <1>3, <1>4

LEMMA DraftingKept == ASSUME Inv, [Next]_vars PROVE Drafting'
<1>0. /\ round \in Nat /\ history \in Seq(Nat) /\ round = Len(history) /\ round <= HardCap
      /\ HardCap \in Nat /\ MinTicks \in Nat \ {0} /\ MinTicks < HardCap
  BY BudgetsAssumption DEF Inv, TypeOK, Drafting
<1>1. CASE Intake
  <2>1. CASE Go("generate") /\ UNCHANGED draftVars
    BY <1>0, <1>1, <2>1 DEF Inv, Drafting, Intake, Go, draftVars
  <2>2. CASE /\ author' = External /\ history' = <<1>> /\ round' = 1 /\ Go("critique")
    <3>1. Len(history') = 1
      BY <2>2
    <3> QED BY <1>0, <2>2, <3>1 DEF Drafting, Go
  <2> QED BY <1>1, <2>1, <2>2 DEF Intake
<1>2. CASE Generate
  <2>1. PICK pos \in 0..(WriterAttempts - 1),
             draft \in DraftsSoFar \cup {Cardinality(DraftsSoFar) + 1} :
          /\ author' = IdentityOf[NextWriter(unreachable, rotation + pos)]
          /\ history' = Append(history, draft)
    BY <1>2 DEF Generate
  <2>2. Len(history') = round + 1 /\ round' = round + 1 /\ node' = "adjudicate"
    BY <1>0, <1>2, <2>1 DEF Generate, Go
  <2>3. author' \in Identities
    <3>1. rotation + pos \in Nat
      BY LoopAssumption DEF Inv, TypeOK
    <3> QED BY <2>1, <3>1, NextWriterKnown
            DEF Inv, Staffing, Identities, Aliases, WriterAliases, WriterPool
  <2>4. round < HardCap
    BY <1>2 DEF Inv, Drafting, Generate
  <2> QED BY <1>0, <2>2, <2>3, <2>4 DEF Drafting
<1>3. CASE Control
  <2>1. UNCHANGED <<round, history, author, fatal>> /\ (round > 0 \/ fatal)
    BY <1>3 DEF Inv, Drafting, Control, draftVars
  <2>2. CASE node' = "generate"
    <3>1. decision'.action = "generate"
      BY <1>3, <2>2, ControlDecides DEF Inv, Recritique, NextDraft, Stop, Go
    <3>2. ~ fatal /\ view.round < HardCap
      BY <1>3, <3>1, ControlDecides, InputType, Decided DEF Inv
    <3>3. view.round = round
      BY <1>3, <3>2 DEF Inv, Seen, Control
    <3> QED BY <1>0, <2>1, <2>2, <3>2, <3>3 DEF Inv, Drafting
  <2>3. CASE node' = "critique"
    <3>1. decision'.action = "recritique"
      BY <1>3, <2>3, ControlDecides DEF Inv, Recritique, NextDraft, Stop, Go
    <3>2. ~ fatal
      BY <1>3, <3>1, ControlDecides, InputType, Decided DEF Inv
    <3> QED BY <1>0, <2>1, <2>3, <3>2 DEF Inv, Drafting
  <2>4. CASE node' = "finalize"
    BY <2>1, <2>4 DEF Inv, Drafting
  <2>5. node' \in {"generate", "critique", "finalize"}
    BY <1>3, ControlDecides DEF Inv, Recritique, NextDraft, Stop, Go
  <2> QED BY <2>2, <2>3, <2>4, <2>5
<1>4. CASE Idle
  BY <1>4 DEF Inv, Drafting, Idle, draftVars
<1>5. CASE GenerateFails \/ Adjudicate \/ Critique \/ Triage \/ Orchestrate \/ Finalize
  BY <1>5 DEF Inv, Drafting, GenerateFails, Adjudicate, Critique, Triage, Orchestrate,
              Finalize, Go, draftVars
<1> QED BY <1>1, <1>2, <1>3, <1>4, <1>5, Idling DEF Next, Step

LEMMA VerdictedKept == ASSUME Inv, [Next]_vars PROVE Verdicted'
<1>1. CASE Control
  <2>1. /\ fatal' = fatal
        /\ fatal => decision'.status = "aborted"
        /\ decision'.action = "terminal" <=> decision'.status # "none"
    BY <1>1, ControlDecides, InputType, Decided DEF Inv, Control
  <2>2. /\ node' \in {"generate", "critique", "finalize"}
        /\ node' = "finalize" <=> decision'.action = "terminal"
    BY <1>1, ControlDecides DEF Inv, Recritique, NextDraft, Stop, Go
  <2> QED BY <2>1, <2>2 DEF Verdicted
<1>2. CASE Idle
  BY <1>2 DEF Inv, Verdicted, Idle
<1>3. CASE Intake
  BY <1>3 DEF Inv, Verdicted, Intake, Go
<1>4. CASE Generate \/ GenerateFails \/ Adjudicate \/ Critique \/ Triage \/ Orchestrate
           \/ Finalize
  BY <1>4 DEF Inv, Verdicted, Generate, GenerateFails, Adjudicate, Critique, Triage,
              Orchestrate, Finalize, Go
<1> QED BY <1>1, <1>2, <1>3, <1>4, Idling DEF Next, Step

LEMMA FreshKept == ASSUME Inv, [Next]_vars PROVE Fresh'
<1>1. CASE Control
  BY <1>1, ControlDecides DEF Inv, Fresh, Recritique, NextDraft, Stop, Go
<1>2. CASE Idle
  BY <1>2 DEF Inv, Fresh, Idle, triageVars, reviewVars
<1>3. CASE Intake \/ Generate \/ GenerateFails \/ Adjudicate \/ Critique \/ Triage
           \/ Orchestrate \/ Finalize
  BY <1>3 DEF Inv, Fresh, Intake, Generate, GenerateFails, Adjudicate, Critique, Triage,
              Orchestrate, Finalize, Go, ResetDraft
<1> QED BY <1>1, <1>2, <1>3, Idling DEF Next, Step

LEMMA WitnessingKept == ASSUME Inv, [Next]_vars PROVE Witnessing'
<1>1. CASE Critique
  <2>1. reviews \subseteq reviews' /\ UNCHANGED <<clean, defects, ruled>>
    BY <1>1 DEF Critique, triageVars, disputeVars
  <2>2. \A i : Stands(i)' = Stands(i)
    BY <2>1 DEF Stands
  <2> QED BY <2>1, <2>2 DEF Inv, Witnessing, Backs, Standing
<1>2. CASE Triage
  <2>1. UNCHANGED <<reviews, ruled>> /\ defects' = Findings /\ clean' = clean \cup CleanRecords
    BY <1>2 DEF Triage, reviewVars, disputeVars
  <2>2. (\E i \in defects' : i.sev >= 1) => Standing'
    BY <2>1, SameFindings, FindingsStand, TypeIssues DEF Inv
  <2>3. ASSUME NEW c \in CleanRecords PROVE \E r \in reviews : Backs(r, c)
    <3> PICK r \in reviews :
          /\ \A i \in Clamped(r.issues) : ~ CountsForConvergence(i)
          /\ c = [artifact |-> r.artifact, lens |-> r.lens, critic |-> r.critic,
                  author |-> r.author]
      BY DEF CleanRecords
    <3>1. r.issues \subseteq Issues
      BY TypeIssues DEF Inv, IssuesKnown
    <3>2. ASSUME NEW i \in r.issues, Stands(i) PROVE FALSE
      <4> DEFINE x == [key |-> i.key, sev |-> Larger(i.sev, FloorOf[i.key])]
      <4>1. x \in Clamped(r.issues)
        BY <3>1, <3>2, ClampedIssues
      <4>2. CountsForConvergence(x)
        BY <3>2 DEF Stands, CountsForConvergence
      <4> QED BY <4>1, <4>2
    <3> QED BY <3>2 DEF Backs
  <2>4. \A r, c : Backs(r, c)' <=> Backs(r, c)
    BY <2>1, SameFindings DEF Backs
  <2> QED BY <2>1, <2>2, <2>3, <2>4 DEF Inv, Witnessing
<1>3. CASE Adjudicate
  <2>1. clean' = {} /\ defects' = {}
    BY <1>3 DEF Inv, Fresh, Adjudicate, triageVars
  <2> QED BY <2>1 DEF Witnessing
<1>4. CASE Generate
  BY <1>4 DEF Witnessing, Generate, ResetDraft
<1>5. CASE Idle \/ Intake \/ GenerateFails \/ Orchestrate \/ Control \/ Finalize
  <2>1. UNCHANGED <<reviews, ruled, clean, defects>>
    BY <1>5 DEF Idle, Intake, GenerateFails, Orchestrate, Control, Finalize, triageVars,
                reviewVars, disputeVars
  <2>2. Standing' = Standing /\ \A r, c : Backs(r, c)' <=> Backs(r, c)
    BY <2>1, SameFindings DEF Backs
  <2> QED BY <2>1, <2>2 DEF Inv, Witnessing
<1> QED BY <1>1, <1>2, <1>3, <1>4, <1>5, Idling DEF Next, Step

LEMMA SeenKept == ASSUME Inv, [Next]_vars PROVE Seen'
<1>1. CASE Triage
  <2>1. UNCHANGED <<reviews, ruled, round>> /\ defects' = Findings
        /\ view'.blocking = Row.blocking /\ view'.major = Row.major
        /\ view'.failed = Cardinality(UnreviewedLenses) /\ view'.round = round
    BY <1>1 DEF Triage, reviewVars, disputeVars, draftVars
  <2>2. Row.blocking = Count(Findings, 2) /\ Row.major = Count(Findings, 1)
    BY DEF Row
  <2>3. /\ Findings' = Findings /\ UnreviewedLenses' = UnreviewedLenses
        /\ Count(Findings, 2)' = Count(Findings, 2) /\ Count(Findings, 1)' = Count(Findings, 1)
    BY <2>1, SameFindings
  <2> QED BY <2>1, <2>2, <2>3 DEF Seen
<1>2. CASE Orchestrate \/ Idle
  <2>1. /\ UNCHANGED <<reviews, ruled, round, defects, view, fatal>>
        /\ node' \in {"orchestrate", "control"} /\ ~ fatal => node \in {"orchestrate", "control"}
    BY <1>2 DEF Orchestrate, Idle, reviewVars, disputeVars, draftVars, triageVars
  <2>2. /\ Findings' = Findings /\ UnreviewedLenses' = UnreviewedLenses
        /\ Count(Findings, 2)' = Count(Findings, 2) /\ Count(Findings, 1)' = Count(Findings, 1)
    BY <2>1, SameFindings
  <2> QED BY <2>1, <2>2 DEF Inv, Seen
<1>3. CASE GenerateFails
  BY <1>3 DEF Seen, GenerateFails
<1>4. CASE Control
  <2>1. node' \in {"generate", "critique", "finalize"}
    BY <1>4, ControlDecides DEF Inv, Recritique, NextDraft, Stop, Go
  <2> QED BY <2>1 DEF Seen
<1>5. CASE Intake \/ Generate \/ Adjudicate \/ Critique \/ Finalize
  BY <1>5 DEF Seen, Intake, Generate, Adjudicate, Critique, Finalize, Go
<1> QED BY <1>1, <1>2, <1>3, <1>4, <1>5, Idling DEF Next, Step

(* The records of the controller's tally are clean reviews of the draft.   *)
LEMMA RecordsHold ==
  ASSUME Inv, NEW c \in clean, NEW l, Vouches(c, l)
  PROVE  \E r \in reviews : CleanReview(r) /\ r.lens = l /\ r.critic = c.critic
<1> PICK r \in reviews : Backs(r, c)
  BY DEF Inv, Witnessing
<1> QED BY DEF Backs, Vouches, CleanReview

(* What the decision that ends a run rests on.                             *)
LEMMA ControlJudges ==
  ASSUME Inv, Control
  PROVE  /\ decision'.status \notin {"aborted", "none"} =>
              \A l \in Lenses : \E r \in reviews : r.lens = l
         /\ decision'.status \in {"accepted", "converged_unconfirmed"} =>
              round >= MinTicks /\ ~ Standing
         /\ decision'.status = "accepted" =>
              \A l \in Lenses : \E c, d \in clean :
                Vouches(c, l) /\ Vouches(d, l) /\ FamilyOf[c.critic] # FamilyOf[d.critic]
         /\ decision'.status = "converged_unconfirmed" =>
              \A l \in Lenses : \E c \in clean : Vouches(c, l)
         /\ decision'.status = "needs_human_review" => Standing
<1> DEFINE ci == ControllerInput
           d == decision'
<1>1. /\ d = Decide(ci, UnreviewedLenses) /\ ci.fatal \in BOOLEAN /\ ci.round \in Nat
      /\ ci.failed \in Nat /\ ci.blocking \in Nat /\ ci.major \in Nat
      /\ ci.fatal = fatal /\ ci.round = view.round /\ ci.failed = view.failed
      /\ ci.blocking = view.blocking /\ ci.major = view.major
      /\ ci.status = LensStatuses(author, Gone, report, clean, used)
  BY ControlDecides, InputType DEF Inv
<1> HIDE DEF ci, d
<1>2. /\ ci.fatal => d.status = "aborted"
      /\ d.status \notin {"aborted", "none"} => ci.failed = 0
      /\ d.status \in {"accepted", "converged_unconfirmed"} =>
           ci.round >= MinTicks /\ ci.blocking = 0 /\ ci.major = 0
      /\ d.status = "accepted" => StrongMet(ci.status)
      /\ d.status = "converged_unconfirmed" => WeakMet(ci.status)
      /\ d.status = "needs_human_review" => ci.blocking > 0 \/ ci.major > 0
  BY <1>1, Decided
<1>3. d.status # "aborted" =>
        /\ view.blocking = Count(Findings, 2) /\ view.major = Count(Findings, 1)
        /\ view.failed = Cardinality(UnreviewedLenses) /\ view.round = round
  BY <1>1, <1>2 DEF Inv, Seen, Control
<1>4. d.status \notin {"aborted", "none"} => \A l \in Lenses : \E r \in reviews : r.lens = l
  BY <1>1, <1>2, <1>3, UnreadCounted
<1>5. Count(Findings, 2) = 0 /\ Count(Findings, 1) = 0 <=> ~ Standing
  BY CountFindings, TypeIssues DEF Inv
<1>6. /\ d.status \in {"accepted", "converged_unconfirmed"} => round >= MinTicks /\ ~ Standing
      /\ d.status = "needs_human_review" => Standing
  BY <1>1, <1>2, <1>3, <1>5
<1>7. ASSUME d.status = "accepted", NEW l \in Lenses
      PROVE  \E c, e \in clean :
               Vouches(c, l) /\ Vouches(e, l) /\ FamilyOf[c.critic] # FamilyOf[e.critic]
  <2>1. LensStatuses(author, Gone, report, clean, used)[l].cleared >= 2
    BY <1>1, <1>2, <1>7 DEF StrongMet, LensStatuses
  <2> QED BY <2>1, ClearedTwice
<1>8. ASSUME d.status = "converged_unconfirmed", NEW l \in Lenses
      PROVE  \E c \in clean : Vouches(c, l)
  <2>1. LensStatuses(author, Gone, report, clean, used)[l].cleared >= 1
    BY <1>1, <1>2, <1>8 DEF WeakMet, LensStatuses
  <2> QED BY <2>1, ClearedOnce
<1> QED BY <1>4, <1>6, <1>7, <1>8 DEF d

LEMMA JudgedKept == ASSUME Inv, [Next]_vars PROVE Judged'
<1>1. CASE Control
  <2>1. UNCHANGED <<reviews, ruled, report, author, round>>
    BY <1>1 DEF Control, disputeVars, draftVars
  <2>2. Standing' = Standing /\ \A r : CleanReview(r)' <=> CleanReview(r)
    BY <2>1, SameFindings DEF CleanReview
  <2>3. node' \in {"finalize", "done"} => decision'.status # "none"
    BY <1>1, VerdictedKept DEF Verdicted
  <2>4. ASSUME decision'.status = "accepted", NEW l \in Lenses
        PROVE  \E r, s \in reviews :
                 /\ CleanReview(r) /\ CleanReview(s) /\ r.lens = l /\ s.lens = l
                 /\ FamilyOf[r.critic] # FamilyOf[s.critic]
    <3> PICK c, d \in clean :
          Vouches(c, l) /\ Vouches(d, l) /\ FamilyOf[c.critic] # FamilyOf[d.critic]
      BY <1>1, <2>4, ControlJudges
    <3> QED BY RecordsHold
  <2> QED BY <1>1, <2>1, <2>2, <2>3, <2>4, ControlJudges DEF Judged
<1>2. CASE Finalize \/ Idle
  <2>1. /\ UNCHANGED <<reviews, ruled, report, author, round, decision>>
        /\ node' \in {"finalize", "done"} => node \in {"finalize", "done"}
    BY <1>2 DEF Finalize, Idle, Go, disputeVars, draftVars, reviewVars
  <2>2. Standing' = Standing /\ \A r : CleanReview(r)' <=> CleanReview(r)
    BY <2>1, SameFindings DEF CleanReview
  <2> QED BY <2>1, <2>2 DEF Inv, Judged
<1>3. CASE Intake
  BY <1>3 DEF Judged, Intake, Go
<1>4. CASE Generate \/ GenerateFails \/ Adjudicate \/ Critique \/ Triage \/ Orchestrate
  BY <1>4 DEF Judged, Generate, GenerateFails, Adjudicate, Critique, Triage, Orchestrate, Go
<1> QED BY <1>1, <1>2, <1>3, <1>4, Idling DEF Next, Step

LEMMA ShippedKept == ASSUME Inv, [Next]_vars PROVE Shipped'
<1>1. CASE Finalize
  BY <1>1 DEF Shipped, Finalize, draftVars
<1>2. CASE Idle
  BY <1>2 DEF Inv, Shipped, Idle, draftVars
<1>3. CASE Control
  <2>1. node' \in {"generate", "critique", "finalize"}
    BY <1>3, ControlDecides DEF Inv, Recritique, NextDraft, Stop, Go
  <2> QED BY <2>1 DEF Shipped
<1>4. CASE Intake \/ Generate \/ GenerateFails \/ Adjudicate \/ Critique \/ Triage
           \/ Orchestrate
  BY <1>4 DEF Shipped, Intake, Generate, GenerateFails, Adjudicate, Critique, Triage,
              Orchestrate, Go
<1> QED BY <1>1, <1>2, <1>3, <1>4, Idling DEF Next, Step

LEMMA RankedKept == ASSUME Inv, [Next]_vars PROVE Ranked'
<1>1. CASE Triage
  <2>1. board' = [d \in DOMAIN board \cup {report} |-> IF d = report THEN Row ELSE board[d]]
    BY <1>1 DEF Triage, LatestRows
  <2>2. Row.round <= HardCap
    BY DEF Row, Inv, Drafting
  <2> QED BY <2>1, <2>2 DEF Inv, Ranked
<1>2. CASE ~ Triage
  <2>1. board' = board
    BY <1>2 DEF Next, Step, Intake, Generate, GenerateFails, Adjudicate, Critique, Orchestrate,
                Control, Finalize, Restart, triageVars, vars
  <2> QED BY <2>1 DEF Inv, Ranked
<1> QED BY <1>1, <1>2

LEMMA MannedKept == ASSUME Inv, [Next]_vars PROVE Manned'
<1>1. CASE Intake
  BY <1>1 DEF Inv, Manned, Intake, draftVars, processVars
<1>2. CASE Generate
  <2>1. PICK pos \in 0..(WriterAttempts - 1) :
          author' = IdentityOf[NextWriter(unreachable, rotation + pos)]
    BY <1>2 DEF Generate
  <2>2. rotation + pos \in Nat
    BY LoopAssumption DEF Inv, TypeOK
  <2>3. unreachable' = unreachable
    BY <1>2 DEF Generate, processVars
  <2>4. \E w \in WriterPool(unreachable) : author' = IdentityOf[Writers[w]]
    BY <2>1, <2>2, NextWriterKnown DEF Inv, Staffing
  <2> QED BY <2>3, <2>4 DEF Manned
<1>3. CASE Restart
  BY <1>3 DEF Restart, Manned, Inv, TypeOK
<1>4. CASE ~ Intake /\ ~ Generate /\ ~ Restart
  <2>1. UNCHANGED <<round, author, unreachable, restarts>>
    BY <1>4 DEF Next, Step, GenerateFails, Adjudicate, Critique, Triage, Orchestrate, Control,
                Finalize, vars, draftVars, processVars
  <2> QED BY <2>1 DEF Inv, Manned
<1> QED BY <1>1, <1>2, <1>3, <1>4

-----------------------------------------------------------------------------
LEMMA InitEstablishes == Init => Inv
<1> SUFFICES ASSUME Init PROVE Inv OBVIOUS
<1>1. TypeOK
  BY InitType
<1>2. Staffing
  BY FS_EmptySet DEF Init, Staffing
<1>3. Drafting /\ Verdicted /\ Fresh
  BY BudgetsAssumption DEF Init, Drafting, Verdicted, Fresh, NoDecision
<1>4. Witnessing /\ Seen /\ Judged /\ Shipped /\ Ranked /\ Manned
  BY DEF Init, Witnessing, Seen, Judged, Shipped, Ranked, Manned
<1> QED BY <1>1, <1>2, <1>3, <1>4 DEF Inv

LEMMA StepKeeps == Inv /\ [Next]_vars => Inv'
  BY Types, StaffingKept, DraftingKept, VerdictedKept, FreshKept, WitnessingKept, SeenKept,
     JudgedKept, ShippedKept, RankedKept, MannedKept DEF Inv

LEMMA Invariance == Spec => []Inv
  BY InitEstablishes, StepKeeps, PTL DEF Spec

-----------------------------------------------------------------------------
(* Every variable keeps its type (TypeOK).                                 *)
THEOREM TypeCorrect == Spec => []TypeOK
<1>1. Inv => TypeOK
  BY DEF Inv
<1> QED BY <1>1, Invariance, PTL

(* The word ACCEPTED is earned (AcceptedIsDoubleChecked): every lens found *)
(* the shipped draft clean in the eyes of two non-authors of different     *)
(* families, and no completed review of it holds a finding that stands.    *)
THEOREM AcceptanceIsEarned == Spec => []AcceptedIsDoubleChecked
<1>1. Inv => AcceptedIsDoubleChecked
  BY DEF Inv, Judged, Shipped, Standing, Concluded, AcceptedIsDoubleChecked
<1> QED BY <1>1, Invariance, PTL

(* Any verdict but an abort rests on a completed review of every lens of   *)
(* the last draft (ConclusionNeedsEveryLens).                              *)
THEOREM VerdictsAreFailClosed == Spec => []ConclusionNeedsEveryLens
<1>1. Inv => ConclusionNeedsEveryLens
  BY DEF Inv, Judged, Shipped, Concluded, ConclusionNeedsEveryLens
<1> QED BY <1>1, Invariance, PTL

(* Only a new draft advances the round, and none is written past the cap.  *)
THEOREM RoundsCountDrafts == Spec => []RoundsAreDrafts
<1>1. Inv => RoundsAreDrafts
  BY DEF Inv, Drafting, RoundsAreDrafts
<1> QED BY <1>1, Invariance, PTL

(* A ruling on a dispute stands, and its key is ruled on once              *)
(* (RulingsStand).                                                         *)
THEOREM RulingsAreFinal == Spec => RulingsStand
<1>1. ASSUME [Next]_vars, NEW k \in Keys, ruled[k] # "none" PROVE ruled'[k] = ruled[k]
  <2>1. CASE Adjudicate
    <3> DEFINE keysOf(D) == {d.key : d \in D}
    <3>1. PICK heard \in SUBSET NewDisputes : \E verdict :
            ruled' = [q \in Keys |-> CASE q \in keysOf(heard) -> verdict[q]
                                      [] q \in keysOf(NewDisputes) \ keysOf(heard) -> "dismissed"
                                      [] OTHER -> ruled[q]]
      BY <2>1 DEF Adjudicate
    <3>2. \A d \in NewDisputes : d.key # k
      BY <1>1 DEF NewDisputes
    <3> QED BY <3>1, <3>2
  <2>2. CASE ~ Adjudicate
    <3>1. ruled' = ruled
      BY <1>1, <2>2 DEF Next, Step, Intake, Generate, GenerateFails, Critique, Triage,
         Orchestrate, Control, Finalize, Restart, vars, disputeVars
    <3> QED BY <3>1
  <2> QED BY <2>1, <2>2
<1>2. [Next]_vars => [\A k \in Keys : ruled[k] # "none" => ruled'[k] = ruled[k]]_vars
  BY <1>1
<1> QED BY <1>2, PTL DEF Spec, RulingsStand

-----------------------------------------------------------------------------
(* The loop implements the acceptance contract.  A generate or seeded      *)
(* intake step is the contract's Draft, a triage its Review, a control     *)
(* step that ends the run its Conclude; every other step is a stutter.     *)

LEMMA ContractInit == Init => Contract!Init
  BY DEF Init, Contract!Init

LEMMA ContractStep == ASSUME Inv, [Next]_vars PROVE Contract!Next \/ UNCHANGED
    <<round, {<<r.lens, FamilyOf[r.critic]>> : r \in clean}, \E i \in defects : i.sev >= 1,
      IF node \in {"finalize", "done"} THEN decision.status ELSE "none">>
<1> DEFINE Witnesses == {<<r.lens, FamilyOf[r.critic]>> : r \in clean}
           Objection == \E i \in defects : i.sev >= 1
           Given == IF node \in {"finalize", "done"} THEN decision.status ELSE "none"
<1>0. clean \subseteq Records /\ round \in Nat
  BY DEF Inv, TypeOK
<1>1. CASE Intake
  <2>1. CASE Go("generate") /\ UNCHANGED draftVars
    BY <1>1, <2>1 DEF Intake, Go, draftVars, triageVars
  <2>2. CASE round' = 1 /\ Go("critique")
    <3>1. /\ round = 0 /\ clean' = {} /\ defects' = {} /\ round < HardCap
          /\ node = "intake" /\ node' = "critique"
      BY <1>1, <2>2, BudgetsAssumption DEF Inv, Drafting, Fresh, Intake, Go, triageVars
    <3>2. Contract!Draft
      BY <2>2, <3>1 DEF Contract!Draft
    <3> QED BY <3>2 DEF Contract!Next
  <2> QED BY <1>1, <2>1, <2>2 DEF Intake
<1>2. CASE Generate
  <2>1. /\ round < HardCap /\ round' = round + 1 /\ clean' = {} /\ defects' = {}
        /\ node = "generate" /\ node' = "adjudicate"
    BY <1>2 DEF Inv, Drafting, Generate, ResetDraft, Go
  <2>2. Contract!Draft
    BY <2>1 DEF Contract!Draft
  <2> QED BY <2>2 DEF Contract!Next
<1>3. CASE Triage
  <2>1. /\ UNCHANGED <<round, reviews, ruled>> /\ round > 0 /\ defects' = Findings
        /\ clean \subseteq clean' /\ node = "triage" /\ node' = "orchestrate"
    BY <1>3 DEF Triage, Go, draftVars, reviewVars, disputeVars, Inv, Drafting
  <2>2. Objection => Objection'
    BY <2>1, FindingsStand, TypeIssues DEF Inv, Witnessing
  <2>3. clean' \subseteq Records
    BY <1>3, TriageType DEF Inv, TypeOK
  <2>4. Witnesses \subseteq Witnesses' /\ Witnesses' \in SUBSET (Lenses \X Families)
    BY <2>1, <2>3 DEF Records, Families
  <2>5. Objection' \in BOOLEAN
    OBVIOUS
  <2>6. Contract!Review
    BY <2>1, <2>2, <2>4, <2>5 DEF Contract!Review
  <2> QED BY <2>6 DEF Contract!Next
<1>4. CASE Control
  <2>1. UNCHANGED <<round, clean, defects>> /\ node = "control"
        /\ node' \in {"generate", "critique", "finalize"}
    BY <1>4, ControlDecides DEF Inv, Control, draftVars, Recritique, NextDraft, Stop, Go
  <2>2. CASE node' # "finalize"
    BY <2>1, <2>2
  <2>3. CASE node' = "finalize"
    <3>1. /\ decision'.status # "none" /\ decision'.status \in Terminals \cup {"none"}
      BY <1>4, <2>3, VerdictedKept, ControlDecides DEF Inv, Verdicted, Decisions
    <3>2. decision'.status = "needs_human_review" => Objection
      <4>1. ASSUME decision'.status = "needs_human_review" PROVE ~ fatal /\ Standing
        BY <1>4, <4>1, ControlJudges, ControlDecides, InputType, Decided DEF Inv
      <4>2. ~ fatal => defects = Findings
        BY <2>1 DEF Inv, Seen
      <4> QED BY <4>1, <4>2, FindingsStand, TypeIssues DEF Inv
    <3>3. decision'.status \in {"accepted", "converged_unconfirmed"} =>
            round >= MinTicks /\ ~ Objection
      BY <1>4, ControlJudges DEF Inv, Witnessing
    <3>4. ASSUME NEW c \in clean, NEW l \in Lenses, Vouches(c, l)
          PROVE  <<l, FamilyOf[c.critic]>> \in Witnesses /\ FamilyOf[c.critic] \in Families
      BY <1>0, <3>4 DEF Vouches, Records, Families
    <3>5. ASSUME decision'.status = "accepted", NEW l \in Lenses
          PROVE  \E f, g \in Families :
                   f # g /\ <<l, f>> \in Witnesses /\ <<l, g>> \in Witnesses
      <4> PICK c, d \in clean :
            Vouches(c, l) /\ Vouches(d, l) /\ FamilyOf[c.critic] # FamilyOf[d.critic]
        BY <1>4, <3>5, ControlJudges
      <4> QED BY <3>4
    <3>6. ASSUME decision'.status = "converged_unconfirmed", NEW l \in Lenses
          PROVE  \E f \in Families : <<l, f>> \in Witnesses
      <4> PICK c \in clean : Vouches(c, l)
        BY <1>4, <3>6, ControlJudges
      <4> QED BY <3>4
    <3> DEFINE v == decision'.status
    <3> HIDE DEF Witnesses, Objection
    <3>7. /\ Given = "none" /\ Given' = v /\ v \in Terminals
          /\ UNCHANGED <<round, Witnesses, Objection>>
      BY <2>1, <2>3, <3>1 DEF Witnesses, Objection
    <3>8. Contract!Warranted(v)
      <4>1. CASE v = "accepted"
        BY <3>3, <3>5, <4>1 DEF Contract!Warranted, Contract!Witnessed, Witnesses, Objection
      <4>2. CASE v = "converged_unconfirmed"
        BY <3>3, <3>6, <4>2 DEF Contract!Warranted, Contract!Witnessed, Witnesses, Objection
      <4>3. CASE v = "needs_human_review"
        BY <3>2, <4>3 DEF Contract!Warranted, Objection
      <4>4. CASE v \in {"exhausted_unresolved", "aborted"}
        BY <4>4 DEF Contract!Warranted
      <4> QED BY <3>7, <4>1, <4>2, <4>3, <4>4 DEF Terminals
    <3>9. Contract!Conclude
      BY <3>7, <3>8 DEF Contract!Conclude, Contract!Verdict, Terminals, Witnesses, Objection
    <3> QED BY <3>9 DEF Contract!Next
  <2> QED BY <2>2, <2>3
<1>5. CASE Finalize \/ Idle
  <2>1. UNCHANGED <<round, clean, defects, decision>>
        /\ (node' \in {"finalize", "done"} <=> node \in {"finalize", "done"})
    BY <1>5 DEF Finalize, Idle, Go, draftVars, triageVars
  <2> QED BY <2>1
<1>6. CASE GenerateFails \/ Adjudicate \/ Critique \/ Orchestrate
  BY <1>6 DEF GenerateFails, Adjudicate, Critique, Orchestrate, Go, draftVars, triageVars
<1> QED BY <1>1, <1>2, <1>3, <1>4, <1>5, <1>6, Idling DEF Next, Step

(* Every run of the loop is a run of the acceptance contract, under which  *)
(* the strength of a verdict is bounded by the witnesses of the judged     *)
(* draft (KeepsContract).                                                  *)
THEOREM LoopKeepsContract == Spec => KeepsContract
<1>1. Inv /\ [Next]_vars => [Contract!Next]_
        <<round, {<<r.lens, FamilyOf[r.critic]>> : r \in clean}, \E i \in defects : i.sev >= 1,
          IF node \in {"finalize", "done"} THEN decision.status ELSE "none">>
  BY ContractStep
<1> QED BY <1>1, ContractInit, Invariance, PTL DEF Spec, KeepsContract, Contract!Spec

-----------------------------------------------------------------------------
(* The weaker verdict. *)

LEMMA FamiliesFinite == IsFiniteSet(Families)
<1>1. IsFiniteSet(WriterAliases)
  <2>1. DOMAIN Writers = 1..Len(Writers) /\ Len(Writers) \in Nat
    BY RosterAssumption
  <2>2. IsFiniteSet(DOMAIN Writers)
    BY <2>1, FS_Interval
  <2>3. [i \in DOMAIN Writers |-> Writers[i]] \in Surjection(DOMAIN Writers, WriterAliases)
    BY DEF Surjection, WriterAliases
  <2> QED BY <2>2, <2>3, FS_Surjection
<1>2. IsFiniteSet(CriticAliases)
  <2> DEFINE pool(l) == {Critics[l][i] : i \in DOMAIN Critics[l]}
             pools == {pool(l) : l \in Lenses}
  <2>1. ASSUME NEW l \in Lenses PROVE IsFiniteSet(pool(l))
    <3>1. DOMAIN Critics[l] = 1..Len(Critics[l]) /\ Len(Critics[l]) \in Nat
      BY RosterAssumption
    <3>2. IsFiniteSet(DOMAIN Critics[l])
      BY <3>1, FS_Interval
    <3>3. [i \in DOMAIN Critics[l] |-> Critics[l][i]] \in Surjection(DOMAIN Critics[l], pool(l))
      BY DEF Surjection
    <3> HIDE DEF pool
    <3> QED BY <3>2, <3>3, FS_Surjection
  <2>2. [l \in Lenses |-> pool(l)] \in Surjection(Lenses, pools)
    BY DEF Surjection
  <2> HIDE DEF pool
  <2>3. IsFiniteSet(pools)
    BY <2>2, FS_Surjection, LoopAssumption
  <2>4. \A T \in pools : IsFiniteSet(T)
    BY <2>1
  <2>5. IsFiniteSet(UNION pools)
    <3> HIDE DEF pools
    <3> QED BY <2>3, <2>4, FS_UNION
  <2> QED BY <2>5 DEF CriticAliases, pool
<1>3. IsFiniteSet(Aliases)
  BY <1>1, <1>2, FS_Union, FS_Singleton DEF Aliases
<1>4. IsFiniteSet(Identities)
  <2>1. [a \in Aliases |-> IdentityOf[a]] \in Surjection(Aliases, Identities)
    BY DEF Surjection, Identities
  <2> QED BY <1>3, <2>1, FS_Surjection
<1>5. [x \in Identities |-> FamilyOf[x]] \in Surjection(Identities, Families)
  BY DEF Surjection, Families
<1> QED BY <1>4, <1>5, FS_Surjection

(* CONVERGED_UNCONFIRMED is given only where no second family could have   *)
(* been asked (UnconfirmedOnlyWhenRosterLimited).                          *)
THEOREM UnconfirmedIsRosterLimited == Spec => UnconfirmedOnlyWhenRosterLimited
<1> DEFINE Confirming(l) == {FamilyOf[r.critic] : r \in {q \in reviews : CleanReview(q) /\ q.lens = l}}
           Askable(l) == {FamilyOf[Reader(l, i)] : i \in EligibleCritics(l, author, Gone)}
<1>1. ASSUME Inv, [Next]_vars, node = "control", decision'.status = "converged_unconfirmed",
             NEW l \in Lenses
      PROVE  /\ Confirming(l) # {}
             /\ Cardinality(Confirming(l)) < 2 => Cardinality(Askable(l)) < 2
  <2>1. Control
    <3>1. decision' # decision
      BY <1>1 DEF Inv, Verdicted
    <3> QED BY <1>1, <3>1 DEF Next, Step, Intake, Generate, GenerateFails, Adjudicate, Critique,
               Triage, Orchestrate, Finalize, Restart, vars
  <2>2. Confirming(l) # {}
    <3> PICK c \in clean : Vouches(c, l)
      BY <1>1, <2>1, ControlJudges
    <3> QED BY RecordsHold, <1>1
  <2>3. ASSUME Cardinality(Confirming(l)) < 2 PROVE Cardinality(Askable(l)) < 2
    <3> DEFINE status == LensStatuses(author, Gone, report, clean, used)
               eligible == {Reader(l, i) : i \in EligibleCritics(l, author, Gone)}
               cleared == {r.critic : r \in {q \in clean :
                             /\ q.artifact = report /\ q.lens = l
                             /\ q.author = author /\ q.critic # author
                             /\ q.critic \in eligible}}
               families == {FamilyOf[x] : x \in cleared}
    <3>1. WeakMet(status)
      BY <1>1, <2>1, ControlDecides, InputType, Decided DEF Inv
    <3>2. status[l].cleared = Cardinality(families)
          /\ status[l].eligible = Cardinality({FamilyOf[x] : x \in eligible})
      BY DEF LensStatuses, LensStatus
    <3>3. {FamilyOf[x] : x \in eligible} = Askable(l)
      OBVIOUS
    <3>4. families \subseteq Confirming(l)
      BY RecordsHold, <1>1 DEF Vouches
    <3>5. Confirming(l) \subseteq Families
      BY <1>1 DEF Inv, TypeOK, Reviews, CleanReview, Families
    <3>6. IsFiniteSet(Confirming(l))
      BY <3>5, FamiliesFinite, FS_Subset
    <3>7. Cardinality(families) <= Cardinality(Confirming(l)) /\ Cardinality(families) \in Nat
          /\ Cardinality(Confirming(l)) \in Nat
      <4> HIDE DEF families, Confirming
      <4>1. IsFiniteSet(families) /\ Cardinality(families) <= Cardinality(Confirming(l))
        BY <3>4, <3>6, FS_Subset
      <4> QED BY <4>1, <3>6, FS_CardinalityType
    <3>8. status[l].cleared < 2 => status[l].eligible < 2
      BY <3>1 DEF WeakMet, RosterLimited, LensStatuses
    <3> HIDE DEF status, families, Confirming, Askable, eligible
    <3> QED BY <2>3, <3>2, <3>3, <3>7, <3>8
  <2> QED BY <2>2, <2>3
<1>2. Inv /\ [Next]_vars =>
        [node = "control" /\ decision'.status = "converged_unconfirmed" =>
           \A l \in Lenses :
             LET families == {FamilyOf[r.critic] : r \in {q \in reviews : CleanReview(q) /\ q.lens = l}}
                 askable == {FamilyOf[Reader(l, i)] : i \in EligibleCritics(l, author, Gone)}
             IN families # {} /\ (Cardinality(families) < 2 => Cardinality(askable) < 2)]_vars
  BY <1>1
<1> QED BY <1>2, Invariance, PTL DEF Spec, UnconfirmedOnlyWhenRosterLimited

-----------------------------------------------------------------------------
(* The run is as long as its budgets allow. *)

Spent == (CritiqueAttempts - critiqueLeft) + (ConfirmAttempts - confirmLeft)

(* How far a node is past the last draft and the last retry paid for.      *)
Lead == CASE node = "intake" -> 0
          [] node = "generate" -> 1
          [] node = "adjudicate" -> -4
          [] node = "critique" -> -3
          [] node = "triage" -> -2
          [] node = "orchestrate" -> -1
          [] node = "control" -> IF fatal THEN 2 ELSE 0
          [] node = "finalize" -> 3
          [] OTHER -> 4

Paced == steps <= 6 * round + 4 * Spent + Lead

LEMMA PacedKept == ASSUME Inv, Paced, [Next]_vars PROVE Paced'
<1>0. /\ round \in Nat /\ steps \in Nat
      /\ critiqueLeft \in 0..CritiqueAttempts /\ confirmLeft \in 0..ConfirmAttempts
      /\ CritiqueAttempts \in Nat /\ ConfirmAttempts \in Nat
  BY LoopAssumption DEF Inv, TypeOK
<1>1. CASE Intake
  <2>1. UNCHANGED <<critiqueLeft, confirmLeft>> /\ round = 0 /\ node = "intake"
    BY <1>1 DEF Inv, Drafting, Intake, budgetVars
  <2>2. \/ steps' = steps + 1 /\ node' = "generate" /\ round' = round
        \/ steps' = steps + 1 /\ node' = "critique" /\ round' = 1
    BY <1>1 DEF Intake, Go, draftVars
  <2> QED BY <1>0, <2>1, <2>2 DEF Paced, Lead, Spent
<1>2. CASE Generate
  <2>1. steps' = steps + 1 /\ UNCHANGED <<critiqueLeft, confirmLeft>> /\ round' = round + 1
        /\ node = "generate" /\ node' = "adjudicate"
    BY <1>2 DEF Generate, Go, budgetVars
  <2> QED BY <1>0, <2>1 DEF Paced, Lead, Spent
<1>3. CASE GenerateFails
  <2>1. steps' = steps + 1 /\ UNCHANGED <<critiqueLeft, confirmLeft, round>>
        /\ node = "generate" /\ node' = "control" /\ fatal'
    BY <1>3 DEF GenerateFails, Go, budgetVars, draftVars
  <2> QED BY <1>0, <2>1 DEF Paced, Lead, Spent
<1>4. CASE Adjudicate \/ Critique \/ Triage \/ Orchestrate
  <2>1. /\ steps' = steps + 1 /\ UNCHANGED <<critiqueLeft, confirmLeft, round>> /\ ~ fatal'
        /\ \/ node = "adjudicate" /\ node' = "critique"
           \/ node = "critique" /\ node' = "triage"
           \/ node = "triage" /\ node' = "orchestrate"
           \/ node = "orchestrate" /\ node' = "control"
    BY <1>4 DEF Inv, Verdicted, Adjudicate, Critique, Triage, Orchestrate, Go, budgetVars,
                draftVars
  <2> QED BY <1>0, <2>1 DEF Paced, Lead, Spent
<1>5. CASE Control
  <2>1. /\ steps' = steps + 1 /\ round' = round /\ node = "control"
        /\ fatal => node' = "finalize"
        /\ \/ /\ node' = "critique"
              /\ \/ critiqueLeft' = critiqueLeft - 1 /\ confirmLeft' = confirmLeft
                 \/ critiqueLeft' = critiqueLeft /\ confirmLeft' = confirmLeft - 1
           \/ node' \in {"generate", "finalize"} /\ UNCHANGED <<critiqueLeft, confirmLeft>>
    <3>1. /\ fatal => decision'.status = "aborted"
          /\ decision'.action = "terminal" <=> decision'.status # "none"
      BY <1>5, ControlDecides, InputType, Decided DEF Inv
    <3>2. Recritique(decision') \/ NextDraft(decision') \/ Stop(decision')
      BY <1>5, ControlDecides DEF Inv
    <3> QED BY <1>5, <3>1, <3>2
            DEF Control, Recritique, RetriesLeft, NextDraft, Stop, Go, draftVars
  <2> QED BY <1>0, <2>1 DEF Paced, Lead, Spent
<1>6. CASE Finalize
  <2>1. steps' = steps + 1 /\ UNCHANGED <<critiqueLeft, confirmLeft, round>>
        /\ node = "finalize" /\ node' = "done"
    BY <1>6 DEF Finalize, Go, budgetVars, draftVars
  <2> QED BY <1>0, <2>1 DEF Paced, Lead, Spent
<1>7. CASE Idle
  BY <1>7 DEF Idle, Paced, Lead, Spent, budgetVars, draftVars
<1> QED BY <1>1, <1>2, <1>3, <1>4, <1>5, <1>6, <1>7, Idling DEF Next, Step

(* A run ends on its own budgets, well short of the step limit the graph   *)
(* is compiled with (StepsWithinRecursionLimit).                           *)
THEOREM StepsAreBounded == Spec => []StepsWithinRecursionLimit
<1>1. Init => Paced
  BY LoopAssumption DEF Init, Paced, Lead, Spent
<1>2. Inv /\ Paced /\ [Next]_vars => Paced'
  BY PacedKept
<1>3. ASSUME Inv, Paced PROVE StepsWithinRecursionLimit
  <2>1. /\ round \in Nat /\ steps \in Nat /\ round <= HardCap
        /\ critiqueLeft \in 0..CritiqueAttempts /\ confirmLeft \in 0..ConfirmAttempts
        /\ CritiqueAttempts \in Nat /\ ConfirmAttempts \in Nat /\ HardCap \in Nat
        /\ PolishCap \in Nat
    BY LoopAssumption, BudgetsAssumption, <1>3 DEF Inv, TypeOK, Drafting
  <2>2. Lead \in Int /\ Lead <= 4
    BY DEF Lead
  <2> QED BY <1>3, <2>1, <2>2 DEF Paced, Spent, StepsWithinRecursionLimit, Laps
<1> QED BY <1>1, <1>2, <1>3, Invariance, PTL DEF Spec

-----------------------------------------------------------------------------
(* A rewrite starts the stalled count over, and the count cannot reach its *)
(* limit again in one triage.                                              *)

Rewritten ==
  decision.rewrite =>
    /\ node \in {"intake", "generate", "adjudicate", "critique", "triage"} => stagnation = 0
    /\ node \in {"orchestrate", "control"} /\ ~ fatal => view.stagnation <= 1

LEMMA RewrittenKept == ASSUME Inv, Rewritten, [Next]_vars PROVE Rewritten'
<1>1. CASE Control
  <2>1. node' \in {"generate", "critique", "finalize"}
        /\ (NextDraft(decision') => stagnation' = StagnationAfter(decision'))
    BY <1>1, ControlDecides DEF Inv, Recritique, NextDraft, Stop, Go
  <2>2. decision'.rewrite => decision'.rule = 13
        /\ (decision'.action = "recritique" => decision'.rule \in {2, 8})
    BY <1>1, ControlDecides, InputType, Decided DEF Inv
  <2>3. decision'.rewrite /\ node' \in {"generate", "critique"} => NextDraft(decision')
    BY <1>1, <2>2, ControlDecides DEF Inv, Recritique, Stop, Go
  <2> QED BY <2>1, <2>3 DEF Rewritten, StagnationAfter
<1>2. CASE Triage
  <2>1. /\ node = "triage" /\ node' = "orchestrate" /\ decision' = decision
        /\ view'.stagnation = stagnation' /\ stagnation' \in {0, stagnation + 1}
    BY <1>2 DEF Triage, Go
  <2> QED BY <2>1 DEF Rewritten
<1>3. CASE Intake
  BY <1>3 DEF Inv, Rewritten, Intake, Go, triageVars
<1>4. CASE Generate \/ GenerateFails \/ Adjudicate \/ Critique \/ Orchestrate \/ Finalize
           \/ Idle
  BY <1>4 DEF Rewritten, Generate, GenerateFails, Adjudicate, Critique, Orchestrate, Finalize,
              Idle, Go, triageVars
<1> QED BY <1>1, <1>2, <1>3, <1>4, Idling DEF Next, Step

(* The decision that follows a rewrite is never "stalled" again, where a   *)
(* stall is at least two equal signals in a row (RewriteIsJudged).         *)
THEOREM RewritesAreJudged ==
  ASSUME StagnationLimit >= 2 PROVE Spec => RewriteIsJudged
<1>1. Init => Rewritten
  BY DEF Init, Rewritten, NoDecision
<1>2. Inv /\ Rewritten /\ [Next]_vars => Rewritten'
  BY RewrittenKept
<1>3. ASSUME Inv, Rewritten, [Next]_vars, node = "control", node' # node, decision.rewrite
      PROVE  decision'.rule # 13
  <2>1. Control
    BY <1>3 DEF Next, Step, Intake, Generate, GenerateFails, Adjudicate, Critique, Triage,
                Orchestrate, Finalize, Restart, vars
  <2>2. /\ fatal => decision'.rule = 1
        /\ decision'.rule = 13 => view.stagnation >= StagnationLimit
    BY <1>3, <2>1, ControlDecides, InputType, Decided DEF Inv
  <2>3. ~ fatal => view.stagnation <= 1 /\ view.stagnation \in Nat /\ StagnationLimit \in Nat
    BY <1>3, BudgetsAssumption DEF Rewritten, Inv, TypeOK, Views
  <2> QED BY <2>2, <2>3
<1>4. Inv /\ Rewritten /\ [Next]_vars =>
        [node = "control" /\ node' # node /\ decision.rewrite => decision'.rule # 13]_vars
  BY <1>3
<1> QED BY <1>1, <1>2, <1>4, Invariance, PTL DEF Spec, RewriteIsJudged

-----------------------------------------------------------------------------
(* What ships is what was found.  A row of the scoreboard answers the      *)
(* trail of its draft as soon as the last pass over it is triaged; a       *)
(* ruling may withdraw a finding afterwards, and none comes back.          *)

Answers(tasks, issues) ==
  \A i \in issues : Stands(i) => \E d \in tasks : d.key = i.key /\ d.sev >= i.sev

Reported ==
  /\ \A d \in DOMAIN trail : trail[d].issues \subseteq Issues
  /\ \A d \in DOMAIN board :
       d \in DOMAIN trail /\ (d # report \/ node # "triage" =>
                                Answers(board[d].defects, trail[d].issues))
  /\ node = "triage" =>
       report \in DOMAIN trail /\ trail[report].issues = UNION {r.issues : r \in reviews}
  /\ node \in {"orchestrate", "control", "finalize"} /\ ~ fatal =>
       report \in DOMAIN trail /\ Answers(defects, trail[report].issues) /\ board # << >>
  /\ node = "generate" \/ fatal => report = 0 \/ board # << >>
  /\ node = "intake" => report = 0
  /\ node = "done" /\ final.draft # 0 => Answers(final.defects, trail[final.draft].issues)

LEMMA StandsStays ==
  ASSUME Inv, Adjudicate, NEW i \in Issues, Stands(i)'
  PROVE  Stands(i)
<1>1. ruled[i.key] = "upheld" => ruled'[i.key] = "upheld"
  <2> DEFINE keysOf(D) == {d.key : d \in D}
  <2>1. PICK heard \in SUBSET NewDisputes : \E verdict :
          ruled' = [q \in Keys |-> CASE q \in keysOf(heard) -> verdict[q]
                                    [] q \in keysOf(NewDisputes) \ keysOf(heard) -> "dismissed"
                                    [] OTHER -> ruled[q]]
    BY DEF Adjudicate
  <2>2. ASSUME ruled[i.key] = "upheld" PROVE i.key \notin keysOf(NewDisputes)
    BY <2>2 DEF NewDisputes
  <2> QED BY <2>1, <2>2 DEF Issues
<1> QED BY <1>1 DEF Stands

LEMMA ReportedKept == ASSUME Inv, Reported, [Next]_vars PROVE Reported'
<1>1. CASE Intake
  <2>1. /\ UNCHANGED <<trail, board, ruled, fatal>> /\ node = "intake" /\ ~ fatal
        /\ \/ node' = "generate" /\ report' = report
           \/ node' = "critique"
    BY <1>1 DEF Inv, Verdicted, Intake, Go, draftVars, triageVars, disputeVars
  <2>2. \A i : Stands(i)' = Stands(i)
    BY <2>1 DEF Stands
  <2> QED BY <2>1, <2>2 DEF Reported, Answers
<1>2. CASE Generate
  <2>1. /\ UNCHANGED <<trail, board, ruled, fatal>> /\ node = "generate" /\ ~ fatal
        /\ node' = "adjudicate"
    BY <1>2 DEF Inv, Verdicted, Generate, Go
  <2>2. \A i : Stands(i)' = Stands(i)
    BY <2>1 DEF Stands
  <2> QED BY <2>1, <2>2 DEF Reported, Answers
<1>3. CASE Critique
  <2>1. /\ UNCHANGED <<board, ruled, fatal, report>> /\ node = "critique" /\ ~ fatal
        /\ node' = "triage"
    BY <1>3 DEF Inv, Verdicted, Critique, Go, draftVars, triageVars, disputeVars
  <2>2. \A i : Stands(i)' = Stands(i)
    BY <2>1 DEF Stands
  <2>3. /\ DOMAIN trail' = DOMAIN trail \cup {report}
        /\ trail'[report].issues = UNION {r.issues : r \in reviews'}
        /\ \A d \in DOMAIN trail : d # report => trail'[d] = trail[d]
    BY <1>3 DEF Critique
  <2>4. \A r \in reviews' : r.issues \subseteq Issues
    BY Types DEF TypeOK, Reviews
  <2> QED BY <2>1, <2>2, <2>3, <2>4 DEF Reported, Answers
<1>4. CASE Triage
  <2>1. /\ UNCHANGED <<reviews, ruled, fatal, report, trail, final>> /\ node = "triage" /\ ~ fatal
        /\ node' = "orchestrate" /\ defects' = Findings
        /\ board' = [d \in DOMAIN board \cup {report} |-> IF d = report THEN Row ELSE board[d]]
    BY <1>4 DEF Inv, Verdicted, Triage, LatestRows, Go, draftVars, reviewVars, disputeVars
  <2>2. \A i : Stands(i)' = Stands(i)
    BY <2>1 DEF Stands
  <2>3. report \in DOMAIN trail /\ Answers(Findings, trail[report].issues)
    <3>1. trail[report].issues = UNION {r.issues : r \in reviews} /\ report \in DOMAIN trail
      BY <2>1 DEF Reported
    <3> QED BY <3>1, FindingsStand, TypeIssues DEF Inv, Answers
  <2>4. board'[report].defects = Findings /\ board' # << >>
    <3>1. report \in DOMAIN board' /\ board'[report] = Row
      BY <2>1
    <3> QED BY <3>1 DEF Row
  <2>5. \A d \in DOMAIN board' : d # report => d \in DOMAIN board /\ board'[d] = board[d]
    BY <2>1
  <2> QED BY <2>1, <2>2, <2>3, <2>4, <2>5 DEF Reported, Answers
<1>5. CASE Adjudicate
  <2>1. /\ UNCHANGED <<board, trail, fatal, report>> /\ node = "adjudicate" /\ ~ fatal
        /\ node' = "critique"
    BY <1>5 DEF Inv, Verdicted, Adjudicate, Go, draftVars, triageVars
  <2>2. \A i \in Issues : Stands(i)' => Stands(i)
    BY <1>5, StandsStays
  <2> QED BY <2>1, <2>2 DEF Reported, Answers
<1>6. CASE Finalize
  <2>1. /\ UNCHANGED <<ruled, fatal, report, trail, board>> /\ node = "finalize"
        /\ node' = "done"
    BY <1>6 DEF Finalize, Go, draftVars, triageVars, disputeVars
  <2>2. \A i : Stands(i)' = Stands(i)
    BY <2>1 DEF Stands
  <2>3. ASSUME final'.draft # 0 PROVE Answers(final'.defects, trail[final'.draft].issues)
    <3>1. CASE /\ decision.status \in {"accepted", "converged_unconfirmed"} \/ board = << >>
               /\ final' = [status |-> decision.status, draft |-> report, round |-> round,
                            defects |-> defects]
      <4>1. report # 0 /\ final'.defects = defects /\ final'.draft = report
        BY <2>3, <3>1
      <4>2. ~ fatal
        BY <2>1, <3>1, <4>1 DEF Inv, Verdicted, Reported
      <4> QED BY <2>1, <4>1, <4>2 DEF Reported
    <3>2. CASE /\ board # << >>
               /\ final' = [status |-> decision.status, draft |-> SelectShipped(board),
                            round |-> board[SelectShipped(board)].round,
                            defects |-> board[SelectShipped(board)].defects]
      <4>1. SelectShipped(board) \in DOMAIN board
        BY <3>2, BestDraft DEF Inv
      <4>2. final'.draft = SelectShipped(board)
            /\ final'.defects = board[SelectShipped(board)].defects
        BY <3>2
      <4> QED BY <2>1, <4>1, <4>2 DEF Reported
    <3> QED BY <1>6, <3>1, <3>2 DEF Finalize
  <2> QED BY <2>1, <2>2, <2>3 DEF Reported, Answers
<1>7. CASE Control
  <2>1. /\ UNCHANGED <<ruled, fatal, report, trail, board, defects, final>> /\ node = "control"
        /\ node' \in {"generate", "critique", "finalize"}
    BY <1>7, ControlDecides
       DEF Inv, Control, Recritique, NextDraft, Stop, Go, draftVars, disputeVars
  <2>2. \A i : Stands(i)' = Stands(i)
    BY <2>1 DEF Stands
  <2> QED BY <2>1, <2>2 DEF Reported, Answers
<1>8. CASE Orchestrate \/ GenerateFails
  <2>1. /\ UNCHANGED <<ruled, report, trail, board, defects, final>> /\ node' = "control"
        /\ \/ node = "orchestrate" /\ fatal' = fatal
           \/ node = "generate" /\ fatal'
    BY <1>8 DEF Orchestrate, GenerateFails, Go, draftVars, triageVars, disputeVars
  <2>2. \A i : Stands(i)' = Stands(i)
    BY <2>1 DEF Stands
  <2> QED BY <2>1, <2>2 DEF Reported, Answers
<1>9. CASE Idle
  <2>1. UNCHANGED <<ruled, report, trail, board, defects, final, fatal, node, reviews>>
    BY <1>9 DEF Idle, draftVars, triageVars, disputeVars, reviewVars
  <2>2. \A i : Stands(i)' = Stands(i)
    BY <2>1 DEF Stands
  <2> QED BY <2>1, <2>2 DEF Reported, Answers
<1> QED BY <1>1, <1>2, <1>3, <1>4, <1>5, <1>6, <1>7, <1>8, <1>9, Idling DEF Next, Step

(* The reader is handed every finding that the audit trail holds against   *)
(* the draft that ships and that still stands (ShipsItsOwnFindings).       *)
THEOREM ReaderGetsTheFindings == Spec => []ShipsItsOwnFindings
<1>1. Init => Reported
  BY DEF Init, Reported
<1>2. Inv /\ Reported /\ [Next]_vars => Reported'
  BY ReportedKept
<1>3. Reported => ShipsItsOwnFindings
  BY DEF Reported, Answers, ShipsItsOwnFindings, Concluded
<1> QED BY <1>1, <1>2, <1>3, Invariance, PTL DEF Spec

-----------------------------------------------------------------------------
(* A pass can be staffed, as long as the run stays in the process that     *)
(* wrote its draft.                                                        *)

LEMMA EligibleSomebody ==
  ASSUME NEW l \in Lenses, NEW gone, NEW someone, NEW i \in CriticPool(l, gone),
         Reader(l, i) # someone
  PROVE  EligibleCritics(l, someone, gone) # {}
<1> DEFINE same == {j \in CriticPool(l, gone) : Reader(l, j) = Reader(l, i)}
<1>1. same \in SUBSET Nat /\ same # {}
  <2>1. DOMAIN Critics[l] = 1..Len(Critics[l]) /\ Len(Critics[l]) \in Nat
    BY RosterAssumption
  <2> QED BY <2>1 DEF CriticPool
<1>2. PICK j \in same : \A k \in same : j <= k
  BY <1>1, LeastMember
<1>3. j \in EligibleCritics(l, someone, gone)
  BY <1>2 DEF EligibleCritics
<1> QED BY <1>3

LEMMA DepthWanted == ASSUME TypeOK, NEW l \in Lenses PROVE Wanted(l) \in Int
<1> DEFINE read == {FamilyOf[r.critic] : r \in {q \in reviews : q.lens = l}}
<1>1. read \subseteq Families
  BY DEF TypeOK, Reviews, Families
<1>2. Cardinality(read) \in Nat
  BY <1>1, FamiliesFinite, FS_Subset, FS_CardinalityType
<1>3. Depth[l] \in Nat
  BY LoopAssumption
<1> QED BY <1>2, <1>3 DEF Wanted

LEMMA SlateOf ==
  ASSUME TypeOK, NEW l \in Lenses
  PROVE  /\ EligibleCritics(l, author, Gone) # {} => Slate(l) # {}
         /\ (\E i \in EligibleCritics(l, author, Gone) : Reader(l, i) \notin used[l]) =>
              \E i \in Slate(l) : Reader(l, i) \notin used[l]
<1>1. tries[l] \in Nat
  BY DEF TypeOK
<1>2. Slate(l) = CriticSlate(l, author, Gone, used[l], Wanted(l), tries[l])
  BY DEF Slate
<1> QED BY <1>1, <1>2, DepthWanted, SlateChosen

(* Sidelining, outages and the exclusion of the author together never      *)
(* leave a lens without a critic in a run that was never resumed           *)
(* (EveryPassIsStaffed).                                                   *)
THEOREM PassesAreStaffed == ASSUME MaxRestarts = 0 PROVE Spec => []EveryPassIsStaffed
<1>1. ASSUME Inv, node = "critique", NEW l \in pending PROVE Slate(l) # {}
  <2>1. l \in Lenses
    BY <1>1 DEF Inv, TypeOK
  <2>2. restarts = 0 /\ round > 0
    BY <1>1 DEF Inv, TypeOK, Drafting
  <2>3. /\ WriterPool(unreachable) # {}
        /\ \A w \in WriterPool(unreachable) :
             \E i \in CriticPool(l, Gone) : Reader(l, i) # IdentityOf[Writers[w]]
    BY <1>1, <2>1 DEF Inv, Staffing, Staffed, Gone, CriticPool
  <2>4. \E i \in CriticPool(l, Gone) : Reader(l, i) # author
    <3>1. CASE author = External
      <4>1. \A i \in CriticPool(l, Gone) : Reader(l, i) \in Identities
        BY <2>1 DEF CriticPool, Reader, Identities, Aliases, CriticAliases
      <4> QED BY <2>3, <3>1, <4>1, RosterAssumption DEF External
    <3>2. CASE \E w \in WriterPool(unreachable) : author = IdentityOf[Writers[w]]
      BY <2>3, <3>2
    <3> QED BY <1>1, <2>2, <3>1, <3>2 DEF Inv, Manned
  <2> QED BY <1>1, <2>1, <2>4, EligibleSomebody, SlateOf DEF Inv
<1>2. Inv => EveryPassIsStaffed
  BY <1>1 DEF EveryPassIsStaffed
<1> QED BY <1>2, Invariance, PTL

(* A top-up pass is decided upon only for lenses somebody new can read,    *)
(* and nothing between the decision and the pass changes who that is.      *)

SomebodyNew(l) == \E i \in EligibleCritics(l, author, Gone) : Reader(l, i) \notin used[l]

ToppedUp ==
  decision.rule = 8 =>
    /\ node \notin {"intake", "generate", "adjudicate"}
    /\ node = "critique" /\ restarts = 0 => \A l \in pending : SomebodyNew(l)

LEMMA ToppableHasSomebodyNew ==
  ASSUME NEW l \in Lenses, Toppable(LensStatuses(author, Gone, report, clean, used)[l])
  PROVE  SomebodyNew(l)
<1> DEFINE eligible == {Reader(l, i) : i \in EligibleCritics(l, author, Gone)}
           cleared == {r.critic : r \in {q \in clean :
                         /\ q.artifact = report /\ q.lens = l
                         /\ q.author = author /\ q.critic # author
                         /\ q.critic \in eligible}}
           unasked == {FamilyOf[x] : x \in eligible \ used[l]} \ {FamilyOf[x] : x \in cleared}
<1>1. Cardinality(unasked) > 0
  BY DEF Toppable, LensStatuses, LensStatus
<1>2. unasked # {}
  <2> HIDE DEF unasked
  <2>1. Cardinality({}) = 0
    BY FS_EmptySet
  <2> QED BY <1>1, <2>1
<1> QED BY <1>2 DEF SomebodyNew

LEMMA ToppedUpKept == ASSUME Inv, ToppedUp, [Next]_vars PROVE ToppedUp'
<1>1. CASE Control
  <2>1. UNCHANGED <<author, report, clean, used, unreachable, sidelined, restarts>>
    BY <1>1 DEF Control, draftVars, healthVars, processVars
  <2>2. \A l \in Lenses : SomebodyNew(l)' <=> SomebodyNew(l)
    <3>1. Gone' = Gone
      BY <2>1 DEF Gone
    <3> QED BY <2>1, <3>1 DEF SomebodyNew
  <2>3. ASSUME decision'.rule = 8
        PROVE  /\ decision'.action = "recritique"
               /\ \A l \in decision'.lenses :
                    Toppable(LensStatuses(author, Gone, report, clean, used)[l])
    BY <1>1, <2>3, ControlDecides, InputType, Decided DEF Inv
  <2>4. ASSUME decision'.rule = 8
        PROVE  node' = "critique" /\ pending' = decision'.lenses
    BY <1>1, <2>3, <2>4, ControlDecides DEF Inv, Recritique, NextDraft, Stop, Go
  <2>5. decision'.lenses \subseteq Lenses
    BY <1>1, ControlDecides DEF Inv, Decisions
  <2> QED BY <2>2, <2>3, <2>4, <2>5, ToppableHasSomebodyNew DEF ToppedUp
<1>2. CASE Restart
  <2>1. restarts' # 0 /\ UNCHANGED <<node, decision>>
    BY <1>2 DEF Restart, Inv, TypeOK
  <2> QED BY <2>1 DEF ToppedUp
<1>3. CASE UNCHANGED vars
  <2>1. UNCHANGED <<node, decision, pending, author, used, unreachable, sidelined, restarts>>
    BY <1>3 DEF vars, reviewVars, draftVars, processVars, healthVars
  <2>2. Gone' = Gone
    BY <2>1 DEF Gone
  <2> QED BY <2>1, <2>2 DEF ToppedUp, SomebodyNew
<1>4. CASE Intake \/ Generate \/ Adjudicate
  <2>1. node \in {"intake", "generate", "adjudicate"} /\ decision' = decision
    BY <1>4 DEF Intake, Generate, Adjudicate
  <2> QED BY <2>1 DEF ToppedUp
<1>5. CASE GenerateFails \/ Critique \/ Triage \/ Orchestrate \/ Finalize
  BY <1>5 DEF ToppedUp, GenerateFails, Critique, Triage, Orchestrate, Finalize, Go
<1> QED BY <1>1, <1>2, <1>3, <1>4, <1>5 DEF Next, Step

(* A confirmation pass asks, on every lens it re-reads, a model that has   *)
(* not been asked about this draft (TopUpAsksSomeoneNew), in a run that    *)
(* was never resumed.                                                      *)
THEOREM TopUpsAskSomeoneNew ==
  ASSUME MaxRestarts = 0 PROVE Spec => TopUpAsksSomeoneNew
<1>1. Init => ToppedUp
  BY DEF Init, ToppedUp, NoDecision
<1>2. Inv /\ ToppedUp /\ [Next]_vars => ToppedUp'
  BY ToppedUpKept
<1>3. ASSUME Inv, ToppedUp, [Next]_vars, node = "critique", node' = "triage",
             decision.rule = 8, NEW l \in pending
      PROVE  used'[l] # used[l]
  <2>1. Critique
    BY <1>3 DEF Next, Step, Intake, Generate, GenerateFails, Adjudicate, Triage, Orchestrate,
                Control, Finalize, Restart, vars
  <2>2. l \in Lenses /\ restarts = 0
    BY <1>3 DEF Inv, TypeOK
  <2>3. \E i \in Slate(l) : Reader(l, i) \notin used[l]
    BY <1>3, <2>2, SlateOf DEF ToppedUp, SomebodyNew, Inv
  <2> PICK i \in Slate(l) : Reader(l, i) \notin used[l]
    BY <2>3
  <2> DEFINE slot == [lens |-> l, alias |-> Critics[l][i]]
  <2>4. slot \in Slots /\ slot.lens = l /\ IdentityOf[slot.alias] = Reader(l, i)
    BY <1>3 DEF Slots, Reader
  <2>5. used'[l] = used[l] \cup {IdentityOf[s.alias] : s \in {t \in Slots : t.lens = l}}
    BY <2>1, <2>2 DEF Critique
  <2> HIDE DEF slot
  <2>6. Reader(l, i) \in used'[l]
    BY <2>4, <2>5
  <2> QED BY <2>6
<1>4. Inv /\ ToppedUp /\ [Next]_vars =>
        [node = "critique" /\ node' = "triage" /\ decision.rule = 8 =>
           \A l \in pending : used'[l] # used[l]]_vars
  BY <1>3
<1> QED BY <1>1, <1>2, <1>4, Invariance, PTL DEF Spec, TopUpAsksSomeoneNew
=============================================================================
