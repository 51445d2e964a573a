------------------------- MODULE EvidenceRoundProofs -------------------------
(***************************************************************************)
(* What a run may conclude from the evidence it read, for every set of     *)
(* pages, reports, budgets and answers.  Three invariants carry it: what a *)
(* session has read in full was shown, whatever cards the reader made      *)
(* (ReadInv); the check in progress has one verdict for each of the first  *)
(* citations, in order, and an absence rests on ranges that cover the page *)
(* (CheckInv); what is compared with the drafts before is a draft          *)
(* (DraftInv).                                                             *)
(***************************************************************************)
EXTENDS EvidenceRound, FoldLemmas

(* Passages that can be shown: each is some text of the page.              *)
Passage == [start : Nat, len : Nat \ {0}]
Showable(card) == IsFiniteSet(card) /\ card \subseteq Passage

LEMMA CharsType ==
  ASSUME NEW card, Showable(card)
  PROVE  CharsOf(card) \in Nat /\ (CharsOf(card) = 0 <=> card = {})
<1> DEFINE f == [p \in card |-> p.len]
<1>1. \A p \in card : p.len \in Nat \ {0}
  BY DEF Showable, Passage
<1>2. f \in [card -> Nat]
  BY <1>1
<1>3. CharsOf(card) = FoldFunction(+, 0, f)
  BY DEF CharsOf
<1>4. IsFiniteSet(card)
  BY DEF Showable
<1>5. FoldFunction(+, 0, f) \in Nat
      /\ (FoldFunction(+, 0, f) = 0 <=> \A x \in card : f[x] = 0)
  <2> HIDE DEF f
  <2> QED BY <1>2, <1>4, SumType
<1>6. \A x \in card : f[x] # 0
  BY <1>1
<1> HIDE DEF f
<1>7. card = {} <=> \A x \in card : f[x] = 0
  BY <1>6
<1> QED BY <1>3, <1>5, <1>7

LEMMA WithinShows ==
  ASSUME NEW card, Showable(card), NEW chars
  PROVE  Showable(Within(card, chars))
<1>1. Within(card, chars) \subseteq card
  BY DEF Within
<1>2. IsFiniteSet(Within(card, chars))
  BY <1>1, FS_Subset DEF Showable
<1> QED BY <1>1, <1>2 DEF Showable

(* What a fold from the left keeps of the passages it goes over.           *)
LEMMA MergedType ==
  ASSUME NEW passages \in Seq(Passage)
  PROVE  Merged(passages) \in Seq(Passage)
<1> DEFINE n == Len(passages)
           T == Seq(Passage)
           Folds(g) == g = [s \in SUBSET (1..n) |->
             IF s = {} THEN << >> ELSE KeepFirst(g[s \ {Max(s)}], passages[Max(s)])]
           h == CHOOSE g : Folds(g)
           step == [p \in (1..n) \X T |-> KeepFirst(p[2], passages[p[1]])]
<1>1. n \in Nat /\ DOMAIN passages = 1..n /\ \A i \in 1..n : passages[i] \in Passage
  OBVIOUS
<1>2. Merged(passages) = h[1..n]
  BY <1>1 DEF Merged, FoldLeft, MapThenFoldSet
<1>3. ASSUME NEW kept \in T, NEW p \in Passage  PROVE KeepFirst(kept, p) \in T
  BY DEF KeepFirst
<1>4. step \in [(1..n) \X T -> T]
  BY <1>1, <1>3
<1>5. << >> \in T
  OBVIOUS
<1>6. PICK g \in [SUBSET (1..n) -> T] : LeftFoldOf(g, n, << >>, step)
  <2> HIDE DEF n, T, step
  <2> QED BY <1>1, <1>4, <1>5, LeftFoldDefined
<1>7. \A s \in SUBSET (1..n) : s # {} => Max(s) \in s
  <2> TAKE s \in SUBSET (1..n)
  <2> HAVE s # {}
  <2>1. s \in SUBSET Nat
    BY <1>1
  <2> QED BY <1>1, <2>1, Greatest
<1>8. Folds(g)
  <2>1. ASSUME NEW s \in SUBSET (1..n), s # {}
        PROVE  g[s] = KeepFirst(g[s \ {Max(s)}], passages[Max(s)])
    <3>1. Max(s) \in 1..n /\ s \ {Max(s)} \in SUBSET (1..n)
      BY <2>1, <1>7
    <3>2. g[s \ {Max(s)}] \in T
      BY <3>1
    <3>3. g[s] = step[<<Max(s), g[s \ {Max(s)}]>>]
      BY <1>6, <2>1 DEF LeftFoldOf
    <3> HIDE DEF n, T
    <3> QED BY <3>1, <3>2, <3>3
  <2>2. g[{}] = << >>
    BY <1>6 DEF LeftFoldOf
  <2> HIDE DEF n, T, step
  <2> QED BY <2>1, <2>2
<1>9. Folds(h)
  <2> HIDE DEF Folds
  <2> QED BY <1>8
<1> HIDE DEF h
<1>10. h[{}] \in T
  BY <1>5, <1>9
<1>11. ASSUME NEW s \in SUBSET (1..n), s # {} /\ h[s \ {Max(s)}] \in T
       PROVE  h[s] \in T
  <2>1. h[s] = KeepFirst(h[s \ {Max(s)}], passages[Max(s)])
    BY <1>9, <1>11
  <2>2. passages[Max(s)] \in Passage
    BY <1>1, <1>7, <1>11
  <2> HIDE DEF n, T, Folds
  <2> QED BY <1>3, <1>11, <2>1, <2>2
<1>12. h[1..n] \in T
  <2> HIDE DEF n, T, Folds
  <2> QED BY <1>1, <1>10, <1>11, LeftFoldKeeps
<1> QED BY <1>2, <1>12

LEMMA CappedType ==
  ASSUME NEW passages \in Seq(Passage)
  PROVE  Capped(passages) \in Seq(Passage)
<1> DEFINE n == Len(passages)
           T == Seq(Passage)
           Folds(g) == g = [s \in SUBSET (1..n) |->
             IF s = {} THEN << >> ELSE KeepFitting(g[s \ {Max(s)}], passages[Max(s)])]
           h == CHOOSE g : Folds(g)
           step == [p \in (1..n) \X T |-> KeepFitting(p[2], passages[p[1]])]
<1>1. n \in Nat /\ DOMAIN passages = 1..n /\ \A i \in 1..n : passages[i] \in Passage
  OBVIOUS
<1>2. Capped(passages) = h[1..n]
  BY <1>1 DEF Capped, FoldLeft, MapThenFoldSet
<1>3. ASSUME NEW kept \in T, NEW p \in Passage  PROVE KeepFitting(kept, p) \in T
  BY DEF KeepFitting
<1>4. step \in [(1..n) \X T -> T]
  BY <1>1, <1>3
<1>5. << >> \in T
  OBVIOUS
<1>6. PICK g \in [SUBSET (1..n) -> T] : LeftFoldOf(g, n, << >>, step)
  <2> HIDE DEF n, T, step
  <2> QED BY <1>1, <1>4, <1>5, LeftFoldDefined
<1>7. \A s \in SUBSET (1..n) : s # {} => Max(s) \in s
  <2> TAKE s \in SUBSET (1..n)
  <2> HAVE s # {}
  <2>1. s \in SUBSET Nat
    BY <1>1
  <2> QED BY <1>1, <2>1, Greatest
<1>8. Folds(g)
  <2>1. ASSUME NEW s \in SUBSET (1..n), s # {}
        PROVE  g[s] = KeepFitting(g[s \ {Max(s)}], passages[Max(s)])
    <3>1. Max(s) \in 1..n /\ s \ {Max(s)} \in SUBSET (1..n)
      BY <2>1, <1>7
    <3>2. g[s \ {Max(s)}] \in T
      BY <3>1
    <3>3. g[s] = step[<<Max(s), g[s \ {Max(s)}]>>]
      BY <1>6, <2>1 DEF LeftFoldOf
    <3> HIDE DEF n, T
    <3> QED BY <3>1, <3>2, <3>3
  <2>2. g[{}] = << >>
    BY <1>6 DEF LeftFoldOf
  <2> HIDE DEF n, T, step
  <2> QED BY <2>1, <2>2
<1>9. Folds(h)
  <2> HIDE DEF Folds
  <2> QED BY <1>8
<1> HIDE DEF h
<1>10. h[{}] \in T
  BY <1>5, <1>9
<1>11. ASSUME NEW s \in SUBSET (1..n), s # {} /\ h[s \ {Max(s)}] \in T
       PROVE  h[s] \in T
  <2>1. h[s] = KeepFitting(h[s \ {Max(s)}], passages[Max(s)])
    BY <1>9, <1>11
  <2>2. passages[Max(s)] \in Passage
    BY <1>1, <1>7, <1>11
  <2> HIDE DEF n, T, Folds
  <2> QED BY <1>3, <1>11, <2>1, <2>2
<1>12. h[1..n] \in T
  <2> HIDE DEF n, T, Folds
  <2> QED BY <1>1, <1>10, <1>11, LeftFoldKeeps
<1> QED BY <1>2, <1>12

LEMMA SetOfSequence ==
  ASSUME NEW T, NEW s \in Seq(T)
  PROVE  IsFiniteSet(ToSet(s)) /\ ToSet(s) \subseteq T
<1>1. ToSet(s) = {s[i] : i \in 1..Len(s)} /\ Len(s) \in Nat /\ \A i \in 1..Len(s) : s[i] \in T
  BY DEF ToSet
<1>2. IsFiniteSet(1..Len(s))
  <2>1. 1 \in Int /\ Len(s) \in Int
    BY <1>1
  <2> QED BY <2>1, FS_Interval
<1> DEFINE f == [i \in 1..Len(s) |-> s[i]]
<1>3. f \in Surjection(1..Len(s), ToSet(s))
  BY <1>1 DEF Surjection
<1>4. IsFiniteSet(ToSet(s))
  <2> HIDE DEF f
  <2> QED BY <1>2, <1>3, FS_Surjection
<1> QED BY <1>1, <1>4

(* The reader's chunks begin on the page.                                  *)
LEMMA ChunksType ==
  ASSUME NEW n \in Nat
  PROVE  /\ Len(Chunks(n)) \in Nat /\ DOMAIN Chunks(n) = 1..Len(Chunks(n))
         /\ \A i \in DOMAIN Chunks(n) : Chunks(n)[i].start \in Nat
<1> DEFINE step == ChunkChars - ChunkOverlap
           pieces == IF n <= ChunkChars THEN 1 ELSE 1 + (n - ChunkChars + step - 1) \div step
           chunk(i) == [start |-> (i - 1) * step, len |-> Min({ChunkChars, n - (i - 1) * step})]
<1>1. Chunks(n) = [i \in 1..pieces |-> chunk(i)]
  BY DEF Chunks
<1>2. step \in Nat \ {0} /\ ChunkChars \in Nat
  BY ReadingConstants
<1>3. pieces \in Nat
  <2>1. ASSUME ~ (n <= ChunkChars)
        PROVE  (n - ChunkChars + step - 1) \div step \in Nat
    <3>1. n - ChunkChars + step - 1 \in Nat
      BY <1>2, <2>1
    <3> HIDE DEF step
    <3> QED BY <1>2, <3>1
  <2> QED BY <2>1
<1>4. \A i \in 1..pieces : chunk(i).start \in Nat
  <2> HIDE DEF step, pieces
  <2> TAKE i \in 1..pieces
  <2>1. i - 1 \in Nat
    BY <1>3
  <2>2. (i - 1) * step \in Nat
    <3> DEFINE k == i - 1
    <3> HIDE DEF k
    <3>1. k * step \in Nat
      BY <1>2, <2>1 DEF k
    <3> QED BY <3>1 DEF k
  <2> QED BY <2>2
<1> HIDE DEF pieces, chunk
<1>5. Len(Chunks(n)) = pieces
  <2> DEFINE S == {chunk(i) : i \in 1..pieces}
  <2>1. Chunks(n) \in Seq(S)
    BY <1>1, <1>3
  <2> QED BY <1>1, <1>3, <2>1
<1> QED BY <1>1, <1>3, <1>4, <1>5

LEMMA FoundType ==
  ASSUME NEW chunk, chunk.start \in Nat, NEW proposals \in Proposals
  PROVE  Found(chunk, proposals) \in Seq(Passage)
<1> DEFINE of(p) == IF Verified(chunk, p) THEN <<[start |-> chunk.start + p.at, len |-> p.len]>>
                    ELSE <<>>
           R == [at : Nat, len : Nat, located : BOOLEAN]
           D == DOMAIN proposals
<1>1. proposals \in Seq(R)
  BY ReadingConstants
<1>2. D = 1..Len(proposals) /\ Len(proposals) \in Nat /\ \A i \in D : proposals[i] \in R
  <2> HIDE DEF R
  <2> QED BY <1>1
<1>3. ASSUME NEW p \in R
      PROVE  of(p) \in Seq(Passage)
  <2>1. CASE Verified(chunk, p)
    <3>1. p.len # 0 /\ p.len \in Nat /\ chunk.start + p.at \in Nat
      <4>1. p.len \in PassageMin..PassageMax
        BY <2>1 DEF Verified
      <4>2. PassageMin \in Nat \ {0} /\ PassageMax \in Nat
        BY ReadingConstants
      <4>3. p.at \in Nat /\ p.len \in Nat
        OBVIOUS
      <4> QED BY <4>1, <4>2, <4>3
    <3>2. [start |-> chunk.start + p.at, len |-> p.len] \in Passage
      BY <3>1 DEF Passage
    <3> QED BY <2>1, <3>2
  <2>2. CASE ~ Verified(chunk, p)
    BY <2>2
  <2> QED BY <2>1, <2>2
<1> HIDE DEF of, R
<1>4. [i \in D |-> of(proposals[i])] \in Seq(Seq(Passage))
  BY <1>2, <1>3
<1>5. Found(chunk, proposals) = FlattenSeq([i \in D |-> of(proposals[i])])
  BY DEF Found, of
<1> QED BY <1>4, <1>5, FlattenType

LEMMA CardType ==
  ASSUME NEW n \in Nat, NEW answers \in [1..Len(Chunks(n)) -> Proposals]
  PROVE  Showable(CardOf(n, answers))
<1> DEFINE parts == [i \in DOMAIN answers |-> Found(Chunks(n)[i], answers[i])]
           found == FlattenSeq(parts)
<1>1. parts \in Seq(Seq(Passage))
  <2>1. Len(Chunks(n)) \in Nat /\ DOMAIN answers = 1..Len(Chunks(n))
    BY ChunksType
  <2>2. ASSUME NEW i \in DOMAIN answers
        PROVE  Found(Chunks(n)[i], answers[i]) \in Seq(Passage)
    <3>1. Chunks(n)[i].start \in Nat /\ answers[i] \in Proposals
      BY <2>1, ChunksType
    <3> QED BY <3>1, FoundType
  <2> QED BY <2>1, <2>2
<1> HIDE DEF parts
<1>2. Capped(Merged(found)) \in Seq(Passage)
  BY <1>1, FlattenType, MergedType, CappedType
<1>3. CardOf(n, answers) = ToSet(Capped(Merged(found)))
  BY DEF CardOf, parts
<1> HIDE DEF found
<1> QED BY <1>2, <1>3, SetOfSequence DEF Showable

-----------------------------------------------------------------------------
(* The evidence reader: whatever it is left as, its cards can be shown.    *)
ReaderInv(r) ==
  /\ DOMAIN r = {"calls", "failures", "disabled", "cards"}
  /\ \A k \in DOMAIN r.cards : Showable(r.cards[k])

LEMMA NoCardShows == Showable(NoCard)
  BY FS_EmptySet DEF NoCard, Showable

LEMMA PassesType ==
  ASSUME ReaderInv(reader), NEW w, NEW u, NEW page, page.size \in Nat,
         NEW p \in ReaderPasses(w, u, page)
  PROVE  Showable(p.card) /\ ReaderInv(p.leaves)
<1> DEFINE pieces == Len(Chunks(page.size))
           charged == [reader EXCEPT !.calls = @ + pieces]
           disabled == IF reader.failures[w] + 1 >= MaxReaderFailures
                       THEN charged.disabled \cup {w} ELSE charged.disabled
           failed == [charged EXCEPT !.failures[w] = @ + 1,
                     !.disabled = IF reader.failures[w] + 1 >= MaxReaderFailures
                                  THEN @ \cup {w} ELSE @]
           made(card) == [charged EXCEPT !.failures[w] = 0, !.cards = CardsWith(w, u, card)]
<1>1. ReaderInv(failed)
  BY DEF ReaderInv
<1>2. ASSUME NEW card, Showable(card)  PROVE ReaderInv(made(card))
  <2> DEFINE cards == CardsWith(w, u, card)
  <2>1. \A k \in DOMAIN cards : Showable(cards[k])
    <3> DEFINE table == IF Cardinality(DOMAIN reader.cards) >= CardsKept THEN <<>> ELSE reader.cards
    <3>1. \A k \in DOMAIN table : Showable(table[k])
      BY DEF ReaderInv
    <3>2. cards = With(table, <<w, u>>, card)
      BY DEF CardsWith
    <3> HIDE DEF table, cards
    <3> QED BY <1>2, <3>1, <3>2 DEF With
  <2> HIDE DEF cards
  <2> DEFINE left == made(card)
  <2>2. DOMAIN left = DOMAIN reader /\ left.cards = cards
    BY DEF ReaderInv, cards
  <2>3. DOMAIN reader = {"calls", "failures", "disabled", "cards"}
    BY DEF ReaderInv
  <2> HIDE DEF left
  <2>4. ReaderInv(left)
    BY <2>1, <2>2, <2>3 DEF ReaderInv
  <2>5. left = made(card)
    BY DEF left
  <2> HIDE DEF made
  <2> QED BY <2>4, <2>5
<1> DEFINE known == <<w, u>> \in DOMAIN reader.cards
           spent == w \in reader.disabled \/ reader.calls + pieces > MaxReaderCalls
           old == {[card |-> reader.cards[<<w, u>>], leaves |-> reader]}
           none == {[card |-> NoCard, leaves |-> reader]}
           new == {[card |-> NoCard, leaves |-> failed]}
                    \cup {[card |-> c, leaves |-> made(c)] :
                            c \in {CardOf(page.size, a) : a \in [1..pieces -> Proposals]}}
<1>3. ReaderPasses(w, u, page) =
        CASE known -> old [] ~ known /\ spent -> none [] OTHER -> new
  BY Zenon DEF ReaderPasses
<1>4. (known /\ p \in old) \/ p \in none \/ p \in new
  <2> HIDE DEF known, spent, old, none, new
  <2> QED BY <1>3
<1>5. CASE known /\ p \in old
  BY <1>5 DEF ReaderInv
<1>6. CASE p \in none
  BY <1>6, NoCardShows
<1>7. CASE p \in new
  <2>1. \/ p = [card |-> NoCard, leaves |-> failed]
        \/ \E a \in [1..pieces -> Proposals] :
             p = [card |-> CardOf(page.size, a), leaves |-> made(CardOf(page.size, a))]
    BY <1>7
  <2> HIDE DEF failed, made
  <2>2. ASSUME NEW a \in [1..pieces -> Proposals]  PROVE Showable(CardOf(page.size, a))
    BY CardType
  <2> QED BY <1>1, <1>2, <2>1, <2>2, NoCardShows
<1> QED BY <1>4, <1>5, <1>6, <1>7

-----------------------------------------------------------------------------
(* What a read comes to.                                                   *)
FullPage(page) == page \in FetchedSource /\ (Readable(page) => page.size > 0)

SessionInv ==
  \/ session = NoSession
  \/ /\ DOMAIN session = {"at", "writer", "tools", "offered", "cited", "read"}
     /\ session.at = "open"
     /\ ReadInFull(session.read) \subseteq shown
UsedInv == DOMAIN used = {"queries", "calls", "chars"} /\ used.chars \in 0..ReadChars

LEMMA GrantType ==
  ASSUME UsedInv, NEW wanted \in Nat
  PROVE  /\ Grant(wanted) \in 0..(ReadChars - used.chars)
<1>1. ReadChars \in Nat /\ used.chars \in Nat /\ used.chars <= ReadChars
  BY ReadingConstants DEF UsedInv
<1> DEFINE left == ReadChars - used.chars
<1>2. left \in Nat
  BY <1>1
<1>3. Grant(wanted) = IF wanted <= left THEN wanted ELSE left
  <2>1. Min({wanted, left}) = IF wanted <= left THEN wanted ELSE left
    <3> HIDE DEF left
    <3> QED BY <1>2, LeastOfTwo
  <2> QED BY <2>1 DEF Grant
<1> QED BY <1>2, <1>3

LEMMA ReadShows ==
  ASSUME UsedInv, NEW page, FullPage(page), NEW card, Showable(card),
         NEW r, r = IF card = NoCard THEN Clipped(page) ELSE CardRead(card)
  PROVE  /\ r.cost \in 0..(ReadChars - used.chars)
         /\ r.outcome = "full_text" => r.seen > 0
<1>1. 0 \in 0..(ReadChars - used.chars)
  BY ReadingConstants DEF UsedInv
<1>2. CASE card = NoCard
  <2> DEFINE wanted == Min({page.size, ReadMax})
             grant == Grant(wanted)
  <2>1. page.size \in Nat /\ ReadMax \in Nat /\ (Readable(page) => page.size > 0)
    BY ReadingConstants DEF FullPage, FetchedSource
  <2>2. wanted \in Nat
    BY <2>1, LeastOfTwo
  <2>3. grant \in 0..(ReadChars - used.chars) /\ grant \in Nat
    BY <2>2, GrantType
  <2>4. r = CASE ~ Readable(page) -> Result(page.outcome, 0, 0)
              [] Readable(page) /\ grant = 0 /\ page.size > 0 -> Result("budget_exhausted", 0, 0)
              [] OTHER -> Result("full_text", grant, grant)
    BY <1>2 DEF Clipped
  <2> HIDE DEF grant
  <2>5. CASE ~ Readable(page)
    <3>1. r = Result(page.outcome, 0, 0) /\ page.outcome # "full_text"
      BY <2>4, <2>5 DEF Readable
    <3> QED BY <1>1, <3>1 DEF Result
  <2>6. CASE Readable(page) /\ grant = 0
    <3>1. r = Result("budget_exhausted", 0, 0)
      BY <2>1, <2>4, <2>6
    <3> QED BY <1>1, <3>1 DEF Result
  <2>7. CASE Readable(page) /\ grant # 0
    <3>1. r = Result("full_text", grant, grant)
      BY <2>4, <2>7
    <3> QED BY <2>3, <2>7, <3>1 DEF Result
  <2> QED BY <2>5, <2>6, <2>7
<1>3. CASE card # NoCard
  <2> DEFINE grant == Grant(CharsOf(card))
             passages == Within(card, grant)
  <2>1. grant \in 0..(ReadChars - used.chars)
    BY CharsType, GrantType
  <2>2. Showable(passages)
    BY WithinShows
  <2>3. r = Result(IF passages = {} THEN "budget_exhausted" ELSE "full_text", grant,
                   CharsOf(passages))
    BY <1>3 DEF CardRead
  <2> HIDE DEF grant, passages
  <2>4. CharsOf(passages) \in Nat /\ (CharsOf(passages) = 0 => passages = {})
    BY <2>2, CharsType
  <2> QED BY <2>1, <2>3, <2>4 DEF Result
<1> QED BY <1>2, <1>3

LEMMA LogShows ==
  ASSUME SessionInv, session.at = "open", NEW u, NEW r,
         r.outcome = "full_text" => r.seen > 0, Log(u, r)
  PROVE  SessionInv' /\ shown \subseteq shown'
<1>1. session # NoSession
  BY DEF Tooled, NoSession
<1>2. /\ DOMAIN session' = DOMAIN session /\ session'.at = session.at
      /\ session'.read = With(session.read, u, r.outcome)
  BY <1>1 DEF SessionInv, Log
<1>3. shown \subseteq shown' /\ (r.outcome = "full_text" => u \in shown')
  BY DEF Log
<1>4. ReadInFull(session'.read) \subseteq shown'
  <2> DEFINE told == With(session.read, u, r.outcome)
  <2>1. \A v \in DOMAIN told : told[v] = "full_text" =>
          (v = u /\ r.outcome = "full_text") \/ (v \in DOMAIN session.read /\ session.read[v] = "full_text")
    BY DEF With
  <2>2. ReadInFull(session.read) \subseteq shown
    BY <1>1 DEF SessionInv
  <2> HIDE DEF told
  <2> QED BY <1>2, <1>3, <2>1, <2>2 DEF ReadInFull, told
<1> QED BY <1>1, <1>2, <1>3, <1>4 DEF SessionInv

LEMMA ReadKeeps ==
  ASSUME SessionInv, UsedInv, ReaderInv(reader), NEW u, NEW page, FullPage(page), Read(u, page)
  PROVE  SessionInv' /\ UsedInv' /\ ReaderInv(reader') /\ shown \subseteq shown'
<1>1. session.at = "open"
  BY DEF Read, Tooled
<1>2. CASE ReadsSpent
  <2> DEFINE r == Result("budget_exhausted", 0, 0)
  <2>1. Log(u, r) /\ UNCHANGED <<used, reader>> /\ r.outcome # "full_text"
    BY <1>2 DEF Read, Result
  <2> HIDE DEF r
  <2>2. SessionInv' /\ shown \subseteq shown'
    BY <1>1, <2>1, LogShows
  <2> QED BY <2>1, <2>2 DEF UsedInv
<1>3. CASE ~ ReadsSpent
  <2>1. PICK p \in IF Cards /\ Readable(page) /\ page.size > 0
                     THEN ReaderPasses(session.writer, u, page)
                     ELSE {[card |-> NoCard, leaves |-> reader]} :
          LET r == IF p.card = NoCard THEN Clipped(page) ELSE CardRead(p.card)
          IN /\ reader' = p.leaves
             /\ used' = [used EXCEPT !.calls = @ + 1, !.chars = @ + r.cost]
             /\ Log(u, r)
    BY <1>3 DEF Read
  <2> DEFINE r == IF p.card = NoCard THEN Clipped(page) ELSE CardRead(p.card)
  <2>2. Showable(p.card) /\ ReaderInv(p.leaves)
    <3>1. page.size \in Nat
      BY DEF FullPage, FetchedSource
    <3>2. CASE p \in ReaderPasses(session.writer, u, page)
      BY <3>1, <3>2, PassesType
    <3>3. CASE p = [card |-> NoCard, leaves |-> reader]
      BY <3>3, NoCardShows
    <3> QED BY <2>1, <3>2, <3>3
  <2>3. /\ reader' = p.leaves /\ Log(u, r)
        /\ used' = [used EXCEPT !.calls = @ + 1, !.chars = @ + r.cost]
    BY <2>1
  <2>4. r.cost \in 0..(ReadChars - used.chars) /\ (r.outcome = "full_text" => r.seen > 0)
    <3> DEFINE s == r
    <3>1. s = IF p.card = NoCard THEN Clipped(page) ELSE CardRead(p.card)
      OBVIOUS
    <3> HIDE DEF s
    <3>2. s.cost \in 0..(ReadChars - used.chars) /\ (s.outcome = "full_text" => s.seen > 0)
      BY <2>2, <3>1, ReadShows
    <3> QED BY <3>2 DEF s
  <2> HIDE DEF r
  <2>5. SessionInv' /\ shown \subseteq shown'
    BY <1>1, <2>3, <2>4, LogShows
  <2>6. UsedInv'
    <3>1. DOMAIN used' = DOMAIN used /\ used'.chars = used.chars + r.cost
      BY <2>3 DEF UsedInv
    <3>2. used.chars + r.cost \in 0..ReadChars
      <4>1. ReadChars \in Nat /\ used.chars \in 0..ReadChars
        BY ReadingConstants DEF UsedInv
      <4> DEFINE spent == used.chars
                 cost == r.cost
      <4>2. spent \in 0..ReadChars /\ cost \in 0..(ReadChars - spent)
        BY <2>4, <4>1
      <4> HIDE DEF spent, cost
      <4>3. spent + cost \in 0..ReadChars
        BY <4>1, <4>2
      <4> QED BY <4>3 DEF spent, cost
    <3> QED BY <3>1, <3>2 DEF UsedInv
  <2> QED BY <2>2, <2>3, <2>5, <2>6
<1> QED BY <1>2, <1>3

-----------------------------------------------------------------------------
(* Whatever a run reads in full, some writer was shown, and what its log   *)
(* says so of stays there.                                                 *)
HeldInv ==
  /\ DOMAIN attempt = {"n", "held"}
  /\ attempt.held # <<>> => ReadInFull(attempt.held[1].read) \subseteq shown

ReadInv ==
  /\ pages \in PageChoices
  /\ SessionInv /\ UsedInv /\ ReaderInv(reader) /\ HeldInv
  /\ ReadMeansShown

LEMMA MergeReads ==
  ASSUME NEW known, NEW read
  PROVE  /\ ReadInFull(known) \subseteq ReadInFull(MergeReadLog(known, read))
         /\ ReadInFull(MergeReadLog(known, read)) \subseteq ReadInFull(known) \cup ReadInFull(read)
BY DEF ReadInFull, MergeReadLog

LEMMA ReadInit ==
  ASSUME Init
  PROVE  ReadInv
<1>1. SessionInv /\ HeldInv /\ ReadMeansShown
  BY DEF Init, ReadingInit, SessionInv, HeldInv, NoAttempt, ReadMeansShown, ReadInFull
<1>2. UsedInv
  BY ReadingConstants DEF Init, ReadingInit, UsedInv
<1>3. ReaderInv(reader)
  BY DEF Init, ReadingInit, ReaderInv
<1> QED BY <1>1, <1>2, <1>3 DEF Init, ReadInv

LEMMA SessionOpens ==
  ASSUME NEW w, NEW cited, OpenSession(w, cited)
  PROVE  SessionInv'
BY DEF OpenSession, SessionInv, ReadInFull

LEMMA Shipped ==
  ASSUME ReadMeansShown, shown' = shown, NEW r, NEW read, ReadInFull(read) \subseteq shown,
         Ship(r, read)
  PROVE  ReadMeansShown' /\ HeldInv'
<1>1. log' = MergeReadLog(log, read) /\ attempt' = NoAttempt
  BY DEF Ship
<1>2. ReadMeansShown'
  <2>1. ReadInFull(log') \subseteq ReadInFull(log) \cup ReadInFull(read)
    BY <1>1, MergeReads
  <2> QED BY <2>1 DEF ReadMeansShown
<1>3. HeldInv'
  BY <1>1 DEF HeldInv, NoAttempt
<1> QED BY <1>2, <1>3

LEMMA ReadStep ==
  ASSUME ReadInv, Next
  PROVE  ReadInv'
<1> USE DEF ReadInv
<1>1. CASE Write
  <2>1. SessionInv' /\ UNCHANGED <<used, reader, shown, log, pages, attempt>>
    BY <1>1, SessionOpens DEF Write, OpenSession, record
  <2> QED BY <2>1 DEF UsedInv, HeldInv, ReadMeansShown
<1>2. CASE Research
  <2>1. UNCHANGED <<log, pages, attempt>>
    BY <1>2 DEF Research, record
  <2>2. ASSUME NEW results, Search(results)
        PROVE  SessionInv' /\ UsedInv' /\ ReaderInv(reader') /\ shown \subseteq shown'
    <3>1. session.at = "open" /\ session # NoSession
      BY <2>2 DEF Search, Tooled, NoSession
    <3>2. SessionInv'
      BY <2>2, <3>1 DEF Search, SessionInv
    <3>3. UsedInv'
      BY <2>2 DEF Search, UsedInv
    <3> QED BY <2>2, <3>2, <3>3 DEF Search
  <2>3. ASSUME Withdraw
        PROVE  SessionInv' /\ UsedInv' /\ ReaderInv(reader') /\ shown \subseteq shown'
    <3>1. session.at = "open" /\ session # NoSession
      BY <2>3 DEF Withdraw, Tooled, NoSession
    <3>2. SessionInv'
      BY <2>3, <3>1 DEF Withdraw, SessionInv
    <3> QED BY <2>3, <3>2 DEF Withdraw, UsedInv
  <2>4. ASSUME NEW u \in Urls, Read(u, pages[u])
        PROVE  SessionInv' /\ UsedInv' /\ ReaderInv(reader') /\ shown \subseteq shown'
    <3>1. FullPage(pages[u])
      BY RoundConstants DEF FullPage
    <3> QED BY <2>4, <3>1, ReadKeeps
  <2>5. SessionInv' /\ UsedInv' /\ ReaderInv(reader') /\ shown \subseteq shown'
    BY <1>2, <2>2, <2>3, <2>4 DEF Research
  <2>6. HeldInv' /\ ReadMeansShown'
    BY <2>1, <2>5 DEF HeldInv, ReadMeansShown
  <2> QED BY <2>1, <2>5, <2>6
<1>3. CASE HandIn
  <2>1. session' = NoSession /\ UNCHANGED <<used, reader, shown, pages>>
    BY <1>3 DEF HandIn, EndSession
  <2>2. ReadInFull(session.read) \subseteq shown
    BY <1>3 DEF HandIn, SessionInv, NoSession
  <2>3. PICK r \in Reports :
          IF SetAside(r)
          THEN /\ attempt' = [n |-> attempt.n + 1, held |-> <<[report |-> r, read |-> session.read]>>]
               /\ UNCHANGED <<record, stage, fresh>>
          ELSE Ship(r, session.read)
    BY <1>3 DEF HandIn
  <2>4. ReadMeansShown' /\ HeldInv'
    <3>1. CASE SetAside(r)
      BY <2>1, <2>2, <2>3, <3>1 DEF HeldInv, ReadMeansShown, record
    <3>2. CASE ~ SetAside(r)
      BY <2>1, <2>2, <2>3, <3>2, Shipped
    <3> QED BY <3>1, <3>2
  <2> QED BY <2>1, <2>4 DEF SessionInv, UsedInv
<1>4. CASE CallFails
  <2>1. /\ session' = NoSession /\ UNCHANGED <<used, reader, shown, log, pages>>
        /\ attempt' = [attempt EXCEPT !.n = @ + 1]
    BY <1>4 DEF CallFails, EndSession, record
  <2> QED BY <2>1 DEF SessionInv, UsedInv, HeldInv, ReadMeansShown
<1>5. CASE WalkEnds
  <2>1. UNCHANGED <<session, used, reader, shown, pages>>
    BY <1>5 DEF WalkEnds, reading
  <2>2. ReadMeansShown' /\ HeldInv'
    <3>1. CASE attempt.held # <<>>
      <4>1. Ship(attempt.held[1].report, attempt.held[1].read)
        BY <1>5, <3>1 DEF WalkEnds
      <4> QED BY <2>1, <3>1, <4>1, Shipped DEF HeldInv
    <3>2. CASE attempt.held = <<>>
      BY <1>5, <2>1, <3>2 DEF WalkEnds, record, HeldInv, ReadMeansShown
    <3> QED BY <3>1, <3>2
  <2> QED BY <2>1, <2>2 DEF SessionInv, UsedInv
<1>6. CASE Check \/ ReviewEvidence \/ EndPass
  <2>1. UNCHANGED <<session, used, reader, shown, pages, attempt, log>>
    BY <1>6 DEF Check, ReviewEvidence, EndPass, reading, record
  <2> QED BY <2>1 DEF SessionInv, UsedInv, HeldInv, ReadMeansShown
<1>7. CASE Restart
  <2>1. /\ session' = NoSession /\ shown' = shown /\ log' = log /\ attempt' = NoAttempt
        /\ used' = [c \in DOMAIN used |-> 0] /\ pages' \in PageChoices
        /\ reader' = [calls |-> 0, failures |-> [w \in Writers |-> 0], disabled |-> {}, cards |-> <<>>]
    BY <1>7 DEF Restart
  <2>2. UsedInv'
    BY <2>1, ReadingConstants DEF UsedInv
  <2>3. ReaderInv(reader')
    BY <2>1 DEF ReaderInv
  <2> QED BY <2>1, <2>2, <2>3 DEF SessionInv, HeldInv, NoAttempt, ReadMeansShown
<1> QED BY <1>1, <1>2, <1>3, <1>4, <1>5, <1>6, <1>7 DEF Next

LEMMA ReadStutter ==
  ASSUME ReadInv, UNCHANGED vars
  PROVE  ReadInv'
BY DEF ReadInv, vars, reading, record, SessionInv, UsedInv, HeldInv, ReadMeansShown

THEOREM ReadInvariant == Spec => []ReadInv
<1>1. Init => ReadInv
  BY ReadInit
<1>2. ReadInv /\ [Next]_vars => ReadInv'
  BY ReadStep, ReadStutter
<1> QED BY <1>1, <1>2, PTL DEF Spec

(* "Read in full" is what lets a citation stand, and no writer of any run  *)
(* gets it for a page it was shown nothing of: not for a card that no      *)
(* budget could show a passage of, nor for a refused read, in this process *)
(* or the one before (reading.py, SourceReader).                           *)
THEOREM ReadMeansShownHolds == Spec => []ReadMeansShown
<1>1. ReadInv => ReadMeansShown
  BY DEF ReadInv
<1> QED BY <1>1, ReadInvariant, PTL

(* A page once read in full stays so, through later failures, refusals and *)
(* restarts (graph.py, _merge_read_log).                                   *)
THEOREM ReadingIsKeptHolds == Spec => ReadingIsKept
<1>1. [Next]_vars => [ReadInFull(log) \subseteq ReadInFull(log')]_vars
  <2> SUFFICES ASSUME Next  PROVE ReadInFull(log) \subseteq ReadInFull(log')
    OBVIOUS
  <2>1. ASSUME NEW r, NEW read, Ship(r, read)
        PROVE  ReadInFull(log) \subseteq ReadInFull(log')
    <3>1. log' = MergeReadLog(log, read)
      BY <2>1 DEF Ship
    <3> QED BY <3>1, MergeReads
  <2>2. \/ log' = log \/ \E r, read : Ship(r, read)
    BY DEF Next, Write, Research, HandIn, CallFails, WalkEnds, Check, ReviewEvidence, EndPass,
           Restart, record
  <2> QED BY <2>1, <2>2
<1> QED BY <1>1, PTL DEF Spec, ReadingIsKept

-----------------------------------------------------------------------------
(* What is compared with the drafts before is a draft, and every draft     *)
(* rests on finitely many addresses.                                       *)
DraftInv ==
  /\ stage = "critique" => draft \in Reports
  /\ attempt.held # <<>> => attempt.held[1].report \in Reports
  /\ sets \in Seq(ToSet(sets)) /\ \A s \in ToSet(sets) : IsFiniteSet(s)
  /\ DOMAIN fresh = Lenses

LEMMA AppendAny ==
  ASSUME NEW s, s \in Seq(ToSet(s)), NEW v
  PROVE  /\ Append(s, v) \in Seq(ToSet(Append(s, v)))
         /\ Len(s) \in Nat /\ Len(Append(s, v)) = Len(s) + 1
         /\ Append(s, v)[Len(s) + 1] = v
         /\ \A i \in 1..Len(s) : Append(s, v)[i] = s[i]
         /\ ToSet(Append(s, v)) = ToSet(s) \cup {v}
<1> DEFINE S == ToSet(s) \cup {v}
           t == Append(s, v)
<1>1. s \in Seq(S) /\ Len(s) \in Nat /\ DOMAIN s = 1..Len(s)
  <2> DEFINE R == ToSet(s)
  <2>1. R \subseteq S /\ s \in Seq(R)
    OBVIOUS
  <2> HIDE DEF R, S
  <2> QED BY <2>1
<1>2. /\ t \in Seq(S) /\ Len(t) = Len(s) + 1 /\ DOMAIN t = 1..(Len(s) + 1)
      /\ t[Len(s) + 1] = v /\ \A i \in 1..Len(s) : t[i] = s[i]
  <2> HIDE DEF S
  <2>1. v \in S
    BY DEF S
  <2> QED BY <1>1, <2>1
<1>3. ToSet(t) = S
  <2>1. ToSet(t) = {t[i] : i \in 1..(Len(s) + 1)} /\ ToSet(s) = {s[i] : i \in 1..Len(s)}
    BY <1>1, <1>2 DEF ToSet
  <2> HIDE DEF t
  <2> QED BY <1>1, <1>2, <2>1
<1> HIDE DEF S, t
<1>4. t \in Seq(ToSet(t))
  BY <1>2, <1>3
<1> QED BY <1>1, <1>2, <1>3, <1>4 DEF S, t

LEMMA EntriesFinite ==
  ASSUME NEW r \in Reports
  PROVE  IsFiniteSet(Entries(r)) /\ Entries(r) \subseteq Nat \ {0}
<1>1. r.entries \in Seq(ToSet(r.entries))
  BY RoundConstants
<1> DEFINE S == ToSet(r.entries)
<1> HIDE DEF S
<1>2. DOMAIN r.entries = 1..Len(r.entries) /\ Len(r.entries) \in Nat
  BY <1>1 DEF S
<1>3. IsFiniteSet(1..Len(r.entries))
  <2>1. 1 \in Int /\ Len(r.entries) \in Int
    BY <1>2
  <2> QED BY <2>1, FS_Interval
<1> QED BY <1>2, <1>3 DEF Entries

LEMMA ReadCitedFinite ==
  ASSUME NEW r \in Reports, NEW known, NEW exclude
  PROVE  IsFiniteSet(ReadCited(r, known, exclude, Limit))
<1> DEFINE f == [i \in Entries(r) |-> Url(r, i)]
           S == {Url(r, i) : i \in Entries(r)}
<1>1. IsFiniteSet(S)
  <2>1. f \in Surjection(Entries(r), S)
    BY DEF Surjection
  <2> HIDE DEF f, S
  <2> QED BY <2>1, EntriesFinite, FS_Surjection
<1>2. ReadCited(r, known, exclude, Limit) \subseteq S
  BY DEF ReadCited, CitedEntries
<1> HIDE DEF S
<1> QED BY <1>1, <1>2, FS_Subset

LEMMA DraftInit ==
  ASSUME Init
  PROVE  DraftInv
<1>1. sets = <<>> /\ ToSet(sets) = {}
  BY DEF Init, ToSet
<1> QED BY <1>1 DEF Init, DraftInv, NoAttempt, Pending2

LEMMA DraftShipped ==
  ASSUME DraftInv, NEW r \in Reports, NEW read, Ship(r, read)
  PROVE  DraftInv'
<1> DEFINE new == ReadCited(r, MergeReadLog(log, read), {}, Limit)
<1>1. /\ draft' = r /\ attempt' = NoAttempt /\ fresh' = Pending2
      /\ sets' = Append(sets, new)
  BY DEF Ship
<1>2. IsFiniteSet(new)
  BY ReadCitedFinite
<1> HIDE DEF new
<1>3. sets' \in Seq(ToSet(sets')) /\ ToSet(sets') = ToSet(sets) \cup {new}
  BY <1>1, AppendAny DEF DraftInv
<1>4. \A s \in ToSet(sets') : IsFiniteSet(s)
  BY <1>2, <1>3 DEF DraftInv
<1> QED BY <1>1, <1>3, <1>4 DEF DraftInv, NoAttempt, Pending2

LEMMA DraftStep ==
  ASSUME ReadInv, DraftInv, Next
  PROVE  DraftInv'
<1> USE DEF DraftInv
<1>1. CASE Write \/ Research \/ Check
  BY <1>1 DEF Write, Research, Check, record
<1>2. CASE HandIn
  <2>1. PICK r \in Reports :
          IF SetAside(r)
          THEN /\ attempt' = [n |-> attempt.n + 1, held |-> <<[report |-> r, read |-> session.read]>>]
               /\ UNCHANGED <<record, stage, fresh>>
          ELSE Ship(r, session.read)
    BY <1>2 DEF HandIn
  <2>2. CASE SetAside(r)
    BY <2>1, <2>2 DEF record
  <2>3. CASE ~ SetAside(r)
    BY <2>1, <2>3, DraftShipped
  <2> QED BY <2>2, <2>3
<1>3. CASE CallFails
  BY <1>3 DEF CallFails, record, ReadInv, HeldInv
<1>4. CASE WalkEnds
  <2>1. CASE attempt.held # <<>>
    BY <1>4, <2>1, DraftShipped DEF WalkEnds
  <2>2. CASE attempt.held = <<>>
    BY <1>4, <2>2 DEF WalkEnds, record
  <2> QED BY <2>1, <2>2
<1>5. CASE ReviewEvidence
  <2>1. UNCHANGED <<draft, sets, stage, attempt>> /\ DOMAIN fresh' = DOMAIN fresh
    BY <1>5 DEF ReviewEvidence, record
  <2> QED BY <2>1
<1>6. CASE EndPass
  <2>1. UNCHANGED <<draft, sets, attempt>> /\ fresh' = Pending2 /\ stage = "critique"
    BY <1>6 DEF EndPass
  <2> QED BY <2>1 DEF Pending2
<1>7. CASE Restart
  BY <1>7 DEF Restart, NoAttempt, Pending2
<1> QED BY <1>1, <1>2, <1>3, <1>4, <1>5, <1>6, <1>7 DEF Next

LEMMA DraftStutter ==
  ASSUME DraftInv, UNCHANGED vars
  PROVE  DraftInv'
BY DEF DraftInv, vars, record

THEOREM DraftInvariant == Spec => []DraftInv
<1>1. Init => DraftInv
  BY DraftInit
<1>2. ReadInv /\ DraftInv /\ [Next]_vars => DraftInv'
  BY DraftStep, DraftStutter
<1> QED BY <1>1, <1>2, ReadInvariant, PTL DEF Spec

-----------------------------------------------------------------------------
(* The floor under a draft's sources.  The fraction LossPart / LossWhole   *)
(* of the peak, rounded up, is the first loss that is too large.           *)
LEMMA CeilIsAbove ==
  ASSUME NEW a \in Nat, NEW b \in Nat \ {0}
  PROVE  CeilOf(a, b) \in Nat /\ b * (CeilOf(a, b) - 1) < a /\ a <= b * CeilOf(a, b)
<1> DEFINE c == (a + b - 1) \div b
           m == (a + b - 1) % b
<1>1. a + b - 1 \in Nat
  OBVIOUS
<1>2. c \in Nat /\ m \in 0..(b - 1) /\ a + b - 1 = b * c + m
  BY <1>1
<1> HIDE DEF c, m
<1>3. b * (c - 1) = b * c - b
  BY <1>2
<1>4. b * c \in Int
  BY <1>2
<1>5. b * (c - 1) < a /\ a <= b * c
  BY <1>2, <1>3, <1>4
<1> QED BY <1>2, <1>5 DEF CeilOf, c

LEMMA LossIsSmall ==
  ASSUME NEW peak \in Nat, NEW then \in Nat, then <= peak, NEW now \in Nat,
         now >= SourceLossFloor(peak)
  PROVE  now >= then \/ LossWhole * (then - now) < LossPart * then
<1> DEFINE c == CeilOf(LossPart * peak, LossWhole)
<1>1. LossPart \in Nat /\ LossWhole \in Nat \ {0} /\ LossPart <= LossWhole
  BY CitationConstants
<1>2. LossPart * peak \in Nat
  BY <1>1
<1>3. c \in Nat /\ LossWhole * (c - 1) < LossPart * peak
  BY <1>1, <1>2, CeilIsAbove
<1> HIDE DEF c
<1>4. CASE peak = 0
  BY <1>4
<1>5. CASE peak # 0
  <2>1. SourceLossFloor(peak) = peak - Max({1, c}) + 1
    BY <1>5 DEF SourceLossFloor, c
  <2>2. Max({1, c}) \in {1, c} /\ \A y \in {1, c} : y <= Max({1, c})
    <3>1. {1, c} \in SUBSET Nat /\ IsFiniteSet({1, c})
      <4>1. IsFiniteSet({1} \cup {c}) /\ {1} \cup {c} = {1, c}
        BY FS_Singleton, FS_AddElement
      <4> QED BY <1>3, <4>1
    <3> QED BY <3>1, Largest
  <2>3. now >= peak \/ peak - now <= c - 1
    BY <1>3, <2>1, <2>2
  <2>4. CASE now >= peak
    BY <2>4
  <2>5. CASE peak - now <= c - 1
    <3> DEFINE short == peak - now
               over == peak - then
    <3>1. short \in Int /\ over \in Nat /\ then - now = short - over /\ then = peak - over
      OBVIOUS
    <3>2. LossWhole * short < LossPart * peak
      <4>1. LossWhole * short <= LossWhole * (c - 1)
        BY <1>1, <1>3, <2>5
      <4>2. LossWhole * short \in Int /\ LossWhole * (c - 1) \in Int
        BY <1>1, <1>3
      <4> HIDE DEF short
      <4> QED BY <1>2, <1>3, <4>1, <4>2
    <3>3. LossPart * over <= LossWhole * over
      <4> HIDE DEF over
      <4> QED BY <1>1, <3>1
    <3> HIDE DEF short, over
    <3>4. LossWhole * (then - now) = LossWhole * short - LossWhole * over
      BY <1>1, <3>1
    <3>5. LossPart * then = LossPart * peak - LossPart * over
      BY <1>1, <3>1
    <3>6. LossWhole * short \in Int /\ LossWhole * over \in Int /\ LossPart * over \in Int
      BY <1>1, <3>1
    <3> QED BY <1>2, <3>2, <3>3, <3>4, <3>5, <3>6
  <2> QED BY <2>3, <2>4, <2>5
<1> QED BY <1>4, <1>5

LEMMA PeakIsPeak ==
  ASSUME DraftInv
  PROVE  /\ Peak \in Nat
         /\ \A i \in DOMAIN sets : /\ Cardinality(sets[i] \ refuted) \in Nat
                                    /\ Cardinality(sets[i] \ refuted) <= Peak
<1> DEFINE size(s) == Cardinality(s \ refuted)
           Sizes == {size(s) : s \in ToSet(sets)}
           f == [s \in ToSet(sets) |-> size(s)]
<1>1. \A s \in ToSet(sets) : size(s) \in Nat
  <2> TAKE s \in ToSet(sets)
  <2>1. IsFiniteSet(s \ refuted)
    BY FS_Subset DEF DraftInv
  <2> QED BY <2>1, FS_CardinalityType
<1>2. IsFiniteSet(ToSet(sets))
  <2> DEFINE S == ToSet(sets)
  <2>1. sets \in Seq(S)
    BY DEF DraftInv
  <2> HIDE DEF S
  <2>2. IsFiniteSet(ToSet(sets))
    BY <2>1, SetOfSequence
  <2> QED BY <2>2
<1> HIDE DEF size
<1>3. f \in Surjection(ToSet(sets), Sizes)
  BY DEF Surjection
<1> HIDE DEF f
<1>4. IsFiniteSet(Sizes)
  <2> HIDE DEF Sizes
  <2> QED BY <1>2, <1>3, FS_Surjection
<1>5. {0} \cup Sizes \in SUBSET Nat /\ IsFiniteSet({0} \cup Sizes) /\ 0 \in {0} \cup Sizes
  <2>1. Sizes \subseteq Nat
    BY <1>1
  <2> HIDE DEF Sizes
  <2>2. IsFiniteSet(Sizes \cup {0})
    BY <1>4, FS_AddElement
  <2>3. Sizes \cup {0} = {0} \cup Sizes
    OBVIOUS
  <2> QED BY <2>1, <2>2, <2>3
<1>6. Peak = Max({0} \cup Sizes)
  BY DEF Peak, PeakOf, size
<1>7. Peak \in {0} \cup Sizes /\ \A y \in {0} \cup Sizes : y <= Peak
  <2> HIDE DEF Sizes
  <2> QED BY <1>5, <1>6, Largest
<1>8. \A i \in DOMAIN sets : sets[i] \in ToSet(sets)
  BY DEF ToSet
<1>9. \A i \in DOMAIN sets : size(sets[i]) \in Nat /\ size(sets[i]) <= Peak
  BY <1>1, <1>7, <1>8
<1> QED BY <1>5, <1>7, <1>9 DEF size


KeptEvidence ==
  lenses["completeness"] = "pending" /\ lenses'["completeness"] = "clean" /\ ~ ReadsSpent =>
    \A i \in DOMAIN sets :
      LET then == Cardinality(sets[i] \ refuted)
          now == Cardinality(ReadCited(draft, log, refuted, Limit))
      IN now >= then \/ LossWhole * (then - now) < LossPart * then

(* A completeness critic that comes to nothing grave leaves a draft that   *)
(* rests on as many sources as the floor asks for.                         *)
LEMMA CleanIsAboveFloor ==
  ASSUME draft.body # <<>>, ~ ReadsSpent,
         Standing(SourceLoss \cup MechanicalHistory(draft)) = "clean",
         Cardinality(ReadCited(draft, log, refuted, Limit)) \in Nat, SourceLossFloor(Peak) \in Int
  PROVE  Cardinality(ReadCited(draft, log, refuted, Limit)) >= SourceLossFloor(Peak)
<1> DEFINE loss == Finding("incomplete_answer", "blocking", 1, {})
<1>1. Grave(SourceLoss \cup MechanicalHistory(draft)) = {}
  BY DEF Standing
<1>2. loss \notin SourceLoss
  BY <1>1 DEF Grave, Finding
<1>3. SourceLoss = MechanicalSourceLoss(draft, log, Peak, refuted, Limit)
  BY DEF SourceLoss
<1>4. ~ (Cardinality(ReadCited(draft, log, refuted, Limit)) < SourceLossFloor(Peak))
  <2> HIDE DEF loss
  <2>1. Cardinality(ReadCited(draft, log, refuted, Limit)) < SourceLossFloor(Peak)
          => SourceLoss = {loss}
    BY <1>3 DEF MechanicalSourceLoss, loss
  <2> QED BY <1>2, <2>1
<1> QED BY <1>4

LEMMA FloorType == ASSUME NEW peak \in Nat  PROVE SourceLossFloor(peak) \in Int
<1> DEFINE c == CeilOf(LossPart * peak, LossWhole)
<1>1. LossPart * peak \in Nat /\ LossWhole \in Nat \ {0}
  BY CitationConstants
<1>2. c \in Nat
  BY <1>1, CeilIsAbove
<1> HIDE DEF c
<1>3. Max({1, c}) \in Int
  <2>1. IsFiniteSet({1} \cup {c}) /\ {1} \cup {c} = {1, c}
    BY FS_Singleton, FS_AddElement
  <2>2. {1, c} \in SUBSET Nat
    BY <1>2
  <2>3. Max({1, c}) \in {1, c}
    BY <2>1, <2>2, Largest
  <2> QED BY <2>2, <2>3
<1> QED BY <1>3 DEF SourceLossFloor, c

(* The run may stop citing evidence, but not its way to acceptance: a      *)
(* draft that the completeness critic passed while there was a read to     *)
(* spend has lost, against every earlier draft, no source at all or less   *)
(* than the fraction of it.  A report with no sentence has none to anchor  *)
(* the finding to (graph.py, _source_loss_issues_apply; triage.py,         *)
(* source_loss_floor).                                                     *)
THEOREM KeepsItsEvidenceHolds ==
  ASSUME \A r \in Reports : r.body # <<>>
  PROVE  Spec => KeepsItsEvidence
<1>1. DraftInv /\ [Next]_vars => [KeptEvidence]_vars
  <2> SUFFICES ASSUME DraftInv, Next, lenses["completeness"] = "pending",
                      lenses'["completeness"] = "clean", ~ ReadsSpent,
                      NEW i \in DOMAIN sets
               PROVE  LET then == Cardinality(sets[i] \ refuted)
                          now == Cardinality(ReadCited(draft, log, refuted, Limit))
                      IN now >= then \/ LossWhole * (then - now) < LossPart * then
    BY DEF KeptEvidence
  <2>1. ASSUME NEW r, NEW read, Ship(r, read)  PROVE FALSE
    BY <2>1 DEF Ship, Pending2, Lenses
  <2>2. EndPass
    BY <2>1 DEF Next, Write, Research, HandIn, CallFails, WalkEnds, Check, ReviewEvidence,
                Restart, record
  <2>3. PICK completeness \in Completeness :
          LET result == [fresh EXCEPT !["completeness"] = completeness]
          IN lenses' = [l \in Lenses |-> CASE result[l] = "failed" -> "pending"
                                           [] result[l] = "pending" -> lenses[l]
                                           [] OTHER -> result[l]]
    BY <2>2 DEF EndPass
  <2>4. DOMAIN fresh = Lenses
    BY DEF DraftInv
  <2>5. completeness = "clean"
    <3> DEFINE result == [fresh EXCEPT !["completeness"] = completeness]
    <3>1. result["completeness"] = completeness
      BY <2>4 DEF Lenses
    <3> HIDE DEF result
    <3>2. lenses'["completeness"] = CASE result["completeness"] = "failed" -> "pending"
                                      [] result["completeness"] = "pending" -> lenses["completeness"]
                                      [] OTHER -> result["completeness"]
      BY <2>3 DEF Lenses, result
    <3> QED BY <3>1, <3>2
  <2>6. Standing(SourceLoss \cup MechanicalHistory(draft)) = "clean"
    BY <2>3, <2>5 DEF Completeness
  <2>7. draft \in Reports
    BY <2>2 DEF EndPass, DraftInv
  <2> DEFINE now == Cardinality(ReadCited(draft, log, refuted, Limit))
             then == Cardinality(sets[i] \ refuted)
  <2>8. now \in Nat
    BY <2>7, ReadCitedFinite, FS_CardinalityType
  <2>9. Peak \in Nat /\ then \in Nat /\ then <= Peak
    BY PeakIsPeak
  <2>10. now >= SourceLossFloor(Peak)
    BY <2>6, <2>7, <2>8, <2>9, CleanIsAboveFloor, FloorType
  <2> HIDE DEF now, then
  <2>11. now >= then \/ LossWhole * (then - now) < LossPart * then
    BY <2>8, <2>9, <2>10, LossIsSmall
  <2> QED BY <2>11 DEF now, then
<1> QED BY <1>1, DraftInvariant, PTL DEF Spec, KeepsItsEvidence, KeptEvidence

-----------------------------------------------------------------------------
(* The citations that are checked are the first ones.                      *)
LEMMA PairsType ==
  ASSUME NEW r \in Reports
  PROVE  /\ Len(Pairs(r)) \in Nat /\ DOMAIN Pairs(r) = 1..Len(Pairs(r))
         /\ Len(Kept(r)) = IF Len(Pairs(r)) <= MaxPairs THEN Len(Pairs(r)) ELSE MaxPairs
         /\ \A i \in 1..Len(Kept(r)) : Kept(r)[i] = Pairs(r)[i]
<1> DEFINE addressed(k) == {n \in r.body[k].cites : AddressOf(r, n) # NoAddress}
           of(k) == [j \in 1..Cardinality(addressed(k)) |->
                       LET n == SetToSortSeq(addressed(k), <)[j]
                       IN [sentence |-> k, number |-> n, url |-> AddressOf(r, n)]]
           D == DOMAIN r.body
           T == UNION {{of(k)[j] : j \in 1..Cardinality(addressed(k))} : k \in D}
           parts == [k \in D |-> of(k)]
<1>1. r.body \in Seq(ToSet(r.body)) /\ \A s \in ToSet(r.body) : IsFiniteSet(s.cites)
  BY RoundConstants
<1>2. D = 1..Len(r.body) /\ Len(r.body) \in Nat
  <2> DEFINE S == ToSet(r.body)
  <2>1. r.body \in Seq(S)
    BY <1>1
  <2> HIDE DEF S
  <2> QED BY <2>1
<1>3. ASSUME NEW k \in D  PROVE of(k) \in Seq(T)
  <2>1. IsFiniteSet(r.body[k].cites)
    BY <1>1 DEF ToSet
  <2>2. Cardinality(addressed(k)) \in Nat
    BY <2>1, FS_Subset, FS_CardinalityType
  <2>3. \A j \in 1..Cardinality(addressed(k)) : of(k)[j] \in T
    <3> DEFINE here == {of(k)[j] : j \in 1..Cardinality(addressed(k))}
    <3>1. here \subseteq T
      <4> HIDE DEF of, addressed
      <4> QED OBVIOUS
    <3> HIDE DEF of, addressed, T
    <3> QED BY <3>1 DEF here
  <2>4. DOMAIN of(k) = 1..Cardinality(addressed(k))
    OBVIOUS
  <2>5. of(k) = [j \in 1..Cardinality(addressed(k)) |-> of(k)[j]]
    OBVIOUS
  <2> HIDE DEF of, T, addressed
  <2> QED BY <2>2, <2>3, <2>5
<1> HIDE DEF T, of
<1>4. parts \in Seq(Seq(T))
  <2> HIDE DEF D
  <2> QED BY <1>2, <1>3
<1>5. Pairs(r) = FlattenSeq(parts)
  BY DEF Pairs, of, addressed
<1> HIDE DEF parts
<1>6. Pairs(r) \in Seq(T)
  BY <1>4, <1>5, FlattenType
<1>7. Len(Pairs(r)) \in Nat /\ DOMAIN Pairs(r) = 1..Len(Pairs(r))
  BY <1>6
<1>8. MaxPairs \in Nat
  BY ClaimConstants
<1> DEFINE m == IF Len(Pairs(r)) <= MaxPairs THEN Len(Pairs(r)) ELSE MaxPairs
<1>9. Min({Len(Pairs(r)), MaxPairs}) = m
  BY <1>7, <1>8, LeastOfTwo
<1>10. Kept(r) = SubSeq(Pairs(r), 1, m) /\ m \in Nat
  BY <1>7, <1>8, <1>9 DEF Kept
<1> HIDE DEF m
<1>11. Len(Kept(r)) = m /\ \A i \in 1..m : Kept(r)[i] = Pairs(r)[i]
  <2> DEFINE p == Pairs(r)
  <2>1. \A i \in 1..m : p[i] \in T
    BY <1>6, <1>7, <1>8 DEF m
  <2>2. 1 \in Int /\ m \in Int
    BY <1>10
  <2> HIDE DEF p
  <2>3. /\ Len(SubSeq(p, 1, m)) = IF 1 <= m THEN m - 1 + 1 ELSE 0
        /\ \A i \in 1..(m - 1 + 1) : SubSeq(p, 1, m)[i] = p[1 + i - 1]
    BY <2>1, <2>2, SubSeqProperties
  <2>4. m - 1 + 1 = m /\ \A i \in 1..m : 1 + i - 1 = i
    BY <1>10
  <2>5. Len(SubSeq(p, 1, m)) = m /\ \A i \in 1..m : SubSeq(p, 1, m)[i] = p[i]
    BY <1>10, <2>3, <2>4
  <2> QED BY <1>10, <2>5 DEF p
<1> QED BY <1>7, <1>11 DEF m

(* The ranges of a long page leave no character out.                       *)
Covers(ranges, page) ==
  page.whole /\ \A i \in 0..(page.size - 1) : \E r \in ranges : r.start <= i /\ i < r.end

LEMMA StepType ==
  ASSUME NEW size \in Nat \ {0}, NEW overlap \in Nat
  PROVE  size - Min({overlap, size \div 2}) \in 1..size
<1> DEFINE half == size \div 2
<1>1. half \in Nat /\ half < size
  OBVIOUS
<1> HIDE DEF half
<1>2. Min({overlap, half}) \in Nat /\ Min({overlap, half}) <= half
  BY <1>1, LeastOfTwo
<1> HIDE DEF half
<1>3. size - Min({overlap, half}) \in 1..size
  BY <1>1, <1>2
<1> QED BY <1>3 DEF half

LEMMA RangesCover ==
  ASSUME NEW total \in Nat, NEW size \in Nat \ {0}, NEW overlap \in Nat
  PROVE  LET bounds == ChunkBounds(total, size, overlap)
         IN /\ IsFiniteSet(ToSet(bounds))
            /\ \A i \in 0..(total - 1) :
                 \E r \in ToSet(bounds) : r.start <= i /\ i < r.end
<1> DEFINE step == size - Min({overlap, size \div 2})
           pieces == IF total <= size THEN 1 ELSE 1 + CeilOf(total - size, step)
           range(k) == [start |-> (k - 1) * step, end |-> Min({total, (k - 1) * step + size})]
           bounds == ChunkBounds(total, size, overlap)
<1>1. step \in 1..size
  BY StepType
<1>2. bounds = [k \in 1..pieces |-> range(k)]
  BY DEF ChunkBounds
<1>3. pieces \in Nat \ {0} /\ (total > size => total - size <= step * (pieces - 1))
  <2>1. CASE total <= size
    BY <2>1
  <2>2. CASE ~ (total <= size)
    <3> DEFINE over == total - size
    <3>1. over \in Nat /\ step \in Nat \ {0}
      BY <1>1, <2>2
    <3> HIDE DEF over, step
    <3>2. CeilOf(over, step) \in Nat /\ over <= step * CeilOf(over, step)
      BY <3>1, CeilIsAbove
    <3>3. pieces = 1 + CeilOf(over, step) /\ pieces - 1 = CeilOf(over, step)
      BY <2>2, <3>2 DEF over
    <3> HIDE DEF pieces
    <3> QED BY <3>2, <3>3 DEF over
  <2> QED BY <2>1, <2>2
<1> HIDE DEF step, pieces
<1>4. ToSet(bounds) = {range(k) : k \in 1..pieces}
  <2> HIDE DEF range
  <2>1. DOMAIN bounds = 1..pieces /\ \A k \in 1..pieces : bounds[k] = range(k)
    BY <1>2
  <2> HIDE DEF bounds
  <2> QED BY <2>1 DEF ToSet
<1>5. IsFiniteSet(ToSet(bounds))
  <2> DEFINE f == [k \in 1..pieces |-> range(k)]
  <2>1. f \in Surjection(1..pieces, ToSet(bounds))
    BY <1>4 DEF Surjection
  <2>2. IsFiniteSet(1..pieces)
    <3>1. 1 \in Int /\ pieces \in Int
      BY <1>3
    <3> QED BY <3>1, FS_Interval
  <2> HIDE DEF f, bounds
  <2> QED BY <2>1, <2>2, FS_Surjection
<1>6. ASSUME NEW i \in 0..(total - 1)
      PROVE  \E r \in ToSet(bounds) : r.start <= i /\ i < r.end
  <2> DEFINE q == i \div step
             k == IF q + 1 <= pieces THEN q + 1 ELSE pieces
             a == step * (k - 1)
  <2>1. i \in Nat /\ i < total /\ step \in Nat \ {0} /\ step <= size
    BY <1>1
  <2>2. q \in Nat /\ step * q <= i /\ i < step * q + step
    <3> DEFINE m == i % step
    <3>1. q \in Nat /\ m \in 0..(step - 1) /\ i = step * q + m
      BY <2>1
    <3> HIDE DEF q, m
    <3>2. step * q \in Nat
      BY <2>1, <3>1
    <3> QED BY <2>1, <3>1, <3>2
  <2> HIDE DEF q
  <2>3. k \in 1..pieces /\ k - 1 \in Nat /\ k - 1 <= q
    BY <1>3, <2>2
  <2>4. a \in Nat /\ a <= step * q
    <3> HIDE DEF k
    <3> QED BY <2>1, <2>2, <2>3
  <2>5. i < a + size
    <3>1. CASE q + 1 <= pieces
      <4>1. k - 1 = q
        BY <2>2, <3>1
      <4>2. a = step * q
        BY <4>1
      <4> HIDE DEF a
      <4> QED BY <2>1, <2>2, <2>4, <4>2
    <3>2. CASE ~ (q + 1 <= pieces)
      <4>1. k = pieces
        BY <3>2
      <4>2. a = step * (pieces - 1)
        BY <4>1
      <4> HIDE DEF a
      <4>3. total <= a + size
        BY <1>3, <2>1, <2>4, <4>2
      <4> QED BY <2>1, <2>4, <4>3
    <3> QED BY <3>1, <3>2
  <2>6. a = (k - 1) * step
    <3> HIDE DEF k
    <3> QED BY <2>1, <2>3
  <2> HIDE DEF a, k
  <2>7. range(k).start = a /\ range(k).end = Min({total, a + size})
    BY <2>6
  <2>8. Min({total, a + size}) = IF total <= a + size THEN total ELSE a + size
    BY <2>4, LeastOfTwo
  <2>9. range(k).start <= i /\ i < range(k).end
    <3> HIDE DEF range
    <3> QED BY <2>1, <2>2, <2>4, <2>5, <2>7, <2>8
  <2> HIDE DEF range
  <2> QED BY <1>4, <2>3, <2>9
<1> QED BY <1>5, <1>6

(* A check in progress has one verdict for each of the first citations, in *)
(* order, and those that call a page silent are right about it.            *)
CheckFields ==
  {"at", "critic", "report", "got", "pairs", "streak", "aborted", "chunk_calls", "verdicts",
   "answers", "capped"}

Earned(v, got) == v.verdict = "absent" /\ v.complete => Covers(v.silent, got[v.url])

VerdictsInv(c) ==
  /\ c.verdicts \in Seq(ToSet(c.verdicts))
  /\ Len(c.verdicts) <= Len(c.pairs)
  /\ \A i \in 1..Len(c.verdicts) : /\ c.verdicts[i].sentence = c.pairs[i].sentence
                                   /\ Earned(c.verdicts[i], c.got)

(* What a check is about, which no step of it changes.                     *)
SubjectInv(c) ==
  /\ DOMAIN c = CheckFields
  /\ c.report \in Reports /\ c.pairs = Kept(c.report)
  /\ \A u \in DOMAIN c.got : c.got[u] \in FetchedSource

CheckInv ==
  \/ check = NoCheck
  \/ /\ SubjectInv(check) /\ VerdictsInv(check)
     /\ check.at \in {"pair", "chunks", "capped"}
     /\ check.at # "pair" => Len(check.verdicts) < Len(check.pairs) /\ HasBody /\ Asked \subseteq Ranges
     /\ check.at = "pair" => Asked = {}

LEMMA BodyIsGot ==
  ASSUME SubjectInv(check), HasBody
  PROVE  Page = check.got[Pair.url] /\ Page.size \in Nat
<1>1. Pair.url \in DOMAIN check.got
  BY DEF HasBody, Page, Failed, Readable
<1> QED BY <1>1 DEF Page, SubjectInv, FetchedSource

(* What a verdict does to a check that has a citation to rule on.          *)
LEMMA RuleKeeps ==
  ASSUME SubjectInv(check), VerdictsInv(check), Len(check.verdicts) < Len(check.pairs),
         NEW c, DOMAIN c = CheckFields, c.report = check.report, c.got = check.got,
         c.pairs = check.pairs, c.verdicts = check.verdicts,
         NEW v, v.sentence = Pair.sentence, Earned(v, check.got),
         check' = Rule(c, v)
  PROVE  CheckInv'
<1>1. /\ DOMAIN check' = CheckFields /\ check'.at = "pair" /\ check'.report = check.report
      /\ check'.got = check.got /\ check'.pairs = check.pairs /\ check'.answers = <<>>
      /\ check'.verdicts = Append(check.verdicts, v)
  BY DEF Rule, CheckFields
<1> DEFINE s == check.verdicts
           t == Append(s, v)
<1>2. s \in Seq(ToSet(s))
  BY DEF VerdictsInv
<1>3. /\ t \in Seq(ToSet(t)) /\ Len(s) \in Nat /\ Len(t) = Len(s) + 1
      /\ t[Len(s) + 1] = v /\ \A i \in 1..Len(s) : t[i] = s[i]
  <2> HIDE DEF s
  <2> QED BY <1>2, AppendAny
<1>4. Len(check.pairs) \in Nat
  BY PairsType, ClaimConstants DEF SubjectInv
<1>5. Len(t) <= Len(check.pairs)
  <2> HIDE DEF t
  <2> QED BY <1>3, <1>4
<1>6. ASSUME NEW i \in 1..Len(t)
      PROVE  t[i].sentence = check.pairs[i].sentence /\ Earned(t[i], check.got)
  <2>1. i \in 1..Len(s) \/ i = Len(s) + 1
    <3> HIDE DEF t
    <3> QED BY <1>3
  <2>2. CASE i \in 1..Len(s)
    <3>1. t[i] = s[i]
      BY <1>3, <2>2
    <3> HIDE DEF t
    <3> QED BY <2>2, <3>1 DEF VerdictsInv
  <2>3. CASE i = Len(s) + 1
    <3>1. t[i] = v /\ check.pairs[i] = Pair
      BY <1>3, <2>3 DEF Pair
    <3> HIDE DEF t
    <3> QED BY <3>1
  <2> QED BY <2>1, <2>2, <2>3
<1> HIDE DEF t
<1>7. VerdictsInv(check')
  BY <1>1, <1>3, <1>5, <1>6 DEF VerdictsInv, t
<1>8. SubjectInv(check')
  BY <1>1 DEF SubjectInv
<1>9. Asked' = {}
  BY <1>1 DEF Asked
<1> QED BY <1>1, <1>7, <1>8, <1>9 DEF CheckInv

LEMMA CalledKeeps ==
  ASSUME NEW c, DOMAIN c = CheckFields, NEW answer
  PROVE  LET d == Called(c, answer)
         IN /\ DOMAIN d = CheckFields /\ d.at = c.at /\ d.report = c.report /\ d.got = c.got
            /\ d.pairs = c.pairs /\ d.verdicts = c.verdicts /\ d.answers = c.answers
BY DEF Called, CheckFields

LEMMA VerdictSays ==
  ASSUME NEW pair, NEW answer, NEW complete
  PROVE  LET v == Verdict(pair, answer, complete)
         IN /\ v.sentence = pair.sentence /\ v.url = pair.url /\ v.complete = complete
            /\ v.verdict = "absent" => answer = "absent"
<1> DEFINE v == Verdict(pair, answer, complete)
<1>1. /\ v.sentence = pair.sentence /\ v.url = pair.url /\ v.complete = complete
      /\ v.verdict = CASE answer = "quoted" -> "unreadable"
                       [] answer \in {"failed", "aborted", "unread", "capped"} -> "unchecked"
                       [] OTHER -> answer
  BY DEF Verdict
<1> HIDE DEF v
<1> QED BY <1>1 DEF v

(* What one question shows of a page that it shows whole is all of it.     *)
LEMMA WholePageEarned ==
  ASSUME SubjectInv(check), HasBody, NEW a,
         NEW v, v = [Verdict(Pair, a, ShownWhole(Page)) EXCEPT
                       !.silent = IF a = "absent" THEN {Shown(Page)} ELSE {}]
  PROVE  v.sentence = Pair.sentence /\ Earned(v, check.got)
<1> DEFINE w == Verdict(Pair, a, ShownWhole(Page))
           silent == IF a = "absent" THEN {Shown(Page)} ELSE {}
<1>1. /\ w.sentence = Pair.sentence /\ w.url = Pair.url /\ w.complete = ShownWhole(Page)
      /\ w.verdict = "absent" => a = "absent"
  BY VerdictSays
<1>2. /\ v.sentence = w.sentence /\ v.url = w.url /\ v.complete = w.complete
      /\ v.verdict = w.verdict /\ v.silent = silent
  BY DEF Verdict
<1>3. Page = check.got[Pair.url] /\ Page.size \in Nat
  BY BodyIsGot
<1> HIDE DEF w, silent
<1>4. ASSUME a = "absent", ShownWhole(Page)  PROVE Covers(silent, Page)
  <2>1. Page.whole /\ Page.size <= PageMax
    BY <1>4 DEF ShownWhole
  <2>2. Min({Page.size, PageMax}) = Page.size
    BY <1>3, <2>1, ClaimConstants, LeastOfTwo
  <2>3. silent = {[start |-> 0, end |-> Page.size]}
    BY <1>4, <2>2 DEF silent, Shown
  <2> QED BY <1>3, <2>1, <2>3 DEF Covers
<1> QED BY <1>1, <1>2, <1>3, <1>4 DEF Earned

(* A page that was asked about range by range is called silent only when   *)
(* every one of its ranges was.                                            *)
LEMMA ChunkVerdictEarned ==
  ASSUME SubjectInv(check), HasBody, Asked \subseteq Ranges
  PROVE  ChunkVerdict.sentence = Pair.sentence /\ Earned(ChunkVerdict, check.got)
<1> DEFINE silent == Answered({"absent"})
           w == Verdict(Pair, "absent", AllSilent)
           v == [w EXCEPT !.silent = silent]
           plain(a) == Verdict(Pair, a, FALSE)
           settled == Answered({"supported", "contradicted"})
           first == check.answers[CHOOSE r \in settled : TRUE]
           blank == IF Answered({"quoted"}) = Asked THEN "quoted" ELSE "unreadable"
<1>1. \/ ChunkVerdict \in {plain(first), plain(blank), plain("unreadable"), plain("capped")}
      \/ ChunkVerdict = v
  <2> DEFINE all == Cardinality(Asked) = Cardinality(Ranges)
                      /\ Answered({"quoted", "unreadable"}) = Asked
             some == Answered({"quoted", "unreadable"}) # {}
  <2>1. ChunkVerdict =
          CASE settled # {} -> plain(first)
            [] settled = {} /\ all -> plain(blank)
            [] settled = {} /\ silent # {} -> v
            [] settled = {} /\ silent = {} /\ some /\ ~ all -> plain("unreadable")
            [] OTHER -> plain("capped")
    BY Zenon DEF ChunkVerdict
  <2> HIDE DEF plain, settled, silent, v, first, blank, all, some
  <2> QED BY <2>1
<1>2. CASE ChunkVerdict \in {plain(first), plain(blank), plain("unreadable"), plain("capped")}
  <2>1. PICK a : ChunkVerdict = Verdict(Pair, a, FALSE)
    BY <1>2
  <2> DEFINE w1 == Verdict(Pair, a, FALSE)
  <2>2. w1.sentence = Pair.sentence /\ ~ w1.complete
    <3>1. w1.sentence = Pair.sentence
      BY DEF Verdict
    <3>2. w1.complete = FALSE
      BY Zenon DEF Verdict
    <3> QED BY <3>1, <3>2
  <2> HIDE DEF w1
  <2>3. ChunkVerdict = w1
    BY <2>1 DEF w1
  <2> QED BY <2>2, <2>3 DEF Earned
<1>3. CASE ChunkVerdict = v
  <2>1. v.sentence = Pair.sentence /\ v.url = Pair.url /\ v.complete = AllSilent /\ v.silent = silent
    BY DEF Verdict
  <2>2. Page = check.got[Pair.url] /\ Page.size \in Nat
    BY BodyIsGot
  <2>3. IsFiniteSet(Ranges)
        /\ \A i \in 0..(Page.size - 1) : \E r \in Ranges : r.start <= i /\ i < r.end
    BY <2>2, RangesCover, ClaimConstants DEF Ranges
  <2>4. ASSUME AllSilent  PROVE Covers(silent, Page)
    <3>1. Cardinality(Asked) = Cardinality(Ranges) /\ silent = Asked /\ Page.whole
      BY <2>4 DEF AllSilent
    <3>2. Asked = Ranges
      BY <2>3, <3>1, FS_Subset
    <3> QED BY <2>3, <3>1, <3>2 DEF Covers
  <2> HIDE DEF v, silent
  <2> QED BY <1>3, <2>1, <2>2, <2>4 DEF Earned
<1> QED BY <1>1, <1>2, <1>3

LEMMA ListedUrls ==
  ASSUME NEW r \in Reports
  PROVE  Listed(r) \subseteq Urls
<1>1. \A e \in ToSet(r.entries) : e.url \in Urls \cup {NoAddress}
  BY RoundConstants
<1>2. \A i \in Entries(r) : r.entries[i] \in ToSet(r.entries)
  BY DEF Entries, ToSet
<1>3. \A i \in Entries(r) : Url(r, i) \in Urls \cup {NoAddress}
  BY <1>1, <1>2 DEF Url
<1> QED BY <1>3 DEF Listed

LEMMA CheckStarts ==
  ASSUME pages \in PageChoices, draft \in Reports, StartCheck("critic", draft, Got)
  PROVE  CheckInv'
<1>1. /\ DOMAIN check' = CheckFields /\ check'.at = "pair" /\ check'.report = draft
      /\ check'.got = Got /\ check'.pairs = Kept(draft) /\ check'.verdicts = <<>>
      /\ check'.answers = <<>>
  BY DEF StartCheck, CheckFields
<1>2. \A u \in DOMAIN Got : Got[u] \in FetchedSource
  <2>1. Listed(draft) \subseteq Urls
    BY ListedUrls
  <2>2. pages \in [Urls -> FetchedSource]
    BY RoundConstants
  <2> QED BY <2>1, <2>2 DEF Got
<1>3. Len(Kept(draft)) \in Nat
  BY PairsType, ClaimConstants
<1>4. ToSet(check'.verdicts) = {} /\ Len(check'.verdicts) = 0
  BY <1>1 DEF ToSet
<1>5. VerdictsInv(check')
  BY <1>1, <1>3, <1>4 DEF VerdictsInv
<1>6. Asked' = {}
  BY <1>1 DEF Asked
<1> QED BY <1>1, <1>2, <1>5, <1>6 DEF CheckInv, SubjectInv

(* Steps within one citation leave its page and what is settled alone.     *)
LEMMA WithinPair ==
  ASSUME SubjectInv(check), VerdictsInv(check), Len(check.verdicts) < Len(check.pairs), HasBody,
         DOMAIN check' = CheckFields, check'.report = check.report, check'.got = check.got,
         check'.pairs = check.pairs, check'.verdicts = check.verdicts,
         check'.at \in {"chunks", "capped"}, Asked' \subseteq Ranges
  PROVE  CheckInv'
<1>1. SubjectInv(check') /\ VerdictsInv(check')
  BY DEF SubjectInv, VerdictsInv
<1>2. Page' = Page
  BY DEF Page, Pair
<1>3. HasBody' /\ Ranges' = Ranges
  BY <1>2 DEF HasBody, Ranges
<1> QED BY <1>1, <1>3 DEF CheckInv

LEMMA CheckSteps ==
  ASSUME CheckInv, CheckStep
  PROVE  CheckInv'
<1>1. check.at # "none"
  BY DEF CheckStep, PairUnread, PairAborted, AskPage, BeginChunks, AskChunk, ConcludeChunks,
         Pending, Examining
<1>2. /\ SubjectInv(check) /\ VerdictsInv(check) /\ DOMAIN check = CheckFields
      /\ check.at # "pair" => Len(check.verdicts) < Len(check.pairs) /\ HasBody /\ Asked \subseteq Ranges
      /\ check.at = "pair" => Asked = {}
  BY <1>1 DEF CheckInv, NoCheck, SubjectInv
<1>3. ASSUME Pending  PROVE Len(check.verdicts) < Len(check.pairs)
  BY <1>3 DEF Pending
<1>4. CASE PairUnread
  <2> DEFINE w == Verdict(Pair, "unread", FALSE)
             v == [w EXCEPT !.anchored = Page.outcome \in NonBody]
  <2>1. v.sentence = Pair.sentence
    BY DEF Verdict
  <2>2. v.verdict = "unchecked"
    BY DEF Verdict
  <2>3. check' = Rule(check, v) /\ Len(check.verdicts) < Len(check.pairs)
    BY <1>3, <1>4 DEF PairUnread
  <2> HIDE DEF v
  <2>4. Earned(v, check.got)
    BY <2>2 DEF Earned
  <2> QED BY <1>2, <2>1, <2>3, <2>4, RuleKeeps
<1>5. CASE PairAborted
  <2> DEFINE v == Verdict(Pair, "aborted", FALSE)
  <2>1. v.sentence = Pair.sentence
    BY DEF Verdict
  <2>2. v.verdict = "unchecked"
    BY DEF Verdict
  <2>3. check' = Rule(check, v) /\ Len(check.verdicts) < Len(check.pairs)
    BY <1>3, <1>5 DEF PairAborted
  <2> HIDE DEF v
  <2>4. Earned(v, check.got)
    BY <2>2 DEF Earned
  <2> QED BY <1>2, <2>1, <2>3, <2>4, RuleKeeps
<1>6. CASE AskPage
  <2> DEFINE of(a) == [Verdict(Pair, a, ShownWhole(Page)) EXCEPT
                         !.silent = IF a = "absent" THEN {Shown(Page)} ELSE {}]
  <2>1. Pending /\ HasBody
    BY <1>6 DEF AskPage
  <2>2. \E a : check' = Rule(check, of(a)) \/ check' = Rule(Called(check, a), of(a))
    BY <1>6 DEF AskPage
  <2>3. PICK a : check' = Rule(check, of(a)) \/ check' = Rule(Called(check, a), of(a))
    BY <2>2
  <2> DEFINE v == of(a)
             c == Called(check, a)
  <2>4. v.sentence = Pair.sentence /\ Earned(v, check.got)
    <3>1. v = [Verdict(Pair, a, ShownWhole(Page)) EXCEPT
                 !.silent = IF a = "absent" THEN {Shown(Page)} ELSE {}]
      OBVIOUS
    <3> HIDE DEF v, of
    <3> QED BY <1>2, <2>1, <3>1, WholePageEarned
  <2>5. /\ DOMAIN c = CheckFields /\ c.report = check.report /\ c.got = check.got
        /\ c.pairs = check.pairs /\ c.verdicts = check.verdicts
    BY <1>2, CalledKeeps
  <2>6. check' = Rule(check, v) \/ check' = Rule(c, v)
    BY <2>3
  <2> HIDE DEF v, c, of
  <2>7. CASE check' = Rule(check, v)
    BY <1>2, <1>3, <2>1, <2>4, <2>7, RuleKeeps
  <2>8. CASE check' = Rule(c, v)
    BY <1>2, <1>3, <2>1, <2>4, <2>5, <2>8, RuleKeeps
  <2> QED BY <2>6, <2>7, <2>8
<1>7. CASE BeginChunks
  <2>1. Pending /\ HasBody /\ check.at = "pair"
    BY <1>7 DEF BeginChunks, Pending
  <2>2. /\ DOMAIN check' = CheckFields /\ check'.report = check.report /\ check'.got = check.got
        /\ check'.pairs = check.pairs /\ check'.verdicts = check.verdicts /\ check'.at = "chunks"
        /\ check'.answers = check.answers
    BY <1>2, <1>7 DEF BeginChunks, CheckFields
  <2>3. Asked' \subseteq Ranges
    BY <1>2, <2>1, <2>2 DEF Asked
  <2> QED BY <1>2, <1>3, <2>1, <2>2, <2>3, WithinPair
<1>8. CASE AskChunk
  <2>1. check.at = "chunks"
    BY <1>8 DEF AskChunk, Examining
  <2>2. PICK r \in Ranges \ Asked :
          \/ \E a : check' = [check EXCEPT !.answers = With(@, r, a)]
          \/ \E a : check' = [Called([check EXCEPT !.chunk_calls = @ + 1], a)
                                EXCEPT !.answers = With(@, r, a)]
          \/ check' = [check EXCEPT !.at = "capped", !.capped = TRUE]
    BY <1>8 DEF AskChunk
  <2>3. /\ DOMAIN check' = CheckFields /\ check'.report = check.report
        /\ check'.got = check.got /\ check'.pairs = check.pairs
        /\ check'.verdicts = check.verdicts /\ check'.at \in {"chunks", "capped"}
        /\ check'.answers = check.answers \/ \E a : check'.answers = With(check.answers, r, a)
    <3>1. CASE \E a : check' = [check EXCEPT !.answers = With(@, r, a)]
      BY <1>2, <2>1, <3>1 DEF CheckFields
    <3>2. CASE \E a : check' = [Called([check EXCEPT !.chunk_calls = @ + 1], a)
                                   EXCEPT !.answers = With(@, r, a)]
      <4>1. PICK a : check' = [Called([check EXCEPT !.chunk_calls = @ + 1], a)
                                 EXCEPT !.answers = With(@, r, a)]
        BY <3>2
      <4> DEFINE c == [check EXCEPT !.chunk_calls = @ + 1]
                 d == Called(c, a)
      <4>2. /\ DOMAIN c = CheckFields /\ c.at = check.at /\ c.report = check.report
            /\ c.got = check.got /\ c.pairs = check.pairs /\ c.verdicts = check.verdicts
            /\ c.answers = check.answers
        BY <1>2 DEF CheckFields
      <4>3. check' = [d EXCEPT !.answers = With(d.answers, r, a)]
        BY <4>1
      <4> HIDE DEF c
      <4>4. /\ DOMAIN d = CheckFields /\ d.at = c.at /\ d.report = c.report /\ d.got = c.got
            /\ d.pairs = c.pairs /\ d.verdicts = c.verdicts /\ d.answers = c.answers
        BY <4>2, CalledKeeps
      <4> HIDE DEF d
      <4> QED BY <2>1, <4>2, <4>3, <4>4 DEF CheckFields
    <3>3. CASE check' = [check EXCEPT !.at = "capped", !.capped = TRUE]
      BY <1>2, <3>3 DEF CheckFields
    <3> QED BY <2>2, <3>1, <3>2, <3>3
  <2>4. Asked' \subseteq Ranges
    <3>1. Asked' \subseteq Asked \cup {r}
      BY <2>3 DEF Asked, With
    <3> QED BY <1>2, <2>1, <2>2, <3>1
  <2> QED BY <1>2, <2>1, <2>3, <2>4, WithinPair
<1>9. CASE ConcludeChunks
  <2>1. check.at # "pair"
    BY <1>9 DEF ConcludeChunks
  <2> DEFINE c == [check EXCEPT !.at = "pair"]
  <2>2. /\ DOMAIN c = CheckFields /\ c.report = check.report /\ c.got = check.got
        /\ c.pairs = check.pairs /\ c.verdicts = check.verdicts
    BY <1>2 DEF CheckFields
  <2>3. check' = Rule(c, ChunkVerdict)
    BY <1>9 DEF ConcludeChunks
  <2> HIDE DEF c
  <2>4. ChunkVerdict.sentence = Pair.sentence /\ Earned(ChunkVerdict, check.got)
    BY <1>2, <2>1, ChunkVerdictEarned
  <2> QED BY <1>2, <2>1, <2>2, <2>3, <2>4, RuleKeeps
<1> QED BY <1>4, <1>5, <1>6, <1>7, <1>8, <1>9 DEF CheckStep

LEMMA CheckKept ==
  ASSUME CheckInv, check' = check
  PROVE  CheckInv'
<1>1. Page' = Page /\ Asked' = Asked
  BY DEF Page, Pair, Asked
<1>2. HasBody' = HasBody /\ Ranges' = Ranges
  BY <1>1 DEF HasBody, Ranges
<1> QED BY <1>1, <1>2 DEF CheckInv

THEOREM CheckInvariant == Spec => []CheckInv
<1>1. Init => CheckInv
  BY DEF Init, ClaimInit, CheckInv
<1>2. ReadInv /\ DraftInv /\ CheckInv /\ [Next]_vars => CheckInv'
  <2> SUFFICES ASSUME ReadInv, DraftInv, CheckInv, [Next]_vars  PROVE CheckInv'
    OBVIOUS
  <2>1. CASE Check
    <3>1. CASE StartCheck("critic", draft, Got)
      <4>1. pages \in PageChoices /\ draft \in Reports
        BY <2>1 DEF Check, Due, ReadInv, DraftInv
      <4> QED BY <3>1, <4>1, CheckStarts
    <3>2. CASE CheckStep
      BY <3>2, CheckSteps
    <3> QED BY <2>1, <3>1, <3>2 DEF Check
  <2>2. CASE ReviewEvidence \/ Restart
    BY <2>2 DEF ReviewEvidence, Restart, CheckInv
  <2>3. CASE Write \/ Research \/ HandIn \/ CallFails \/ WalkEnds \/ EndPass \/ UNCHANGED vars
    <3>1. check' = check
      BY <2>3 DEF Write, Research, HandIn, CallFails, WalkEnds, EndPass, vars, claim
    <3> QED BY <3>1, CheckKept
  <2> QED BY <2>1, <2>2, <2>3 DEF Next
<1> QED BY <1>1, <1>2, ReadInvariant, DraftInvariant, PTL DEF Spec

(* The check calls a page silent on a claim only when the body was whole   *)
(* and every character of it was in a range the checker found nothing in,  *)
(* however long the page, wide the ranges and tight the caps               *)
(* (claimcheck.py, _check_chunked).                                        *)
THEOREM AbsenceIsWholePageHolds == Spec => []AbsenceIsWholePage
<1>1. CheckInv => AbsenceIsWholePage
  <2> SUFFICES ASSUME CheckInv, check.at # "none",
                      NEW v \in ToSet(check.verdicts), v.verdict = "absent", v.complete
               PROVE  Covers(v.silent, check.got[v.url])
    BY DEF AbsenceIsWholePage, Covers
  <2>1. VerdictsInv(check)
    BY DEF CheckInv, NoCheck
  <2> DEFINE s == check.verdicts
             S == ToSet(s)
  <2>2. s \in Seq(S)
    BY <2>1 DEF VerdictsInv
  <2>3. DOMAIN s = 1..Len(s)
    <3> HIDE DEF s, S
    <3> QED BY <2>2
  <2>4. PICK i \in 1..Len(s) : v = s[i]
    BY <2>3 DEF ToSet
  <2> QED BY <2>1, <2>4 DEF VerdictsInv, Earned
<1> QED BY <1>1, CheckInvariant, PTL

(* A sentence is called unreadable only when every citation in it was      *)
(* checked, the ones beyond the cap too, and none came back as a document  *)
(* (claimcheck.py, _unreadable_issues).                                    *)
THEOREM UnreadableFindingIsEarnedHolds == Spec => []UnreadableFindingIsEarned
<1>1. CheckInv => UnreadableFindingIsEarned
  <2> SUFFICES ASSUME CheckInv, CheckOver,
                      NEW f \in UnreadableIssues(check.report, check.verdicts),
                      NEW i \in DOMAIN Pairs(check.report),
                      Pairs(check.report)[i].sentence = f.where
               PROVE  i <= Len(check.verdicts) /\ AnchoredNonBody(check.verdicts[i])
    BY DEF UnreadableFindingIsEarned
  <2>1. SubjectInv(check) /\ VerdictsInv(check) /\ check.at = "pair"
    BY DEF CheckOver, CheckInv, NoCheck
  <2> DEFINE s == check.verdicts
             p == Pairs(check.report)
             k == f.where
  <2>2. /\ Len(p) \in Nat /\ i \in 1..Len(p) /\ MaxPairs \in Nat
        /\ Len(check.pairs) = IF Len(p) <= MaxPairs THEN Len(p) ELSE MaxPairs
        /\ \A j \in 1..Len(check.pairs) : check.pairs[j] = p[j]
    BY <2>1, PairsType, ClaimConstants DEF SubjectInv
  <2>3. Len(s) \in Nat /\ DOMAIN s = 1..Len(s)
    <3> DEFINE S == ToSet(s)
    <3>1. s \in Seq(S)
      BY <2>1 DEF VerdictsInv
    <3> HIDE DEF s, S
    <3> QED BY <3>1
  <2>4. Len(s) = Len(check.pairs)
    <3>1. Len(s) <= Len(check.pairs) /\ ~ (Len(s) < Len(check.pairs))
      BY <2>1 DEF CheckOver, Pending, VerdictsInv
    <3>2. Len(check.pairs) \in Nat
      BY <2>2
    <3> HIDE DEF s
    <3> QED BY <2>3, <3>1, <3>2
  <2>5. k \notin CutSentences(check.report) /\ \A v \in Among(s, k) : AnchoredNonBody(v)
    <3>1. PICK j \in DOMAIN check.report.body :
            /\ j \notin CutSentences(check.report)
            /\ \A v \in Among(s, j) : AnchoredNonBody(v)
            /\ f = Finding("uncited_claim", "major", j, {v.number : v \in Among(s, j)})
      BY DEF UnreadableIssues
    <3>2. k = j
      BY <3>1 DEF Finding
    <3> HIDE DEF k
    <3> QED BY <3>1, <3>2
  <2>6. i <= MaxPairs
    <3>1. ASSUME ~ (i <= MaxPairs)  PROVE FALSE
      <4>1. i \in (MaxPairs + 1)..Len(p)
        <5> HIDE DEF p
        <5> QED BY <2>2, <3>1
      <4> QED BY <2>5, <4>1 DEF CutSentences
    <3> QED BY <3>1
  <2>7. i \in 1..Len(s)
    <3> HIDE DEF s, p
    <3> QED BY <2>2, <2>3, <2>4, <2>6
  <2>8. s[i].sentence = k
    <3>1. s[i].sentence = check.pairs[i].sentence
      BY <2>1, <2>7 DEF VerdictsInv
    <3>2. check.pairs[i] = p[i]
      BY <2>2, <2>4, <2>7
    <3> QED BY <3>1, <3>2
  <2>9. s[i] \in Among(s, k)
    BY <2>3, <2>7, <2>8 DEF Among, ToSet
  <2>10. AnchoredNonBody(s[i]) /\ i <= Len(s)
    <3> HIDE DEF s, k
    <3> QED BY <2>3, <2>5, <2>7, <2>9
  <2> QED BY <2>10
<1> QED BY <1>1, CheckInvariant, PTL

=============================================================================
