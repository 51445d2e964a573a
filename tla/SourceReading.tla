---------------------------- MODULE SourceReading ----------------------------
(***************************************************************************)
(* One writer call at a time searches and reads.  It may read what its own  *)
(* searches listed and what the draft it revises cites; the run's budgets   *)
(* bound queries, reads and characters.  With evidence cards on, a reader   *)
(* model goes through the page in chunks and the writer is shown passages   *)
(* that were found on the page, or, when the reader is of no use, the       *)
(* page's opening.  The writers of a run take turns: no two sessions are    *)
(* open at once.                                                            *)
(***************************************************************************)
EXTENDS Integers, SourceOutcomes

CONSTANTS
    Writers,
    QueryLimit, ReadCalls,      \* caps of the run, or Unlimited
    ReadChars, ReadMax,         \* characters of the run and of one read
    Cards,                      \* evidence cards are enabled
    ChunkChars, ChunkOverlap,
    PassageMin, PassageMax, MaxPassages, CardMax,
    MaxReaderCalls, MaxReaderFailures, CardsKept,
    Proposals                   \* what the reader may say of one chunk

Unlimited == -1

ASSUME ReadingConstants ==
    /\ {QueryLimit, ReadCalls} \subseteq Nat \cup {-1} /\ Cards \in BOOLEAN
    /\ {ReadChars, ReadMax, ChunkChars, PassageMin, MaxReaderFailures, CardsKept}
         \subseteq Nat \ {0}
    /\ ChunkOverlap \in 0..(ChunkChars - 1)
    /\ {PassageMax, MaxPassages, CardMax, MaxReaderCalls} \subseteq Nat
    /\ Proposals \subseteq Seq([at : Nat, len : Nat, located : BOOLEAN])

VARIABLES
    session,    \* the writer call in progress
    used,       \* [queries, calls, chars]: the run's budgets
    reader,     \* [calls, failures, disabled, cards]: the evidence reader
    shown       \* history: addresses some writer was shown text of

reading == <<session, used, reader, shown>>

NoSession == [at |-> "none"]
ReadingInit ==
    /\ session = NoSession
    /\ used = [queries |-> 0, calls |-> 0, chars |-> 0]
    /\ reader = [calls |-> 0, failures |-> [w \in Writers |-> 0], disabled |-> {}, cards |-> <<>>]
    /\ shown = {}

-----------------------------------------------------------------------------
Spent(counter, limit) == limit # Unlimited /\ used[counter] >= limit
QueriesSpent == Spent("queries", QueryLimit)
ReadsSpent == Spent("calls", ReadCalls) \/ used.chars >= ReadChars

(* Tools are withdrawn from a call once both budgets are gone.             *)
Offering == ~ QueriesSpent \/ ~ ReadsSpent

OpenSession(w, cited) ==
    /\ session.at = "none"
    /\ session' = [at |-> "open", writer |-> w, tools |-> TRUE, offered |-> {}, cited |-> cited,
                   read |-> <<>>]
    /\ UNCHANGED <<used, reader, shown>>

Tooled == session.at = "open" /\ session.tools

Withdraw ==
    /\ Tooled /\ ~ Offering
    /\ session' = [session EXCEPT !.tools = FALSE]
    /\ UNCHANGED <<used, reader, shown>>

(* A query is paid for before it is sent; one that fails lists nothing.    *)
Search(results) ==
    /\ Tooled /\ ~ QueriesSpent
    /\ used' = [used EXCEPT !.queries = @ + 1]
    /\ session' = [session EXCEPT !.offered = @ \cup results]
    /\ UNCHANGED <<reader, shown>>

Admitted == session.offered \cup session.cited

-----------------------------------------------------------------------------
(* The reader's chunks of a page of n characters.                          *)
Chunks(n) ==
    LET step == ChunkChars - ChunkOverlap
        count == IF n <= ChunkChars THEN 1 ELSE 1 + (n - ChunkChars + step - 1) \div step
    IN [i \in 1..count |-> [start |-> (i - 1) * step,
                            len |-> Min({ChunkChars, n - (i - 1) * step})]]

(* A proposed passage is an offset and a length in its chunk, and whether  *)
(* its words are there.  What is kept is in terms of the page.             *)
Verified(chunk, proposal) ==
    /\ proposal.located /\ proposal.len \in PassageMin..PassageMax
    /\ proposal.at + proposal.len <= chunk.len
Found(chunk, proposals) ==
    LET of(p) == IF Verified(chunk, p) THEN <<[start |-> chunk.start + p.at, len |-> p.len]>>
                 ELSE <<>>
    IN FlattenSeq([i \in DOMAIN proposals |-> of(proposals[i])])

Overlaps(p, q) == p.start < q.start + q.len /\ q.start < p.start + p.len
CharsOf(passages) == FoldFunction(+, 0, [p \in passages |-> p.len])

(* The first proposed of two that overlap; of those, the ones that fit.    *)
(* What is kept does not overlap, so that a card is a set of passages.     *)
KeepFirst(kept, p) ==
    IF \E k \in ToSet(kept) : Overlaps(p, k) THEN kept ELSE Append(kept, p)
KeepFitting(kept, p) ==
    IF Len(kept) >= MaxPassages \/ CharsOf(ToSet(kept)) + p.len > CardMax
    THEN kept ELSE Append(kept, p)
Merged(passages) == FoldLeft(KeepFirst, <<>>, passages)
Capped(passages) == FoldLeft(KeepFitting, <<>>, passages)
CardOf(n, answers) ==
    LET found == FlattenSeq([i \in DOMAIN answers |-> Found(Chunks(n)[i], answers[i])])
    IN ToSet(Capped(Merged(found)))

(* The leading passages, in page order, that fit in what was granted.      *)
Within(card, chars) ==
    {p \in card : CharsOf({q \in card : q.start <= p.start}) <= chars}

NoCard == {}
CardsWith(w, u, card) ==
    With(IF Cardinality(DOMAIN reader.cards) >= CardsKept THEN <<>> ELSE reader.cards,
         <<w, u>>, card)

(* What the evidence reader may make of a page for writer w: a card, none  *)
(* when the writer gets the opening instead, and the reader it leaves.  The *)
(* calls of a page are taken all or none.                                  *)
ReaderPasses(w, u, page) ==
    LET pieces == Len(Chunks(page.size))
        charged == [reader EXCEPT !.calls = @ + pieces]
        failed == [charged EXCEPT !.failures[w] = @ + 1,
                     !.disabled = IF reader.failures[w] + 1 >= MaxReaderFailures
                                  THEN @ \cup {w} ELSE @]
        made(card) == [charged EXCEPT !.failures[w] = 0, !.cards = CardsWith(w, u, card)]
    IN CASE <<w, u>> \in DOMAIN reader.cards ->
              {[card |-> reader.cards[<<w, u>>], leaves |-> reader]}
         [] <<w, u>> \notin DOMAIN reader.cards
              /\ (w \in reader.disabled \/ reader.calls + pieces > MaxReaderCalls) ->
              {[card |-> NoCard, leaves |-> reader]}
         [] OTHER ->
              {[card |-> NoCard, leaves |-> failed]}
                \cup {[card |-> c, leaves |-> made(c)] :
                        c \in {CardOf(page.size, a) : a \in [1..pieces -> Proposals]}}

-----------------------------------------------------------------------------
(* What a read comes to: its outcome, what it costs, what the writer sees. *)
Grant(wanted) == Min({wanted, ReadChars - used.chars})
Result(outcome, cost, seen) == [outcome |-> outcome, cost |-> cost, seen |-> seen]

Clipped(page) ==
    LET grant == Grant(Min({page.size, ReadMax}))
    IN CASE ~ Readable(page) -> Result(page.outcome, 0, 0)
         [] Readable(page) /\ grant = 0 /\ page.size > 0 -> Result("budget_exhausted", 0, 0)
         [] OTHER -> Result("full_text", grant, grant)

(* Fault: a card none of whose passages was affordable still reads as full. *)
CardReadAnyway(card) ==
    LET grant == Grant(CharsOf(card))
    IN Result("full_text", grant, CharsOf(Within(card, grant)))

(* A card is charged as far as the budget goes and shown as far as whole   *)
(* passages go; none of it is a spent budget.                              *)
CardRead(card) ==
    LET grant == Grant(CharsOf(card))
        passages == Within(card, grant)
    IN Result(IF passages = {} THEN "budget_exhausted" ELSE "full_text", grant, CharsOf(passages))

Log(u, r) ==
    /\ session' = [session EXCEPT !.read = With(@, u, r.outcome)]
    /\ shown' = IF r.seen > 0 THEN shown \cup {u} ELSE shown

(* read_source of an address that is admitted and was not read yet in this *)
(* call: any other address costs nothing and changes nothing.              *)
Read(u, page) ==
    /\ Tooled /\ u \in Admitted \ DOMAIN session.read
    /\ IF ReadsSpent
       THEN Log(u, Result("budget_exhausted", 0, 0)) /\ UNCHANGED <<used, reader>>
       ELSE \E p \in IF Cards /\ Readable(page) /\ page.size > 0
                      THEN ReaderPasses(session.writer, u, page)
                      ELSE {[card |-> NoCard, leaves |-> reader]} :
              LET r == IF p.card = NoCard THEN Clipped(page) ELSE CardRead(p.card)
              IN /\ reader' = p.leaves
                 /\ used' = [used EXCEPT !.calls = @ + 1, !.chars = @ + r.cost]
                 /\ Log(u, r)

EndSession == session' = NoSession

-----------------------------------------------------------------------------
(* What a finished call adds to the run's read log.                        *)
ReadLogSkip == {"not_retrieved", "budget_exhausted"}

(* Fault: the latest read of a page replaces what is known of it.          *)
MergeLatest(log, read) ==
    [u \in {v \in DOMAIN read : read[v] \notin ReadLogSkip} |-> read[u]] @@ log

(* A page once read in full stays so, and a refusal says nothing of a page. *)
MergeReadLog(log, read) ==
    LET news == {u \in DOMAIN read : /\ read[u] \notin ReadLogSkip
                                     /\ u \in DOMAIN log => log[u] # "full_text"}
    IN [u \in DOMAIN log \cup news |-> IF u \in news THEN read[u] ELSE log[u]]

ReadThisCall == \E u \in DOMAIN session.read : session.read[u] = "full_text"
=============================================================================
