------------------------------ MODULE Citations ------------------------------
(***************************************************************************)
(* What the pipeline settles about a report's citations by reading the      *)
(* report alone.  A report is its body, a sequence of sentences, each with  *)
(* the paragraph it stands in, the claim it makes, the numbers it cites and *)
(* whether it talks about earlier drafts; and its bibliography, a sequence  *)
(* of entries, each with the number it says it has (0 when it says none),   *)
(* its first address and its text.                                         *)
(***************************************************************************)
EXTENDS SourceCoverage

CONSTANTS
    LossPart, LossWhole     \* review.source_loss_fraction, as a quotient

ASSUME CitationConstants ==
    LossPart \in Nat /\ LossWhole \in Nat \ {0} /\ LossPart <= LossWhole

(* A number is what the entry says, and its position otherwise.            *)
Number(report, i) ==
    IF report.entries[i].number > 0 THEN report.entries[i].number ELSE i
Entries(report) == DOMAIN report.entries
Numbered(report, n) == {i \in Entries(report) : Number(report, i) = n}
Url(report, i) == report.entries[i].url

Cited(report) == UNION {s.cites : s \in ToSet(report.body)}
Citing(report, n) == {k \in DOMAIN report.body : n \in report.body[k].cites}

(* An entry is about its address, or about its text when it has none.      *)
SourceKey(e) == IF e.url = NoAddress THEN e.text ELSE e.url
Keys(report, is) == {SourceKey(report.entries[i]) : i \in is}
CitedEntries(report) == {i \in Entries(report) : Number(report, i) \in Cited(report)}
CitedKeys(report) == Keys(report, CitedEntries(report))

DanglingNumbers(report) ==
    Cited(report) \ {Number(report, i) : i \in Entries(report)}

(* The page a number is checked at.  Addresses come in the order they are  *)
(* first listed, and the first of them listed under the number is taken.   *)
AddressOf(report, n) ==
    LET first(i) == Min({j \in Entries(report) : Url(report, j) = Url(report, i)})
        listed == {i \in Numbered(report, n) : Url(report, i) # NoAddress}
    IN IF listed = {} THEN NoAddress
       ELSE Url(report, Min({first(i) : i \in listed}))

(* Every citation in the body whose number lists an address, in order.     *)
Pairs(report) ==
    LET of(k) == LET addressed == {n \in report.body[k].cites : AddressOf(report, n) # NoAddress}
                 IN [j \in 1..Cardinality(addressed) |->
                       LET n == SetToSortSeq(addressed, <)[j]
                       IN [sentence |-> k, number |-> n, url |-> AddressOf(report, n)]]
    IN FlattenSeq([k \in DOMAIN report.body |-> of(k)])

-----------------------------------------------------------------------------
(* Findings.  "where" is a sentence, or an entry counted from -1 down.     *)
Finding(category, severity, where, about) ==
    [category |-> category, severity |-> severity, where |-> where, about |-> about]
AtEntry(i) == - i
NoFindings == {}

(* A page that is definitively absent.                                     *)
MechanicalCitation(got) ==
    {Finding("fabricated_citation", "blocking", 0, {u}) :
        u \in {v \in DOMAIN got : got[v].outcome = "not_found"}}

(* The first sentence of the first paragraph that cites the number.        *)
FirstCiting(report, n) == Min(Citing(report, n))

IsReference(e) == e.url # NoAddress \/ e.number > 0

UnmarkedBibliography(report) ==
    {Finding("uncited_claim", "major", k, {}) :
        k \in IF \E e \in ToSet(report.entries) : IsReference(e)
              THEN DOMAIN report.body \cap {1} ELSE {}}

Dangling(report) ==
    {Finding("uncited_claim", "major", FirstCiting(report, n), {n}) : n \in DanglingNumbers(report)}
Orphans(report, limit) ==
    {Finding("unclear_structure", "minor", AtEntry(i), {Number(report, i)}) :
        i \in {j \in Entries(report) \ CitedEntries(report) : j <= limit}}
Duplicates(report, limit) ==
    {Finding("unclear_structure", "minor", AtEntry(i), {Url(report, i)}) :
        i \in {j \in Entries(report) : /\ j <= limit /\ Url(report, j) # NoAddress
                                       /\ \E h \in 1..(j - 1) : Url(report, h) = Url(report, j)}}

MechanicalBibliography(report, limit) ==
    CASE report.entries = <<>> -> NoFindings
      [] report.entries # <<>> /\ Cited(report) = {} -> UnmarkedBibliography(report)
      [] OTHER -> Dangling(report) \cup Orphans(report, limit) \cup Duplicates(report, limit)

-----------------------------------------------------------------------------
(* Cited entries nobody has read in full, and cited entries nobody can.    *)
ReadInFull(log) == {u \in DOMAIN log : log[u] = "full_text"}

UnreadCited(report, log, limit) ==
    {i \in CitedEntries(report) :
        /\ i <= limit /\ Url(report, i) # NoAddress
        /\ Url(report, i) \notin ReadInFull(log)}
Unaddressed(report, limit) ==
    {i \in CitedEntries(report) : i <= limit /\ Url(report, i) = NoAddress}

(* Each entry goes to the first sentence that cites it and that no earlier *)
(* entry took, or, when all are taken, to the first that cites it.         *)
Anchored(report, entries) ==
    LET place(taken, i) ==
          LET citing == Citing(report, Number(report, i))
              free == citing \ DOMAIN taken
              k == IF free # {} THEN Min(free) ELSE Min(citing)
          IN (k :> (IF k \in DOMAIN taken THEN taken[k] ELSE {}) \cup {i}) @@ taken
    IN FoldLeft(place, <<>>, SetToSortSeq(entries, <))

FindingsAt(report, entries) ==
    LET groups == Anchored(report, entries)
    IN {Finding("uncited_claim", "major", k, {Number(report, i) : i \in groups[k]}) :
          k \in DOMAIN groups}

MechanicalUnread(report, log, limit) == FindingsAt(report, UnreadCited(report, log, limit))
MechanicalNoAddress(report, limit) == FindingsAt(report, Unaddressed(report, limit))

(* A paragraph that talks about earlier drafts, at its first such sentence. *)
MechanicalHistory(report) ==
    LET talks == {k \in DOMAIN report.body : report.body[k].history}
        first(k) == \A j \in talks : report.body[j].para = report.body[k].para => j >= k
    IN {Finding("unclear_structure", "blocking", k, {}) : k \in {j \in talks : first(j)}}

-----------------------------------------------------------------------------
(* A revision that dropped a source and kept the claim.  The claim is      *)
(* excused by a source the previous draft did not cite and that a writer   *)
(* has read; a number with two entries is the later of them.               *)
LastNumbered(report, n) == Max(Numbered(report, n))

MechanicalShrink(previous, report, log, limit) ==
    LET gone == CitedKeys(previous) \ CitedKeys(report)
        lost == {Number(previous, i) : i \in {j \in Entries(previous) :
                    j <= limit /\ SourceKey(previous.entries[j]) \in gone}}
        claims == {s.claim : s \in {t \in ToSet(previous.body) : t.cites \cap lost # {}}}
        fresh(n) == /\ Numbered(report, n) # {}
                    /\ LET e == report.entries[LastNumbered(report, n)]
                       IN e.url # NoAddress /\ SourceKey(e) \notin CitedKeys(previous)
                            /\ e.url \in ReadInFull(log)
        kept == {k \in DOMAIN report.body : /\ report.body[k].claim \in claims
                                            /\ ~ \E n \in report.body[k].cites : fresh(n)}
    IN IF report.entries = <<>> THEN NoFindings
       ELSE {Finding("uncited_claim", "major", k, {"dropped"}) : k \in kept}

(* The addresses a report rests on: cited, read in full, not refuted.      *)
ReadCited(report, log, exclude, limit) ==
    ({Url(report, i) : i \in {j \in CitedEntries(report) : j <= limit}}
        \cap ReadInFull(log)) \ exclude

DroppedRead(previous, report, log, exclude, limit) ==
    Cardinality(ReadCited(previous, log, exclude, limit) \ ReadCited(report, log, {}, limit))

(* Fault: a draft is compared with the one before it alone.                *)
PeakOfLatest(sets, refuted) ==
    Max({0} \cup {Cardinality(sets[i] \ refuted) : i \in DOMAIN sets \cap {Len(sets) - 1, Len(sets)}})

(* The most any draft rested on, less what has been refuted since.         *)
PeakOf(sets, refuted) == Max({0} \cup {Cardinality(s \ refuted) : s \in ToSet(sets)})

CeilOf(a, b) == (a + b - 1) \div b

(* The fewest read sources a draft may rest on: it has not yet lost the    *)
(* fraction of the peak, and a loss of nothing is none.                    *)
SourceLossFloor(peak) ==
    IF peak = 0 THEN 0 ELSE peak - Max({1, CeilOf(LossPart * peak, LossWhole)}) + 1

MechanicalSourceLoss(report, log, peak, exclude, limit) ==
    IF Cardinality(ReadCited(report, log, exclude, limit)) < SourceLossFloor(peak)
       /\ report.body # <<>>
    THEN {Finding("incomplete_answer", "blocking", 1, {})} ELSE NoFindings
=============================================================================
