--------------------------- MODULE SourceCoverage ---------------------------
(***************************************************************************)
(* What verification reached on one bibliography.  A line of the Sources   *)
(* section is the marker it opens with (Unmarked, or the indent of its     *)
(* bullet or number), whether its payload is only a label, and the         *)
(* addresses on it.  Lines become entries, entries are tallied against the *)
(* outcomes recorded for their addresses, and two tallies of one           *)
(* bibliography are ranked by how far they got.                            *)
(***************************************************************************)
EXTENDS Integers, SourceOutcomes

Unmarked == -1
NoAddress == "no_address"

Marked(lines) == {i \in DOMAIN lines : lines[i].indent # Unmarked}

(* A bullet such as "- Peer-reviewed:": it ends in a colon and carries no   *)
(* address of its own.                                                     *)
GroupingHeading(line) == line.label /\ line.urls = <<>>

(* The depth of the entries: the shallowest marker that is no heading, or  *)
(* the shallowest of any kind.                                             *)
EntryIndent(lines) ==
    LET entries == {i \in Marked(lines) : ~ GroupingHeading(lines[i])}
        of(is) == Min({lines[i].indent : i \in is})
    IN IF entries # {} THEN of(entries) ELSE of(Marked(lines))

(* An entry is the sequence of addresses on its lines.  A marker deeper    *)
(* than the entries annotates the entry above it, a shallower one is a     *)
(* heading, and text before the first entry is prose.                      *)
SourceEntries(lines) ==
    LET depth == EntryIndent(lines)
        fold(entries, l) == IF entries = <<>> THEN entries
                            ELSE [entries EXCEPT ![Len(entries)] = @ \o l.urls]
        add(entries, l) == CASE l.indent = depth -> Append(entries, l.urls)
                             [] l.indent \in 0..(depth - 1) -> entries
                             [] OTHER -> fold(entries, l)
    IN IF Marked(lines) = {} THEN [i \in DOMAIN lines |-> lines[i].urls]
       ELSE FoldLeft(add, <<>>, lines)

(* The first address of an entry is the one it is checked at.              *)
EntryUrl(entry) == IF entry = <<>> THEN NoAddress ELSE Head(entry)

(* Every address of the section in order, once, up to the ceiling.         *)
ExtractSourceUrls(lines, limit) ==
    LET fresh(seen, u) == IF u \in ToSet(seen) \/ Len(seen) >= limit THEN seen
                          ELSE Append(seen, u)
    IN FoldLeft(fresh, <<>>, FlattenSeq([i \in DOMAIN lines |-> lines[i].urls]))

-----------------------------------------------------------------------------
(* Which outcomes say the source could not be read.                        *)
Unread == {"paywalled", "blocked", "unreadable", "empty", "error"}

(* The tally of a bibliography against the results got, a function from    *)
(* the addresses that were asked for.                                      *)
Coverage(lines, got) ==
    LET entries == SourceEntries(lines)
        url(i) == EntryUrl(entries[i])
        addressed == {i \in DOMAIN entries : url(i) # NoAddress}
        asked == {i \in addressed : url(i) \in DOMAIN got}
        in(outcomes) == {i \in asked : got[url(i)].outcome \in outcomes}
        mapped == {"full_text", "metadata_only", "not_found", "budget_exhausted"}
    IN [cited |-> Len(entries),
        addressable |-> Cardinality(addressed),
        not_addressable |-> Len(entries) - Cardinality(addressed),
        attempted |-> Cardinality(asked),
        not_attempted |-> Cardinality(addressed \ asked),
        body_backed_entries |-> Cardinality(in({"full_text"})),
        bodies_read |-> Cardinality({url(i) : i \in in({"full_text"})}),
        metadata_only |-> Cardinality(in({"metadata_only"})),
        blocked_or_unreadable |-> Cardinality(in(Outcomes \ mapped)),
        not_found |-> Cardinality(in({"not_found"})),
        budget_exhausted |-> Cardinality(in({"budget_exhausted"}))]

ExistenceConfirmed(c) == c.body_backed_entries + c.metadata_only
NotIndependentlyChecked(c) ==
    c.not_addressable + c.not_attempted + c.blocked_or_unreadable + c.budget_exhausted

(* How far a tally got, most telling count first; the last four count      *)
(* against it.                                                             *)
CoverageRank(c) ==
    << Max({0, c.cited - NotIndependentlyChecked(c)}), c.bodies_read,
       c.body_backed_entries, c.metadata_only, c.not_found, c.attempted,
       - c.blocked_or_unreadable, - c.budget_exhausted, - c.not_attempted, - c.not_addressable >>

Further(a, b) ==
    LET ra == CoverageRank(a)  rb == CoverageRank(b)
    IN \E i \in DOMAIN ra : ra[i] > rb[i] /\ \A j \in 1..(i - 1) : ra[j] = rb[j]

NoTally == [cited |-> 0]

(* Fault: the last critic to finish decides.                               *)
RecordedLast(current, observed) == observed

(* What is kept of an artifact once another critic has tallied it.         *)
Recorded(current, observed) ==
    IF current = NoTally \/ Further(observed, current) THEN observed ELSE current

=============================================================================
