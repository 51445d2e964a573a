---------------------------- MODULE ReportSplice ----------------------------
(***************************************************************************)
(* A revision as operations on labelled paragraphs (ops.py).  A report is  *)
(* a sequence of blocks, headings and paragraphs.  What a paragraph says   *)
(* is the numbers written in it: the entries it cites, or, under the       *)
(* Sources heading, the number each of its entries opens with, Unnumbered  *)
(* when it opens with none and has its place in the list for a number.     *)
(* A reply is a sequence of lines of the protocol or of text; the drafting *)
(* and the repair turn each splice one into the report before them.        *)
(***************************************************************************)
EXTENDS Integers, Sequences, FiniteSets, SequencesExt

CONSTANTS
  FirstDrafts, Replies,
  MaxTurns      \* bound

VARIABLES
  draft, reply, \* the report, and the reply that was last spliced into it
  turns

spliceVars == <<draft, reply, turns>>

SpliceInit == draft = << >> /\ reply = << >> /\ turns = 0

Unnumbered == 0
Paragraph(marks) == [is |-> "words", marks |-> marks]
Heading(title) == [is |-> "heading", title |-> title]

-----------------------------------------------------------------------------
(* Where a paragraph stands: the headings up to it, and its place after    *)
(* the last of them.                                                       *)
HeadingsTo(d, i) == {h \in 1..i : d[h].is = "heading"}
Locus(d, i) == <<Cardinality(HeadingsTo(d, i)), i - Max({0} \cup HeadingsTo(d, i))>>

Title(d, i) == IF HeadingsTo(d, i) = {} THEN "" ELSE d[Max(HeadingsTo(d, i))].title
InSources(d, i) == Title(d, i) = "sources"

Paragraphs(d) == {i \in 1..Len(d) : d[i].is = "words"}
Body(d) == {i \in Paragraphs(d) : ~ InSources(d, i)}
Cited(d) == UNION {ToSet(d[i].marks) : i \in Body(d)} \ {Unnumbered}

Entries(d) == FlattenSeq([i \in 1..Len(d) |->
                            IF i \in Paragraphs(d) \ Body(d) THEN d[i].marks ELSE << >>])
Entered(d) == {IF Entries(d)[e] = Unnumbered THEN e ELSE Entries(d)[e] : e \in 1..Len(Entries(d))}
Dangling(d) == Cited(d) \ Entered(d)

-----------------------------------------------------------------------------
(* Lines to operations.  A header opens a block, and closes one still      *)
(* open; `end` closes one; any other line of the protocol is dropped, and  *)
(* so is text outside a block.                                             *)
Closed(parsed) ==
  IF parsed.open = << >> THEN parsed
  ELSE [ops |-> Append(parsed.ops, parsed.open[1]), open |-> << >>]

ReadLine(parsed, line) ==
  CASE line.is = "header" -> [Closed(parsed) EXCEPT !.open =
                                <<[kind |-> line.kind, at |-> line.at, text |-> << >>]>>]
    [] line.is = "end" -> Closed(parsed)
    [] line.is \in {"words", "heading"} /\ parsed.open # << >> ->
         [parsed EXCEPT !.open[1].text = Append(@, line)]
    [] OTHER -> parsed

Operations(lines) == Closed(FoldLeft(ReadLine, [ops |-> << >>, open |-> << >>], lines)).ops

(* A text that opens with its own section's heading loses it.              *)
Normalised(text, title) ==
  IF text # << >> /\ text[1] = Heading(title) THEN Tail(text) ELSE text

Acceptable(text) == text # << >> /\ \A l \in 1..Len(text) : text[l].is = "words"

-----------------------------------------------------------------------------
(* Which operations count: those that name a paragraph the draft has, with *)
(* a text that is not refused; of those that replace or delete one         *)
(* paragraph, the first.                                                   *)
Named(d, op) == {i \in Paragraphs(d) : Locus(d, i) = op.at}

Accepted(d, ops) ==
  {k \in 1..Len(ops) : \E i \in Named(d, ops[k]) :
     ops[k].kind = "delete" \/ Acceptable(Normalised(ops[k].text, Title(d, i)))}

Inserts(d, ops) == {k \in Accepted(d, ops) : ops[k].kind = "insert"}

Edits(d, ops) ==
  {k \in Accepted(d, ops) \ Inserts(d, ops) :
     \A j \in Accepted(d, ops) \ Inserts(d, ops) : ops[j].at = ops[k].at => k <= j}

(* The paragraphs an operation puts down. *)
NewText(d, op) == Normalised(op.text, Title(d, CHOOSE i \in Named(d, op) : TRUE))

(* The draft with some of the edits and all of the insertions.             *)
Rendered(d, ops, edits) ==
  LET Stands(i) == {k \in edits : i \in Named(d, ops[k])}
      Place(i) ==
        IF Stands(i) = {} THEN <<d[i]>>
        ELSE LET k == CHOOSE k \in Stands(i) : TRUE
             IN IF ops[k].kind = "delete" THEN << >> ELSE NewText(d, ops[k])
      After(i) ==
        LET here == SetToSortSeq({k \in Inserts(d, ops) : i \in Named(d, ops[k])}, <)
        IN FlattenSeq([n \in 1..Len(here) |-> NewText(d, ops[here[n]])])
  IN FlattenSeq([i \in 1..Len(d) |-> Place(i) \o After(i)])

Deferred(d, ops) == {k \in Edits(d, ops) : \E i \in Named(d, ops[k]) : InSources(d, i)}

(* A fault: an edit of the Sources is tried on the draft as it was.        *)
KeptOnOldBody(d, ops) ==
  LET Try(kept, k) ==
        IF Dangling(Rendered(d, ops, {k})) \subseteq Dangling(d) THEN kept \cup {k} ELSE kept
  IN FoldLeft(Try, Edits(d, ops) \ Deferred(d, ops), SetToSortSeq(Deferred(d, ops), <))

(* The body first; then each edit of the Sources, in the order written,    *)
(* unless it leaves a number dangling that did not dangle before it.       *)
Kept(d, ops) ==
  LET Try(kept, k) ==
        IF Dangling(Rendered(d, ops, kept \cup {k})) \subseteq Dangling(Rendered(d, ops, kept))
        THEN kept \cup {k} ELSE kept
  IN FoldLeft(Try, Edits(d, ops) \ Deferred(d, ops), SetToSortSeq(Deferred(d, ops), <))

(* What a reply makes of a draft, or nothing when it applies nothing or    *)
(* leaves no paragraph: the attempt then counts as failed.                 *)
Revised(d, lines) ==
  LET ops == Operations(lines)
      kept == Kept(d, ops)
      spliced == Rendered(d, ops, kept)
  IN IF kept \cup Inserts(d, ops) = {} \/ Paragraphs(spliced) = {} THEN {}
     ELSE {spliced}

Begin(d) == /\ turns = 0 /\ turns' = 1
            /\ draft' = d /\ UNCHANGED reply

Revise(lines) ==
  /\ turns \in 1..MaxTurns
  /\ turns' = turns + 1
  /\ draft' \in Revised(draft, lines) /\ reply' = lines

SpliceNext == (\E d \in FirstDrafts : Begin(d)) \/ (\E r \in Replies : Revise(r))

SpliceSpec == SpliceInit /\ [][SpliceNext]_spliceVars

-----------------------------------------------------------------------------
(* "A Sources change that would leave a body marker citing nothing is      *)
(* refused" (ops.py): a number that had an entry and is still cited keeps  *)
(* one, whatever the reply does to the body and to the Sources together.   *)
NoMarkerOrphaned == Entered(draft) \cap Cited(draft') \subseteq Entered(draft')

EveryMarkerKeepsAnEntry == [][turns > 0 => NoMarkerOrphaned]_spliceVars

(* The same where the code sees to it: nothing is inserted among the       *)
(* Sources, or every entry states its number, so that none moves.  And in  *)
(* the latter case an edit of the Sources is turned down only over a       *)
(* number of its own paragraph that the new text still cites: a body edit  *)
(* that removes the last marker licenses the deletion (splice).            *)
AllNumbered(d) == Unnumbered \notin ToSet(Entries(d))

EntriesFollowTheirCitations ==
  [][turns > 0 =>
       LET ops == Operations(reply')
           refused == Deferred(draft, ops) \ Kept(draft, ops)
           stated == AllNumbered(draft) /\ AllNumbered(draft')
           added == {k \in Inserts(draft, ops) : Named(draft, ops[k]) \cap Body(draft) = {}}
       IN /\ added = {} \/ stated => NoMarkerOrphaned
          /\ stated => \A k \in refused : \E i \in Named(draft, ops[k]) :
                         ToSet(draft[i].marks) \cap Cited(draft') # {}
    ]_spliceVars
=============================================================================
