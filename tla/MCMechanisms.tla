---------------------------- MODULE MCMechanisms ----------------------------
(***************************************************************************)
(* Five mechanisms: the submission gate, the device notices and the        *)
(* content sweep at the edge of the web application, the splice of a       *)
(* revision into a report, and the exams of an audition with the start     *)
(* that reads their verdicts.  They share no state, so interleaving them   *)
(* adds nothing to any of them, and each is explored while the others rest *)
(* in their initial states.                                                *)
(***************************************************************************)
EXTENDS SubmissionGate, DeviceNotices, ContentSweep, ReportSplice, MCStartup

MCVars == <<gateVars, deviceVars, sweepVars, spliceVars, vars>>

MCInit == GateInit /\ DevicesInit /\ SweepInit /\ SpliceInit /\ Init

GateRests == GateInit /\ UNCHANGED gateVars
DevicesRest == DevicesInit /\ UNCHANGED deviceVars
SweepRests == SweepInit /\ UNCHANGED sweepVars
SpliceRests == SpliceInit /\ UNCHANGED spliceVars
ExamsRest == Init /\ UNCHANGED vars

MCNext ==
  \/ DevicesRest /\ SweepRests /\ SpliceRests /\ ExamsRest /\ GateNext
  \/ GateRests /\ SweepRests /\ SpliceRests /\ ExamsRest /\ DevicesNext
  \/ GateRests /\ DevicesRest /\ SpliceRests /\ ExamsRest /\ SweepNext
  \/ GateRests /\ DevicesRest /\ SweepRests /\ ExamsRest /\ SpliceNext
  \/ GateRests /\ DevicesRest /\ SweepRests /\ SpliceRests /\ Next

MCSpec == MCInit /\ [][MCNext]_MCVars

(* Owners are alike, and so are devices that live.                         *)
MCAlike == Permutations(Owners) \cup Permutations(Endpoints \ Strangers)

-----------------------------------------------------------------------------
(* A body that cites two entries, one of them twice, over entries that     *)
(* state their numbers or do not; in the last draft a number dangles from  *)
(* the start.                                                              *)
MCFirstDrafts ==
  {<<Heading("findings"), Paragraph(<<1>>), Paragraph(<<1, 2>>), Heading("sources")>> \o entries :
     entries \in {<<Paragraph(<<1>>), Paragraph(<<2>>)>>,
                  <<Paragraph(<<Unnumbered>>), Paragraph(<<Unnumbered>>)>>,
                  <<Paragraph(<<1>>), Paragraph(<<3>>)>>}}

Header(kind, at) == [is |-> "header", kind |-> kind, at |-> at]

BlocksAt(at) ==
  {<<Header("delete", at)>>, <<Header("replace", at)>>}
    \cup {<<Header("replace", at)>> \o text :
            text \in {<<Paragraph(<<1>>)>>, <<Paragraph(<<2>>)>>,
                      <<Heading("sources"), Paragraph(<<Unnumbered>>), Paragraph(<<3>>)>>}}
    \cup {<<Header("insert", at), text>> : text \in {Paragraph(<<1>>), Paragraph(<<3>>)}}

(* Two operations in either order, some with their ends.                   *)
MCReplies ==
  LET body == BlocksAt(<<1, 1>>) \cup BlocksAt(<<1, 2>>)
      tail == BlocksAt(<<2, 1>>) \cup BlocksAt(<<2, 2>>)
      End == <<[is |-> "end"]>>
  IN {a \o b : a, b \in body \cup tail}
       \cup {a \o End \o b \o End : a \in BlocksAt(<<1, 1>>), b \in BlocksAt(<<2, 1>>)}
=============================================================================
