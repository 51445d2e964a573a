---------------------------- MODULE MCRefineLoop ----------------------------
(***************************************************************************)
(* Instances of RefineLoop small enough for TLC, cut from the deployed     *)
(* roster: writers that also review one lens, critic-only specialists, and *)
(* lenses that have just two families to draw on.                          *)
(***************************************************************************)
EXTENDS RefineLoopProperties

issue(k, s) == [key |-> k, sev |-> s]

(* One model behind each alias; gemma4 and gemma4-small are one family. *)
MCIdentityOf == [a \in Aliases |-> a]
MCFamilyOf == [x \in Aliases |-> IF x = "gemma4-small" THEN "gemma4" ELSE x]

MCWriters == <<"mistral", "deepseek">>
OneWriter == <<"deepseek">>

LogicPool == [l \in {"logic"} |-> <<"mistral", "gemma4", "glm">>]
EvidencePool == [l \in {"evidence"} |-> <<"glm", "gemma4">>]
BothPools == [l \in {"logic", "evidence"} |->
                IF l = "logic" THEN <<"mistral", "gemma4", "glm">> ELSE <<"glm", "gemma4">>]

LogicTwoDeep == [l \in {"logic"} |-> 2]
EvidenceOneDeep == [l \in {"evidence"} |-> 1]
EvidenceTwoDeep == [l \in {"evidence"} |-> 2]
BothOneDeep == [l \in {"logic", "evidence"} |-> 1]

(* Findings: a contradiction or a fabricated citation always blocks; an    *)
(* inference, a misrepresented source or an uncited claim is at least      *)
(* major; a muddle may be minor; style never counts.                       *)
MCKeys == {"contradiction", "inference", "muddle", "style", "fabricated",
           "misrepresented", "uncited"}
MCCategoryOf == [k \in MCKeys |-> k]
MCFloorOf == [k \in MCKeys |-> CASE k \in {"contradiction", "fabricated"} -> 2
                                 [] k \in {"inference", "misrepresented", "uncited"} -> 1
                                 [] OTHER -> 0]

(* What critics may return: severities below a floor, a material muddle    *)
(* that only escalation makes count, and escalated style that must not.    *)
LogicReports == [l \in {"logic"} |->
  {{}, {issue("contradiction", 1)}, {issue("inference", 0)}, {issue("muddle", 0), issue("style", 1)}}]
UncitedOrClean == [l \in {"evidence"} |-> {{}, {issue("uncited", 1)}}]
StallReports == [l \in {"evidence"} |->
  {{}, {issue("uncited", 1)}, {issue("fabricated", 2)}}]
MajorOrClean == [l \in {"logic", "evidence"} |->
  IF l = "logic" THEN {{}, {issue("inference", 0)}} ELSE {{}, {issue("fabricated", 2)}}]
DisputedReports == [l \in {"evidence"} |->
  {{}, {issue("misrepresented", 1), issue("uncited", 1), issue("muddle", 0)}}]
=============================================================================
