------------------------- MODULE AcceptanceContract -------------------------
(***************************************************************************)
(* What a refine run promises about the verdict it puts on a draft, with   *)
(* nothing of how it gets there: a draft collects witnesses (a lens and    *)
(* the model family that read it and found nothing material) and perhaps   *)
(* an objection; a new draft starts with neither; and the strength of the  *)
(* verdict is bounded by the witnesses the judged draft has.               *)
(***************************************************************************)
EXTENDS Integers

CONSTANTS Readings, Houses, Floor, Cap   \* lenses, families, min_ticks, hard_cap

VARIABLES
  drafts,     \* drafts written so far
  witnesses,  \* <<lens, family>> pairs that found the current draft clean
  objection,  \* some review of the current draft found a material issue
  verdict     \* "none" until the run ends

Verdict == {"accepted", "converged_unconfirmed", "exhausted_unresolved",
            "needs_human_review", "aborted"}

Witnessed(l, n) ==
  IF n = 1 THEN \E f \in Houses : <<l, f>> \in witnesses
  ELSE \E f, g \in Houses : f # g /\ <<l, f>> \in witnesses /\ <<l, g>> \in witnesses

Warranted(v) ==
  CASE v = "accepted" ->
         drafts >= Floor /\ ~ objection /\ \A l \in Readings : Witnessed(l, 2)
    [] v = "converged_unconfirmed" ->
         drafts >= Floor /\ ~ objection /\ \A l \in Readings : Witnessed(l, 1)
    [] v = "needs_human_review" -> objection
    [] OTHER -> TRUE

Init == drafts = 0 /\ witnesses = {} /\ objection = FALSE /\ verdict = "none"

Draft == /\ verdict = "none" /\ drafts < Cap
         /\ drafts' = drafts + 1
         /\ witnesses' = {} /\ objection' = FALSE
         /\ UNCHANGED verdict

Review == /\ verdict = "none" /\ drafts > 0
          /\ witnesses' \in SUBSET (Readings \X Houses) /\ witnesses \subseteq witnesses'
          /\ objection' \in BOOLEAN /\ (objection => objection')
          /\ UNCHANGED <<drafts, verdict>>

Conclude == /\ verdict = "none"
            /\ verdict' \in {v \in Verdict : Warranted(v)}
            /\ UNCHANGED <<drafts, witnesses, objection>>

Next == Draft \/ Review \/ Conclude

Spec == Init /\ [][Next]_<<drafts, witnesses, objection, verdict>>
=============================================================================
