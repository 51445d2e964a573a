--------------------------- MODULE MCRefineService ---------------------------
(***************************************************************************)
(* Three requests for one permit, two spellings of one question and a      *)
(* second question; every store holds one entry, so that eviction, expiry  *)
(* and coalescing all meet.                                                *)
(***************************************************************************)
EXTENDS RefineService

MCKeyOf == [q \in Questions |-> IF q \in {"why?", " why?"} THEN "why?" ELSE q]

(* Two spellings of one question, and a third request for it or another.   *)
CONSTANTS r1, r2, r3
MCAsks == {[r \in Requests |-> CASE r = r1 -> "why?" [] r = r2 -> " why?" [] r = r3 -> q] :
             q \in {"why?", "how?"}}
=============================================================================
