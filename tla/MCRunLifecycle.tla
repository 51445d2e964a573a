--------------------------- MODULE MCRunLifecycle ---------------------------
(***************************************************************************)
(* One run, two threads that could both drive it, four processes, two      *)
(* configurations: enough for the run to fail, to be resumed automatically *)
(* up to the cap and to be given up, while it is deferred, paused, or      *)
(* asked for by two requests at once.  Runs share only the queue and the   *)
(* threads, and every property here is about one run.                      *)
(***************************************************************************)
EXTENDS RunLifecycle

OneRun == 1..1
=============================================================================
