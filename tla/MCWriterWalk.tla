----------------------------- MODULE MCWriterWalk -----------------------------
(* Two writers, three attempts: enough for a nudge, a second writer and a   *)
(* held draft; two requests per exchange, so that every budget has a last   *)
(* unit.  A hint above the cap and above the backoff ceiling tells the two  *)
(* waits apart.                                                             *)
EXTENDS WriterWalk

CONSTANTS w1, w2
MCPool == <<w1, w2>>
MCFailures == {"timeout", "http_429", "http_400", "http_402"}
=============================================================================
