------------------------- MODULE MCGoogleCredentials -------------------------
(* One tick, one check, two callbacks of the same reconnect, one rotation. *)
EXTENDS GoogleCredentials

CONSTANTS t1, w1, q1, q2, a1, a2
===============================================================================
