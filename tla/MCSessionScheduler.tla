------------------------- MODULE MCSessionScheduler -------------------------
(* Two workers of different envelopes, and more sessions than fit. *)
EXTENDS SessionScheduler, TLC

CONSTANTS s1, s2, s3, s4, s5, s6

MCSessions == {s1, s2, s3, s4, s5, s6}
MCWorkers == {0, 1}
MCCapacity == 0 :> 1 @@ 1 :> 2
=============================================================================
