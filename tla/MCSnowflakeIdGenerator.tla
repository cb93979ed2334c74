----------------------- MODULE MCSnowflakeIdGenerator -----------------------
(* Two generators, two sequence numbers per millisecond. *)
EXTENDS SnowflakeIdGenerator, TLC

CONSTANTS g1, g2

TwoNodes == (g1 :> 0) @@ (g2 :> 1)
=============================================================================
