------------------------- MODULE MCDistributedLock -------------------------
(* Instances of DistributedLock for TLC: three threads in two processes, or *)
(* all in one.                                                              *)
EXTENDS DistributedLock, TLC

CONSTANTS c1, c2, c3, j1, j2

TwoJvms == (c1 :> j1) @@ (c2 :> j1) @@ (c3 :> j2)
OneJvm  == (c1 :> j1) @@ (c2 :> j1) @@ (c3 :> j1)

\* The two threads of the first process are alike.
SameProcess == Permutations({c1, c2})
=============================================================================
