------------------------- MODULE MCServiceRegistry -------------------------
(* Two servers with an address each and one consumer. *)
EXTENDS ServiceRegistry, TLC

CONSTANTS p1, p2, c1, u1, u2

TwoAddresses == (p1 :> u1) @@ (p2 :> u2)

AllFaults == [present |-> TRUE, faults |-> {"crash", "expire", "loss"}]
FirstStart == [present |-> FALSE, faults |-> {"crash"}]

EveryScenario == {AllFaults, FirstStart}
NoFault == {[present |-> TRUE, faults |-> {}]}
=============================================================================
