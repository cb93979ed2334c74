------------------------------ MODULE Promise ------------------------------
(***************************************************************************)
(* What a Deferred promises: it is settled at most once, and each handler  *)
(* of its outcome, registered before or after, is called once; a handler   *)
(* of the other outcome never is.                                          *)
(***************************************************************************)
EXTENDS Naturals

CONSTANT Handler

VARIABLES
    state,      \* "pending", "resolved" or "rejected"
    waiting     \* how often each handler of each outcome is still to be called

vars == <<state, waiting>>

Kinds == {"done", "fail"}
KindOf(s) == IF s = "resolved" THEN "done" ELSE "fail"
None == [h \in Handler |-> 0]

Init ==
    /\ state = "pending"
    /\ waiting = [k \in Kinds |-> None]

\* The handlers of the other outcome are forgotten.
Settle(s) ==
    /\ state = "pending"
    /\ state' = s
    /\ waiting' = [k \in Kinds |-> IF k = KindOf(s) THEN waiting[k] ELSE None]

Register(k, h) ==
    /\ state = "pending" \/ k = KindOf(state)
    /\ waiting' = [waiting EXCEPT ![k][h] = @ + 1]
    /\ UNCHANGED state

Deliver(k, h) ==
    /\ state # "pending"
    /\ k = KindOf(state)
    /\ waiting[k][h] > 0
    /\ waiting' = [waiting EXCEPT ![k][h] = @ - 1]
    /\ UNCHANGED state

Next ==
    \/ \E s \in {"resolved", "rejected"} : Settle(s)
    \/ \E k \in Kinds, h \in Handler : Register(k, h) \/ Deliver(k, h)

Spec == Init /\ [][Next]_vars
=============================================================================
