------------------------------ MODULE AckQueue ------------------------------
(***************************************************************************)
(* What a queue with manual acknowledgement promises: a message that was   *)
(* put in is pending or held by one consumer until it has been handled; a  *)
(* consumer that breaks off gives its message back, so that a message may  *)
(* be handled twice but is never lost.                                     *)
(***************************************************************************)
CONSTANTS Message, Consumer

VARIABLES
    accepted,   \* the messages put in
    pending,    \* the messages no consumer holds
    held,       \* the messages each consumer holds
    handled     \* the messages whose work has been done at least once

vars == <<accepted, pending, held, handled>>

Init ==
    /\ accepted = {}
    /\ pending = {}
    /\ held = [c \in Consumer |-> {}]
    /\ handled = {}

Put(m) ==
    /\ m \notin accepted
    /\ accepted' = accepted \cup {m}
    /\ pending' = pending \cup {m}
    /\ UNCHANGED <<held, handled>>

\* One message at a time: the prefetch count is 1.
Take(c, m) ==
    /\ m \in pending
    /\ held[c] = {}
    /\ pending' = pending \ {m}
    /\ held' = [held EXCEPT ![c] = {m}]
    /\ UNCHANGED <<accepted, handled>>

Handle(c, m) ==
    /\ m \in held[c]
    /\ handled' = handled \cup {m}
    /\ UNCHANGED <<accepted, pending, held>>

Ack(c, m) ==
    /\ m \in held[c] \cap handled
    /\ held' = [held EXCEPT ![c] = {}]
    /\ UNCHANGED <<accepted, pending, handled>>

GiveBack(S) ==
    /\ pending' = pending \cup UNION {held[c] : c \in S}
    /\ held' = [c \in Consumer |-> IF c \in S THEN {} ELSE held[c]]
    /\ UNCHANGED <<accepted, handled>>

Next ==
    \/ \E m \in Message :
        Put(m) \/ \E c \in Consumer : Take(c, m) \/ Handle(c, m) \/ Ack(c, m)
    \/ \E S \in SUBSET Consumer : GiveBack(S)

Spec == Init /\ [][Next]_vars
=============================================================================
