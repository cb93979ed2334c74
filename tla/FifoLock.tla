------------------------------ MODULE FifoLock ------------------------------
(***************************************************************************)
(* What the distributed lock promises: clients line up once, in the order  *)
(* of their arrival, and only the first of the line may be inside.  A      *)
(* client may drop out at any place of the line.                           *)
(***************************************************************************)
EXTENDS Integers

CONSTANT Client

VARIABLES
    line,       \* the clients in line or inside
    place,      \* the place a client was given on arrival, 0 before
    last,       \* the next place to be given
    inside      \* the clients inside

lineVars == <<line, place, last, inside>>

Init ==
    /\ line = {}
    /\ place = [c \in Client |-> 0]
    /\ last = 1
    /\ inside = {}

Arrive(c) ==
    /\ place[c] = 0
    /\ line' = line \cup {c}
    /\ place' = [place EXCEPT ![c] = last]
    /\ last' = last + 1
    /\ UNCHANGED inside

Enter(c) ==
    /\ inside = {}
    /\ c \in line
    /\ \A d \in line \ {c} : place[c] < place[d]
    /\ inside' = {c}
    /\ UNCHANGED <<line, place, last>>

\* Leaving the critical section keeps the place until the client drops out.
Leave(c) ==
    /\ c \in inside
    /\ inside' = inside \ {c}
    /\ UNCHANGED <<line, place, last>>

DropOut(c) ==
    /\ c \in line
    /\ line' = line \ {c}
    /\ inside' = inside \ {c}
    /\ UNCHANGED <<place, last>>

Next == \E c \in Client : Arrive(c) \/ Enter(c) \/ Leave(c) \/ DropOut(c)

Spec == Init /\ [][Next]_lineVars
=============================================================================
