----------------------------- MODULE Directory -----------------------------
(***************************************************************************)
(* What a consumer of the registry is promised: the addresses it holds are *)
(* the members of the directory as they all were at one moment, never a    *)
(* mixture of two moments, and that moment moves forward.  The one         *)
(* exception is the list its constructor loads, which may be older than    *)
(* one that an event has brought in the meantime.                          *)
(***************************************************************************)
EXTENDS Naturals, Sequences

CONSTANTS Member, Reader

VARIABLES
    history,    \* the members, after each change
    seen,       \* seen[r]: the moment, as an index of history, r holds
    loaded      \* the readers whose constructor has returned

vars == <<history, seen, loaded>>

Members == history[Len(history)]

Init ==
    /\ history = <<{}>>
    /\ seen = [r \in Reader |-> 1]
    /\ loaded = {}

Join(m) ==
    /\ m \notin Members
    /\ history' = Append(history, Members \cup {m})
    /\ UNCHANGED <<seen, loaded>>

Leave(m) ==
    /\ m \in Members
    /\ history' = Append(history, Members \ {m})
    /\ UNCHANGED <<seen, loaded>>

Observe(r) ==
    /\ \E v \in seen[r] .. Len(history) : seen' = [seen EXCEPT ![r] = v]
    /\ UNCHANGED <<history, loaded>>

Load(r) ==
    /\ r \notin loaded
    /\ loaded' = loaded \cup {r}
    /\ \E v \in 1 .. Len(history) : seen' = [seen EXCEPT ![r] = v]
    /\ UNCHANGED history

Next ==
    \/ \E m \in Member : Join(m) \/ Leave(m)
    \/ \E r \in Reader : Observe(r) \/ Load(r)

Spec == Init /\ [][Next]_vars
=============================================================================
