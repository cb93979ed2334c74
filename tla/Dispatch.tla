------------------------------ MODULE Dispatch ------------------------------
(***************************************************************************)
(* What a list of callbacks promises: values are delivered one batch after *)
(* another, in the order they were given.  A batch holds the members at    *)
(* the moment it starts, each is called once and in order; who joins while *)
(* the batch is delivered is added to it, who leaves is not called.        *)
(***************************************************************************)
EXTENDS Sequences, Filter

CONSTANTS Member, Value, NoValue

VARIABLES
    members,    \* the functions of the list, in order
    batch,      \* those that are still to be called with value
    busy,       \* a batch is delivered
    value,      \* its value, or the value the list remembers
    queue,      \* the values of the batches to come
    cleared,    \* the list was emptied since the batch started
    closed,     \* nobody may join and nothing is delivered
    breakable   \* a function may end its batch

vars == <<members, batch, busy, value, queue, cleared, closed, breakable>>

Init ==
    /\ members = <<>> /\ batch = <<>> /\ queue = <<>>
    /\ busy = FALSE /\ cleared = FALSE /\ closed = FALSE
    /\ value = NoValue
    /\ breakable \in BOOLEAN

Start(v, fs) == busy' = TRUE /\ value' = v /\ batch' = fs /\ cleared' = FALSE

\* A list with a memory delivers the last value to a new member alone.  A
\* member that joins a list emptied in the middle of a batch may be missed.
Join(f) ==
    /\ ~closed
    /\ members' = Append(members, f)
    /\ \/ busy /\ batch' = Append(batch, f) /\ UNCHANGED <<busy, value, cleared>>
       \/ busy /\ cleared /\ UNCHANGED <<batch, busy, value, cleared>>
       \/ ~busy /\ value = NoValue /\ UNCHANGED <<batch, busy, value, cleared>>
       \/ ~busy /\ value # NoValue /\ Start(value, <<f>>)
    /\ UNCHANGED <<queue, closed, breakable>>

\* A member joins again a list of distinct members that remembers a value.
Rejoin ==
    /\ ~busy /\ ~closed /\ value # NoValue
    /\ Start(value, <<>>)
    /\ UNCHANGED <<members, queue, closed, breakable>>

Leave(f) ==
    /\ members' = Without(members, f)
    /\ batch' = Without(batch, f)
    /\ UNCHANGED <<busy, value, queue, cleared, closed, breakable>>

\* Also opens a closed list.
Clear ==
    /\ members' = <<>> /\ batch' = <<>> /\ cleared' = busy /\ closed' = FALSE
    /\ UNCHANGED <<busy, value, queue, breakable>>

Give(v) ==
    /\ ~closed
    /\ \/ ~busy /\ Start(v, members) /\ UNCHANGED <<members, queue>>
       \/ busy /\ queue' = Append(queue, v) /\ UNCHANGED <<members, batch, busy, value, cleared>>
    /\ UNCHANGED <<closed, breakable>>

\* The batches to come are dropped; a list that remembers nothing closes.
Lock ==
    /\ queue' = <<>>
    /\ UNCHANGED <<members, batch, busy, value, cleared, closed, breakable>>

Close ==
    /\ queue' = <<>> /\ members' = <<>> /\ batch' = <<>> /\ closed' = TRUE
    /\ value' = IF busy THEN value ELSE NoValue
    /\ UNCHANGED <<busy, cleared, breakable>>

Call ==
    /\ batch # <<>>
    /\ batch' = Tail(batch)
    /\ UNCHANGED <<members, busy, value, queue, cleared, closed, breakable>>

Break ==
    /\ breakable
    /\ batch' = <<>>
    /\ UNCHANGED <<members, busy, value, queue, cleared, closed, breakable>>

\* A list that fires once forgets its members, and closes if it has no memory.
End ==
    /\ busy /\ batch = <<>>
    /\ \/ /\ queue # <<>> /\ Start(Head(queue), members)
          /\ queue' = Tail(queue) /\ UNCHANGED <<members, closed>>
       \/ /\ queue = <<>> /\ busy' = FALSE /\ cleared' = FALSE
          /\ value' \in {value, NoValue}
          /\ \/ UNCHANGED <<members, closed>>
             \/ members' = <<>> /\ closed' \in {closed, value' = NoValue}
          /\ UNCHANGED <<batch, queue>>
    /\ UNCHANGED breakable

Next ==
    \/ \E f \in Member : Join(f) \/ Leave(f)
    \/ \E v \in Value : Give(v)
    \/ Rejoin \/ Clear \/ Lock \/ Close \/ Call \/ Break \/ End

Spec == Init /\ [][Next]_vars
=============================================================================
