---------------------------- MODULE CallbackList ----------------------------
(***************************************************************************)
(* One list made with $.Callbacks(options), and a program that uses every  *)
(* method of it, also from the functions in it.                            *)
(***************************************************************************)
EXTENDS Callbacks

CONSTANT L          \* the list

VARIABLE emptied    \* it was emptied since it began to fire (history)

listVars == <<vars, emptied>>

Of == lists[L]

ListInit ==
    /\ \E options \in Options : lists = [l \in {L} |-> New(options)]
    /\ frames = <<>> /\ ops = 0 /\ thrown = FALSE
    /\ emptied = FALSE

ListNext ==
    \/ /\ \/ \E f \in Fn : Add(L, f) \/ Remove(L, f)
          \/ \E d \in Data : FireWith(L, d)
          \/ DisableList(L) \/ LockList(L)
          \/ CallNext \/ (\E false \in BOOLEAN : Return(false)) \/ Throw
       /\ UNCHANGED emptied
    \/ Empty(L) /\ emptied' = Of.firing
    \/ Finish /\ emptied' = FALSE

ListSpec == ListInit /\ [][ListNext]_listVars
-----------------------------------------------------------------------------
FrameAt(at) == \E i \in DOMAIN frames : frames[i].of = L /\ frames[i].at = at

\* The functions that the loop of fire has not called yet.
Batch ==
    LET from == Of.firingIndex + (IF FrameAt("loop") THEN 1 ELSE 2)
    IN  IF ~Of.firing \/ Of.disabled \/ FrameAt("break")
          THEN <<>> ELSE SubSeq(Of.list, from, Of.firingLength)

\* Every add, remove, empty and disable, from wherever it is called, moves
\* firingLength and firingIndex along with the list: the loop ends with the
\* list, never reads before its start and, unless the list was emptied, never
\* beyond its end.
IndexesFollow ==
    Of.firing /\ ~Of.disabled =>
        /\ Of.firingLength = Len(Of.list)
        /\ Of.firingIndex >= IF FrameAt("loop") THEN 0 ELSE -1
        /\ emptied \/ Of.firingIndex <= Len(Of.list) - (IF FrameAt("loop") THEN 0 ELSE 1)

\* A list never fires inside its own fire, and the loop follows the list.
ListInv == TypeOK /\ IndexesFollow

Dispatcher == INSTANCE Dispatch WITH
    Member <- Fn, Value <- Data, NoValue <- NoData,
    members <- Of.list,
    batch <- Batch,
    busy <- Of.firing,
    value <- IF Of.firing THEN Of.data ELSE Of.memory,
    queue <- Of.stack,
    cleared <- emptied,
    closed <- Of.disabled,
    breakable <- Of.options.stopOnFalse

\* add, remove, empty, fire, lock and disable, called from anywhere, also from
\* the functions that are being called, keep the promise of Dispatch.
ImplementsDispatch == Dispatcher!Spec
=============================================================================
