----------------------------- MODULE Callbacks -----------------------------
(***************************************************************************)
(* jQuery.Callbacks (jquery-2.1.4.js), the list of callbacks behind        *)
(* $.Deferred, $.ajax and $(document).ready.  There is one thread, but the *)
(* code is re-entrant: while a list is firing, the callback that runs may  *)
(* add to the list, remove from it, fire it again, lock or disable it, or  *)
(* do the same to another list.                                            *)
(*                                                                         *)
(* frames is the stack of the calls of fire: a list has at most one frame, *)
(* because a list that is firing only queues the next fire.  Indexes count *)
(* from 0, as in the code.                                                 *)
(***************************************************************************)
EXTENDS Integers, Sequences, FiniteSets, Filter

CONSTANTS
    Fn,         \* the functions of the program that is served
    Data,       \* the values a list is fired with
    NoData,     \* memory is undefined
    MaxOps,     \* bound on the calls of the program
    Throws      \* a function may throw

ASSUME CallbacksAssumption ==
    /\ NoData \notin Data
    /\ Fn \cap {"state", "disable", "lock"} = {}
    /\ MaxOps \in Nat
    /\ Throws \in BOOLEAN

VARIABLES
    lists,      \* the variables of each list
    frames,     \* the calls of fire under way, the innermost last
    ops,        \* the number of calls of the program so far
    thrown      \* a function has thrown

vars == <<lists, frames, ops, thrown>>

Options == [once : BOOLEAN, memory : BOOLEAN, unique : BOOLEAN, stopOnFalse : BOOLEAN]

Wiring == <<"state", "disable", "lock">>    \* the functions of a Deferred
Callable == Fn \cup {"state", "disable", "lock"}

\* disabled: list is undefined; locked: stack is undefined or false.
New(options) ==
    [options |-> options, list |-> <<>>, disabled |-> FALSE, stack |-> <<>>,
     locked |-> options.once, memory |-> NoData, fired |-> FALSE, firing |-> FALSE,
     data |-> NoData, firingStart |-> 0, firingLength |-> 0, firingIndex |-> 0]

\* The lists and indexes have their types, and fire is never entered again for a
\* list that fires: there is one frame at most for each.
TypeOK ==
    /\ \A l \in DOMAIN lists :
         /\ lists[l].list \in Seq(Callable) /\ lists[l].stack \in Seq(Data)
         /\ {lists[l].memory, lists[l].data} \subseteq Data \cup {NoData}
         /\ lists[l].firingStart \in Nat /\ lists[l].firingLength \in Nat /\ lists[l].firingIndex \in Int
    /\ \A i \in DOMAIN frames :
         /\ frames[i].of \in DOMAIN lists /\ lists[frames[i].of].firing
         /\ frames[i].at \in {"loop", "call", "break"} /\ frames[i].fn \in Callable \cup {NoData}
         /\ \A j \in DOMAIN frames : frames[i].of = frames[j].of => i = j
    /\ ops \in 0 .. MaxOps /\ thrown \in BOOLEAN

Top == frames[Len(frames)]
Pop == SubSeq(frames, 1, Len(frames) - 1)
Frame(l) == [of |-> l, at |-> "loop", fn |-> NoData]

\* The main program runs, or a function called by the innermost fire.
ProgramRuns == frames # <<>> => Top.at = "call" /\ Top.fn \in Fn

Op ==
    /\ ProgramRuns
    /\ ops < MaxOps
    /\ ops' = ops + 1
    /\ UNCHANGED thrown
-----------------------------------------------------------------------------
\* fire(data), up to the loop.
Fire(cb, data) ==
    [cb EXCEPT !.memory = IF cb.options.memory THEN data ELSE NoData,
               !.data = data,
               !.fired = TRUE,
               !.firingIndex = cb.firingStart,
               !.firingStart = 0,
               !.firingLength = Len(cb.list),
               !.firing = TRUE]

Disable(cb) ==
    [cb EXCEPT !.disabled = TRUE, !.list = <<>>, !.locked = TRUE, !.stack = <<>>, !.memory = NoData]

Lock(cb) ==
    LET locked == [cb EXCEPT !.locked = TRUE, !.stack = <<>>]
    IN  IF cb.memory = NoData THEN Disable(locked) ELSE locked

\* Mutant: the index of the function that runs is not moved.
RemoveFn_KeepIndex(cb, f) ==
    LET at == {i \in 0 .. Len(cb.list) - 1 : cb.list[i + 1] = f}
    IN  [cb EXCEPT !.list = Without(@, f),
                   !.firingLength = IF cb.firing THEN @ - Cardinality(at) ELSE @]

\* splice for every occurrence, with the indexes of the loop moved along.
RemoveFn(cb, f) ==
    LET at == {i \in 0 .. Len(cb.list) - 1 : cb.list[i + 1] = f}
        Before(n) == Cardinality({i \in at : i <= n})
    IN  [cb EXCEPT !.list = Without(@, f),
                   !.firingLength = IF cb.firing THEN @ - Before(@) ELSE @,
                   !.firingIndex = IF cb.firing THEN @ - Before(@) ELSE @]

\* Mutant: the length of the batch is not reset.
EmptyList_KeepLength(cb) == [cb EXCEPT !.list = <<>>]

EmptyList(cb) == [cb EXCEPT !.list = <<>>, !.firingLength = 0]

Pushed(cb, f) ==
    IF cb.options.unique /\ \E i \in DOMAIN cb.list : cb.list[i] = f
      THEN cb ELSE [cb EXCEPT !.list = Append(@, f)]
-----------------------------------------------------------------------------
\* A list that fires takes the function into the batch; one with a memory
\* that does not is fired for the new function at once.
Add(l, f) ==
    LET cb == lists[l] pushed == Pushed(cb, f) IN
    /\ Op
    /\ \/ cb.disabled /\ UNCHANGED <<lists, frames>>
       \/ /\ ~cb.disabled /\ cb.firing
          /\ lists' = [lists EXCEPT ![l] = [pushed EXCEPT !.firingLength = Len(pushed.list)]]
          /\ UNCHANGED frames
       \/ /\ ~cb.disabled /\ ~cb.firing /\ cb.memory # NoData
          /\ lists' = [lists EXCEPT ![l] =
                         Fire([pushed EXCEPT !.firingStart = Len(cb.list)], cb.memory)]
          /\ frames' = Append(frames, Frame(l))
       \/ /\ ~cb.disabled /\ ~cb.firing /\ cb.memory = NoData
          /\ lists' = [lists EXCEPT ![l] = pushed]
          /\ UNCHANGED frames

Set(l, cb) == Op /\ lists' = [lists EXCEPT ![l] = cb] /\ UNCHANGED frames

Remove(l, f) == Set(l, IF lists[l].disabled THEN lists[l] ELSE RemoveFn(lists[l], f))

\* empty gives a disabled list back its array.
Empty(l) == Set(l, [EmptyList(lists[l]) EXCEPT !.disabled = FALSE])
DisableList(l) == Set(l, Disable(lists[l]))
LockList(l) == Set(l, Lock(lists[l]))

MayFire(cb) == ~cb.disabled /\ (cb.fired => ~cb.locked)

FireWith(l, data) ==
    LET cb == lists[l] IN
    /\ Op
    /\ \/ ~MayFire(cb) /\ UNCHANGED <<lists, frames>>
       \/ /\ MayFire(cb) /\ cb.firing
          /\ lists' = [lists EXCEPT ![l].stack = Append(@, data)]
          /\ UNCHANGED frames
       \/ /\ MayFire(cb) /\ ~cb.firing
          /\ lists' = [lists EXCEPT ![l] = Fire(cb, data)]
          /\ frames' = Append(frames, Frame(l))
-----------------------------------------------------------------------------
\* The loop of fire.

InLoop(at) == frames # <<>> /\ Top.at = at

More(cb) == ~cb.disabled /\ cb.firingIndex < cb.firingLength

CallNext ==
    LET cb == lists[Top.of] IN
    /\ InLoop("loop")
    /\ More(cb)
    /\ frames' = [frames EXCEPT ![Len(frames)].at = "call",
                                ![Len(frames)].fn = cb.list[cb.firingIndex + 1]]
    /\ UNCHANGED <<lists, ops, thrown>>

\* The function returns; false ends the firing of a list with stopOnFalse.
Return(false) ==
    LET l == Top.of IN
    /\ InLoop("call")
    /\ Top.fn \in Fn
    /\ \/ /\ false /\ lists[l].options.stopOnFalse
          /\ lists' = [lists EXCEPT ![l].memory = NoData]
          /\ frames' = [frames EXCEPT ![Len(frames)].at = "break"]
       \/ /\ ~(false /\ lists[l].options.stopOnFalse)
          /\ lists' = [lists EXCEPT ![l].firingIndex = @ + 1]
          /\ frames' = [frames EXCEPT ![Len(frames)].at = "loop"]
    /\ UNCHANGED <<ops, thrown>>

\* After the loop: the next fire that was queued, or what once asks for.
Finish ==
    LET l == Top.of cb == lists[l] done == [cb EXCEPT !.firing = FALSE] IN
    /\ (InLoop("loop") /\ ~More(cb)) \/ InLoop("break")
    /\ \/ /\ ~cb.disabled /\ ~cb.locked /\ cb.stack # <<>>
          /\ lists' = [lists EXCEPT ![l] = Fire([done EXCEPT !.stack = Tail(@)], Head(cb.stack))]
          /\ frames' = Append(Pop, Frame(l))
       \/ /\ cb.disabled \/ (~cb.locked /\ cb.stack = <<>>)
          /\ lists' = [lists EXCEPT ![l] = done]
          /\ frames' = Pop
       \/ /\ ~cb.disabled /\ cb.locked
          /\ lists' = [lists EXCEPT ![l] =
                         IF cb.memory # NoData THEN [done EXCEPT !.list = <<>>] ELSE Disable(done)]
          /\ frames' = Pop
    /\ UNCHANGED <<ops, thrown>>

\* An exception leaves every fire under way; firing stays set.
Throw ==
    /\ Throws
    /\ InLoop("call") /\ Top.fn \in Fn
    /\ frames' = <<>>
    /\ thrown' = TRUE
    /\ UNCHANGED <<lists, ops>>
=============================================================================
