------------------------------ MODULE Deferred ------------------------------
(***************************************************************************)
(* jQuery.Deferred (jquery-2.1.4.js): three lists of callbacks wired       *)
(* together by the first functions of two of them, which set the state,    *)
(* disable the list of the other outcome and lock the list of progress.    *)
(* The program registers handlers and settles or notifies the Deferred,    *)
(* also from within a handler.                                             *)
(***************************************************************************)
EXTENDS Callbacks

VARIABLES
    state,      \* "pending", "resolved" or "rejected"
    added,      \* how often each function was registered (history)
    called,     \* how often it was called (history)
    noted       \* the values notified before the Deferred was settled (history)

deferredVars == <<vars, state, added, called, noted>>

Lists == {"done", "fail", "progress"}
Outcomes == {"done", "fail"}
Other(l) == IF l = "done" THEN "fail" ELSE "done"
Settled(l) == IF l = "done" THEN "resolved" ELSE "rejected"

OnceMemory == [once |-> TRUE, memory |-> TRUE, unique |-> FALSE, stopOnFalse |-> FALSE]
Memory == [OnceMemory EXCEPT !.once = FALSE]

NoCalls == [l \in Lists |-> [f \in Fn |-> 0]]

DeferredInit ==
    /\ lists = [l \in Lists |->
                  IF l = "progress" THEN New(Memory) ELSE [New(OnceMemory) EXCEPT !.list = Wiring]]
    /\ frames = <<>> /\ ops = 0 /\ thrown = FALSE
    /\ state = "pending"
    /\ added = NoCalls /\ called = NoCalls /\ noted = {}

\* done, fail and progress.
Register(l, f) ==
    /\ Add(l, f)
    /\ added' = [added EXCEPT ![l][f] = @ + 1]
    /\ UNCHANGED <<state, called, noted>>

\* resolve, reject and notify.
Settle(l, d) ==
    /\ l \in Outcomes
    /\ FireWith(l, d)
    /\ UNCHANGED <<state, added, called, noted>>

Notify(d) ==
    /\ FireWith("progress", d)
    /\ noted' = IF state = "pending" THEN noted \cup {d} ELSE noted
    /\ UNCHANGED <<state, added, called>>

Call ==
    /\ CallNext
    /\ called' = IF frames'[Len(frames)].fn \in Fn
                   THEN [called EXCEPT ![Top.of][frames'[Len(frames)].fn] = @ + 1] ELSE called
    /\ UNCHANGED <<state, added, noted>>

\* Mutant: the list of the other outcome is left as it is.
Wired_BothOpen ==
    LET l == Top.of next == [lists EXCEPT ![l].firingIndex = @ + 1] IN
    /\ InLoop("call")
    /\ \/ Top.fn = "state" /\ state' = Settled(l) /\ lists' = next
       \/ Top.fn = "disable" /\ lists' = next /\ UNCHANGED state
       \/ Top.fn = "lock" /\ lists' = [next EXCEPT !["progress"] = Lock(@)] /\ UNCHANGED state
    /\ frames' = [frames EXCEPT ![Len(frames)].at = "loop"]
    /\ UNCHANGED <<ops, thrown, added, called, noted>>

\* Mutant: the list of progress is left open.
Wired_NoLock ==
    LET l == Top.of next == [lists EXCEPT ![l].firingIndex = @ + 1] IN
    /\ InLoop("call")
    /\ \/ Top.fn = "state" /\ state' = Settled(l) /\ lists' = next
       \/ Top.fn = "disable" /\ lists' = [next EXCEPT ![Other(l)] = Disable(@)] /\ UNCHANGED state
       \/ Top.fn = "lock" /\ lists' = next /\ UNCHANGED state
    /\ frames' = [frames EXCEPT ![Len(frames)].at = "loop"]
    /\ UNCHANGED <<ops, thrown, added, called, noted>>

\* The three functions of the Deferred itself.
Wired ==
    LET l == Top.of next == [lists EXCEPT ![l].firingIndex = @ + 1] IN
    /\ InLoop("call")
    /\ \/ Top.fn = "state" /\ state' = Settled(l) /\ lists' = next
       \/ Top.fn = "disable" /\ lists' = [next EXCEPT ![Other(l)] = Disable(@)] /\ UNCHANGED state
       \/ Top.fn = "lock" /\ lists' = [next EXCEPT !["progress"] = Lock(@)] /\ UNCHANGED state
    /\ frames' = [frames EXCEPT ![Len(frames)].at = "loop"]
    /\ UNCHANGED <<ops, thrown, added, called, noted>>

DeferredNext ==
    \/ \E l \in Lists, f \in Fn : Register(l, f)
    \/ \E l \in Outcomes, d \in Data : Settle(l, d)
    \/ \E d \in Data : Notify(d)
    \/ Call \/ Wired
    \/ (Return(FALSE) \/ Finish \/ Throw) /\ UNCHANGED <<state, added, called, noted>>

DeferredSpec == DeferredInit /\ [][DeferredNext]_deferredVars
-----------------------------------------------------------------------------
Idle == frames = <<>> /\ ~thrown

\* When nothing runs, every handler of the outcome has been called as often as
\* it was registered, before or after, in a handler or not; a handler that
\* throws keeps the rest from being called.
HandlersServed ==
    Idle => \A l \in Outcomes \cap DOMAIN lists :
                /\ state = Settled(l) => called[l] = added[l]
                /\ lists[l].fired => state = Settled(l)

\* A progress handler sees only values notified before the Deferred was settled.
NoLateProgress ==
    frames # <<>> /\ Top.of = "progress" /\ Top.at = "call" => lists["progress"].data \in noted

\* Handlers of the outcome are all served, those of progress not too late.
HandlersInv == HandlersServed /\ NoLateProgress

Promised == INSTANCE Promise WITH
    Handler <- Fn,
    waiting <- [l \in Outcomes |->
                  IF state = Settled(Other(l)) THEN [f \in Fn |-> 0]
                  ELSE [f \in Fn |-> added[l][f] - called[l][f]]]

\* A Deferred is settled once, and calls each handler of its outcome once.
ImplementsPromise == Promised!Spec
=============================================================================
