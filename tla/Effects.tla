------------------------------ MODULE Effects ------------------------------
(***************************************************************************)
(* The queues and animations of jQuery (jquery-2.1.4.js: queue, dequeue,   *)
(* promise, animate, stop, finish and the timers of jQuery.fx), for a      *)
(* program that calls them from the outside and from the functions that    *)
(* they call: the step and complete functions of an animation and the      *)
(* functions of promise().  There is one thread; the stack of an fx record *)
(* holds the calls under way, the innermost last.  Time is abstracted: an  *)
(* animation is due at some tick after its first, or at once when its      *)
(* duration is 0.  Indexes of arrays count from 1.                         *)
(***************************************************************************)
EXTENDS Integers, Sequences, FiniteSets, SequencesExt

CONSTANTS
    Elem,       \* the elements
    MaxAnims,   \* bound on the animations
    MaxOps      \* bound on the other calls of the program

ASSUME EffectsAssumption == MaxAnims \in Nat /\ MaxOps \in Nat

VARIABLES
    fx,         \* the variables of jQuery
    ops,        \* the number of calls of the program so far
    odd         \* what the program has done that jQuery is not prepared for (history)

vars == <<fx, ops, odd>>

Anim == 1 .. MaxAnims
InProgress == 0         \* the sentinel of a queue

\* elem: the timer is marked with its element.  attached: the functions of the
\* options are on the Deferred.
NotMade ==
    [of |-> "none", queued |-> TRUE, zero |-> FALSE, state |-> "new",
     stopped |-> FALSE, elem |-> FALSE, attached |-> FALSE]

Gone == [NotMade EXCEPT !.state = "gone"]

\* unqueued: the animations that run beside the queue.  waiting: the promises.
NoHooks == [present |-> FALSE, unqueued |-> 0, waiting |-> 0]

Init ==
    /\ fx = [timers |-> <<>>, timerId |-> FALSE, anims |-> [a \in Anim |-> NotMade],
             queue |-> [e \in Elem |-> <<>>], hooks |-> [e \in Elem |-> NoHooks],
             finish |-> [e \in Elem |-> FALSE], stack |-> <<>>]
    /\ ops = 0
    /\ odd = {}

\* A function of the program that jQuery has called, and a call of jQuery about a:
\* an animation, or for stop and finish an element.  i: the position in timers.
\* end: gotoEnd of stop, or whether a tick left time.  todo: the old queue of finish.
User == [at |-> "user", a |-> 0, i |-> 0, end |-> FALSE, dequeue |-> TRUE, todo |-> <<>>]
Of(at, a) == [User EXCEPT !.at = at, !.a = a]

Push(s, f) == [s EXCEPT !.stack = Append(@, f)]
Pop(s) == [s EXCEPT !.stack = Front(@)]
GoTo(s, f) == [s EXCEPT !.stack[Len(s.stack)] = f]
-----------------------------------------------------------------------------
\* Queues.

QueueHooks(s, e) == [s EXCEPT !.hooks[e].present = TRUE]

\* hooks.empty.fire: the data of the queue goes, then the promises are told.
\* Mutant: the animations beside the queue are not counted.
EmptyFire_Beside(s, e) ==
    [s EXCEPT !.queue[e] = <<>>, !.hooks[e] = NoHooks,
              !.stack = @ \o [i \in 1 .. s.hooks[e].waiting |-> User]]

EmptyFire(s, e) ==
    IF s.hooks[e].unqueued > 0 THEN s
    ELSE [s EXCEPT !.queue[e] = <<>>, !.hooks[e] = NoHooks,
                   !.stack = @ \o [i \in 1 .. s.hooks[e].waiting |-> User]]

\* A new animation, with its first tick.
DoAnimation(s, a) ==
    LET e == s.anims[a].of
        counted == IF s.anims[a].queued THEN s
                   ELSE [QueueHooks(s, e) EXCEPT !.hooks[e].unqueued = @ + 1]
        timed == [counted EXCEPT !.timers = Append(@, a),
                                 !.anims[a].state = "pending", !.anims[a].elem = TRUE]
    IN  Push(Push(timed, Of("timer", a)), Of("step", a))

Dequeue(s, e) ==
    LET q == s.queue[e]
        rest == IF q # <<>> /\ Head(q) = InProgress THEN Tail(q) ELSE q
        hooked == QueueHooks(s, e)
    IN  IF rest = <<>>
          THEN EmptyFire([hooked EXCEPT !.queue[e] = <<>>], e)
          ELSE DoAnimation([hooked EXCEPT !.queue[e] = <<InProgress>> \o Tail(rest)], Head(rest))

\* fn.queue: a queue that is not in progress is started.
Queue(s, e, q) ==
    LET set == QueueHooks([s EXCEPT !.queue[e] = q], e) IN
    IF q # <<>> /\ Head(q) = InProgress THEN set ELSE Dequeue(set, e)
-----------------------------------------------------------------------------
\* Animations.

\* opt.complete: the function of the program, and the next of the queue.
Complete(s, a) ==
    Push(s, IF s.anims[a].queued THEN Of("complete", a) ELSE User)

\* Mutant: a settled Deferred is settled again.
Settle_Again(s, a, state) ==
    LET settled == [s EXCEPT !.anims[a].state = state, !.anims[a].elem = FALSE]
        counts == IF s.anims[a].queued THEN settled ELSE Push(settled, Of("unqueue", a))
    IN  IF state = "resolved" /\ s.anims[a].attached THEN Complete(counts, a) ELSE counts

\* The Deferred of an animation is settled, once.
Settle(s, a, state) ==
    LET settled == [s EXCEPT !.anims[a].state = state, !.anims[a].elem = FALSE]
        counts == IF s.anims[a].queued THEN settled ELSE Push(settled, Of("unqueue", a))
    IN  IF s.anims[a].state # "pending" THEN s
        ELSE IF state = "resolved" /\ s.anims[a].attached THEN Complete(counts, a) ELSE counts

\* animation.stop: the tweens are run to their end, with step, or left.
StopAnim(s, a, end) ==
    LET stopped == [s EXCEPT !.anims[a].stopped = TRUE] IN
    IF s.anims[a].stopped THEN s
    ELSE IF end THEN Push(stopped, Of("end", a))
    ELSE Settle(stopped, a, "rejected")

Top == fx.stack[Len(fx.stack)]
At(at) == fx.stack # <<>> /\ Top.at = at

\* Animations that have ended, or never start, and that nothing refers to are forgotten.
Sweep(s) ==
    LET kept == ToSet(s.timers) \cup {s.stack[i].a : i \in DOMAIN s.stack}
                  \cup (UNION {ToSet(s.queue[e]) : e \in Elem})
                  \cup (UNION {ToSet(s.stack[i].todo) : i \in DOMAIN s.stack})
    IN  [s EXCEPT !.anims = [a \in Anim |-> IF @[a].state \notin {"new", "pending"} /\ a \notin kept THEN Gone ELSE @[a]]]

Goes(s) == fx' = Sweep(s) /\ UNCHANGED <<ops, odd>>
-----------------------------------------------------------------------------
\* The calls of the program.

\* The main program runs, or a function that jQuery has called.
ProgramRuns == fx.stack # <<>> => Top.at \in {"user", "step", "end", "complete"}

\* The calls that jQuery is not prepared for.  From a function that the loop of
\* stop or finish calls: the loop goes by positions in timers.  From the first tick
\* of an animation without duration: its timer is popped from the end of timers.
\* stop and finish from a complete function: the queue goes on twice.  Emptying the
\* queue of an element: its promises are told before the animation is stopped.
Stopping(es) == \E i \in DOMAIN fx.stack : fx.stack[i].at \in {"stop", "loop", "splice"} /\ fx.stack[i].a \in es
Starting == \E i \in DOMAIN fx.stack : fx.stack[i].at = "timer" /\ fx.anims[fx.stack[i].a].zero

Ending(e) == \E i \in DOMAIN fx.stack : fx.stack[i].at \in {"timer", "complete"} /\ fx.anims[fx.stack[i].a].of = e

OddStop(e) == {k \in {"ending"} : Ending(e)}
Odd(es) == {k \in {"nested", "within"} : IF k = "nested" THEN Stopping(es) ELSE Starting}

\* After such a call the program makes no other: a bound of the model.
Call(s, kinds) ==
    /\ ProgramRuns
    /\ ops < MaxOps /\ odd = {}
    /\ ops' = ops + 1
    /\ fx' = Sweep(s)
    /\ odd' = odd \cup kinds

Animate(a, e, queued, zero) ==
    LET made == [fx EXCEPT !.anims[a] = [NotMade EXCEPT !.of = e, !.queued = queued, !.zero = zero,
                                                       !.state = "queued"]]
    IN  /\ \A b \in Anim : fx.anims[b].state = "new" <=> b >= a
        /\ Call(IF queued THEN Queue(made, e, Append(fx.queue[e], a)) ELSE DoAnimation(made, a),
                Odd({e}))

Stop(e, clear, end) ==
    LET called == Push(fx, [User EXCEPT !.at = "stop", !.a = e, !.end = end]) IN
    Call(IF clear THEN Queue(called, e, <<>>) ELSE called,
         IF clear /\ fx.hooks[e].waiting > 0 THEN Odd(Elem) \cup OddStop(e) \cup {"early"} ELSE Odd(Elem) \cup OddStop(e))

Finish(e) ==
    Call(Push([fx EXCEPT !.finish[e] = TRUE, !.queue[e] = <<>>],
              [User EXCEPT !.at = "stop", !.a = e, !.end = TRUE, !.todo = <<InProgress>> \o fx.queue[e]]),
         Odd(Elem) \cup OddStop(e))

ClearQueue(e) == Call(Queue(fx, e, <<>>), {"cleared"})

\* Only a promise for an element with hooks has to wait.
Promise(e) ==
    /\ fx.hooks[e].present
    /\ Call([fx EXCEPT !.hooks[e].waiting = @ + 1], Odd({e}))

Return == At("user") /\ Goes(Pop(fx))
-----------------------------------------------------------------------------
\* What jQuery does when they return.

\* After opt.old, and after the step functions of an animation that is stopped.
DequeueNext == At("complete") /\ Goes(Dequeue(Pop(fx), fx.anims[Top.a].of))
End == At("end") /\ Goes(Settle(Pop(fx), Top.a, "resolved"))

\* Mutant: the last animation beside an empty queue does not fire hooks.empty.
Unqueue_Silent ==
    /\ At("unqueue")
    /\ Goes([Pop(fx) EXCEPT !.hooks[fx.anims[Top.a].of].unqueued = @ - 1])

Unqueue ==
    LET e == fx.anims[Top.a].of
        less == [Pop(fx) EXCEPT !.hooks[e].unqueued = @ - 1]
    IN  /\ At("unqueue")
        /\ Goes(IF fx.queue[e] = <<>> THEN EmptyFire(less, e) ELSE less)

\* A tick of one timer, and what it returns to the caller.
StepDone(due) ==
    LET anim == fx.anims[Top.a] IN
    /\ At("step")
    /\ due => \A i \in DOMAIN fx.stack : fx.stack[i] # Of("timer", Top.a)
    /\ Goes(IF anim.zero \/ due
              THEN Settle(GoTo(fx, [Top EXCEPT !.at = "ended"]), Top.a, "resolved")
              ELSE [Pop(fx) EXCEPT !.stack[Len(fx.stack) - 1].end = TRUE])

Ended == At("ended") /\ Goes([Pop(fx) EXCEPT !.stack[Len(fx.stack) - 1].end = FALSE])

\* fx.timer goes on, and Animation attaches the functions of the options.
Timer ==
    LET a == Top.a
        started == IF Top.end THEN [fx EXCEPT !.timerId = TRUE]
                   ELSE [fx EXCEPT !.timers = Front(@)]
        attached == GoTo([started EXCEPT !.anims[a].attached = TRUE], Of("made", a))
    IN  /\ At("timer")
        /\ Goes(IF fx.anims[a].state = "resolved" THEN Complete(attached, a) ELSE attached)

Made ==
    /\ At("made")
    /\ Goes(IF fx.finish[fx.anims[Top.a].of] THEN StopAnim(Pop(fx), Top.a, TRUE) ELSE Pop(fx))

\* The loops of stop and finish over the timers, from the last.
StopLoop ==
    LET f == Top e == f.a
        Mine(a) == fx.anims[a].elem /\ fx.anims[a].of = e /\ (f.todo # <<>> => fx.anims[a].queued)
    IN  /\ At("loop")
        /\ f.i > 0
        /\ \/ /\ f.i <= Len(fx.timers) /\ Mine(fx.timers[f.i])
              /\ Goes(StopAnim(GoTo(fx, [f EXCEPT !.at = "splice", !.dequeue = FALSE]), fx.timers[f.i], f.end))
           \/ /\ f.i <= Len(fx.timers) /\ ~Mine(fx.timers[f.i])
              /\ Goes(GoTo(fx, [f EXCEPT !.i = @ - 1]))
           \/ /\ f.i > Len(fx.timers)
              /\ fx' = [fx EXCEPT !.stack = <<>>]
              /\ odd' = odd \cup {"thrown"}
              /\ UNCHANGED ops

StopStart == At("stop") /\ Goes(GoTo(fx, [Top EXCEPT !.at = "loop", !.i = Len(fx.timers)]))

Splice ==
    /\ At("splice")
    /\ Goes(GoTo([fx EXCEPT !.timers = IF Top.i <= Len(@) THEN RemoveAt(@, Top.i) ELSE @],
                 [Top EXCEPT !.at = "loop", !.i = @ - 1]))

\* Mutant: stop starts the next animation whatever the stopped ones do.
StopEnds_Always ==
    /\ At("loop") /\ Top.i = 0 /\ Top.todo = <<>>
    /\ Goes(Dequeue(Pop(fx), Top.a))

\* stop starts the next animation, unless the last one has.
StopEnds ==
    /\ At("loop") /\ Top.i = 0 /\ Top.todo = <<>>
    /\ Goes(IF Top.dequeue \/ ~Top.end THEN Dequeue(Pop(fx), Top.a) ELSE Pop(fx))

\* finish goes through the old queue.
FinishNext ==
    LET f == Top rest == Tail(f.todo) IN
    /\ At("loop") /\ f.i = 0 /\ f.todo # <<>>
    /\ Goes(IF rest = <<>> THEN [Pop(fx) EXCEPT !.finish[f.a] = FALSE]
            ELSE IF Head(rest) = InProgress THEN GoTo(fx, [f EXCEPT !.todo = rest])
            ELSE DoAnimation(GoTo(fx, [f EXCEPT !.todo = rest]), Head(rest)))
-----------------------------------------------------------------------------
\* fx.tick, called by the interval.  A program that has made an odd call is not
\* followed beyond the call: the same bound.
FxTick ==
    /\ fx.stack = <<>> /\ fx.timerId /\ odd = {}
    /\ Goes(Push(fx, [User EXCEPT !.at = "fxtick", !.i = 1]))

TickNext ==
    LET a == fx.timers[Top.i]
        called == GoTo(fx, [Top EXCEPT !.at = "fxticked", !.a = a])
    IN  /\ At("fxtick") /\ Top.i <= Len(fx.timers)
        /\ Goes(IF fx.anims[a].stopped THEN GoTo(called, [Top EXCEPT !.at = "fxticked", !.a = a, !.end = FALSE])
                ELSE Push(called, Of("step", a)))

\* Mutant: the timer at the position is removed, whichever it is.
Ticked_NoCheck ==
    LET f == Top IN
    /\ At("fxticked")
    /\ Goes(IF ~f.end /\ f.i <= Len(fx.timers)
              THEN GoTo([fx EXCEPT !.timers = RemoveAt(@, f.i)], [f EXCEPT !.at = "fxtick"])
              ELSE GoTo(fx, [f EXCEPT !.at = "fxtick", !.i = @ + 1]))

Ticked ==
    LET f == Top IN
    /\ At("fxticked")
    /\ Goes(IF ~f.end /\ f.i <= Len(fx.timers) /\ fx.timers[f.i] = f.a
              THEN GoTo([fx EXCEPT !.timers = RemoveAt(@, f.i)], [f EXCEPT !.at = "fxtick"])
              ELSE GoTo(fx, [f EXCEPT !.at = "fxtick", !.i = @ + 1]))

TickEnds ==
    /\ At("fxtick") /\ Top.i > Len(fx.timers)
    /\ Goes([Pop(fx) EXCEPT !.timerId = fx.timers # <<>>])

Continue ==
    \/ Return \/ DequeueNext \/ End \/ Unqueue \/ Ended \/ Timer \/ Made
    \/ StopStart \/ StopLoop \/ Splice \/ StopEnds \/ FinishNext
    \/ FxTick \/ TickNext \/ Ticked \/ TickEnds
    \/ \E due \in BOOLEAN : StepDone(due)

Program ==
    \E e \in Elem :
        \/ \E a \in Anim, queued, zero \in BOOLEAN : Animate(a, e, queued, zero)
        \/ \E clear, end \in BOOLEAN : Stop(e, clear, end)
        \/ Finish(e) \/ ClearQueue(e) \/ Promise(e)

Next == Program \/ Continue

Spec == Init /\ [][Next]_vars
-----------------------------------------------------------------------------
\* The timers are animations, a queue holds animations and the sentinel, and no
\* animation beside a queue is subtracted twice: a Deferred settles once, however
\* stop, finish and the tick meet.
TypeOK ==
    /\ fx.timers \in Seq(Anim)
    /\ \A a \in Anim : fx.anims[a].state \in {"new", "queued", "pending", "resolved", "rejected", "gone"}
    /\ \A e \in Elem : fx.queue[e] \in Seq(Anim \cup {InProgress}) /\ fx.hooks[e].unqueued \in Nat
    /\ ops \in 0 .. MaxOps

Quiet == fx.stack = <<>>
Sound == odd = {}
Pending(e) == {a \in Anim : fx.anims[a].of = e /\ fx.anims[a].state = "pending"}

\* An animation that has neither ended nor been stopped has its timer: a tick, stop
\* or finish that removes timers while functions of the program add and remove
\* others removes only its own.
NothingLost == Quiet /\ Sound => \A e \in Elem : Pending(e) \subseteq ToSet(fx.timers)

\* The interval runs as long as there are timers, those started during a tick
\* that ends all others included.
IntervalRuns == Quiet /\ Sound => (fx.timers # <<>> => fx.timerId)

\* Every animation under way goes on: it has its timer, and the interval runs.
TimersInv == NothingLost /\ IntervalRuns

\* A queue that is not empty is in progress, and an animation of it is under way
\* whose end will take the next: no call of stop or finish leaves a queue that
\* nobody goes on with.
QueueGoesOn ==
    Quiet /\ Sound => \A e \in Elem : fx.queue[e] # <<>> =>
        /\ Head(fx.queue[e]) = InProgress
        /\ \E a \in Pending(e) : fx.anims[a].queued

\* The animations of a queue run one after the other, also while jQuery is in the
\* middle of a call: stop, finish and the end of an animation do not both dequeue.
OneAtATime ==
    Sound => \A e \in Elem : Cardinality({a \in Pending(e) : fx.anims[a].queued}) <= 1

\* A queue is served: by one animation at a time, and by one as long as there are any.
QueuesInv == QueueGoesOn /\ OneAtATime

\* The promises of an element are told only when none of its animations is under
\* way, queued or beside the queue.
PromiseMeansIdle ==
    [][\A e \in Elem : fx.hooks[e].waiting > 0 /\ fx'.hooks[e].waiting = 0 /\ odd' = {} => Pending(e)' = {}]_vars

\* Nobody waits for an element on which nothing moves any more: the end of the last
\* animation, queued or not, tells the promises.
PromisesKept ==
    Quiet /\ Sound => \A e \in Elem : fx.hooks[e].waiting > 0 => Pending(e) # {}
=============================================================================
