--------------------------- MODULE EffectsProofs ---------------------------
(***************************************************************************)
(* The variables keep their types, also after calls jQuery is not prepared *)
(* for; and as long as there is none, every animation under way has its    *)
(* timer and the interval runs: for any elements, any number of animations *)
(* and calls, whatever the functions of the program call from within.      *)
(***************************************************************************)
EXTENDS Effects, SequenceTheorems, FiniteSetTheorems, TLAPS

States == {"new", "queued", "pending", "resolved", "rejected", "gone"}
Places == {"user", "stop", "loop", "splice", "step", "end", "complete", "unqueue", "ended",
           "timer", "made", "fxtick", "fxticked"}
AnimFrames == {"step", "end", "complete", "unqueue", "ended", "timer", "made", "fxticked"}
ElemFrames == {"stop", "loop", "splice"}

Entries == Seq(Anim \cup {InProgress})
AnimVars == [of : Elem \cup {"none"}, queued : BOOLEAN, zero : BOOLEAN, state : States,
             stopped : BOOLEAN, elem : BOOLEAN, attached : BOOLEAN]
HookVars == [present : BOOLEAN, unqueued : Int, waiting : Nat]
FrameVars == [at : Places, a : Anim \cup Elem \cup {0}, i : Nat, end : BOOLEAN,
              dequeue : BOOLEAN, todo : Entries]
FxVars == [timers : Seq(Anim), timerId : BOOLEAN, anims : [Anim -> AnimVars],
           queue : [Elem -> Entries], hooks : [Elem -> HookVars],
           finish : [Elem -> BOOLEAN], stack : Seq(FrameVars)]

\* An animation that has a timer or is in a call has been started.
Started(an, a) == an[a].state \in {"pending", "resolved", "rejected"}

FramesOk(stk, an) ==
    \A k \in DOMAIN stk :
        /\ stk[k].at \in AnimFrames => stk[k].a \in Anim /\ Started(an, stk[k].a)
        /\ stk[k].at \in ElemFrames => stk[k].a \in Elem
        /\ stk[k].at \notin ElemFrames => stk[k].todo = <<>>
        /\ stk[k].at \in {"splice", "fxtick", "fxticked"} => stk[k].i >= 1

TimersOk(tm, an) == \A j \in DOMAIN tm : Started(an, tm[j])

AnimsOk(an) ==
    \A a \in Anim :
        /\ an[a].state \notin {"new", "gone"} => an[a].of \in Elem
        /\ an[a].state \in {"new", "queued"} => ~an[a].attached /\ ~an[a].stopped

\* What waits in the queue of an element, or in what is left of the old queue that
\* finish goes through, waits there once and nowhere else.
Waits(an, a, e) == a # InProgress => an[a].state = "queued" /\ an[a].queued /\ an[a].of = e
Once(q, n) == \A j, k \in DOMAIN q : j > n /\ k > n /\ q[j] = q[k] /\ q[j] # InProgress => j = k
Apart(p, m, q, n) == \A i \in DOMAIN p, j \in DOMAIN q : i > m /\ j > n /\ p[i] = q[j] => p[i] = InProgress
AllWait(q, n, an, e) == \A j \in DOMAIN q : j > n => Waits(an, q[j], e)

HeadOnly(q) == \A j \in DOMAIN q : j > 1 => q[j] # InProgress

QueueOk(qu, an) == \A e \in Elem : Once(qu[e], 0) /\ HeadOnly(qu[e]) /\ AllWait(qu[e], 0, an, e)

TodoOk(stk, qu, an) ==
    \A k \in DOMAIN stk :
        /\ Once(stk[k].todo, 1)
        /\ AllWait(stk[k].todo, 1, an, stk[k].a)
        /\ stk[k].at \in ElemFrames => Apart(stk[k].todo, 1, qu[stk[k].a], 0)
        /\ \A l \in DOMAIN stk : l # k => Apart(stk[k].todo, 1, stk[l].todo, 1)

\* The animations beside the queue of an element: until the call that subtracts it.
LeaveOk(stk, an) ==
    \A k \in DOMAIN stk : stk[k].at = "unqueue" =>
        /\ an[stk[k].a].state # "pending" /\ ~an[stk[k].a].queued
        /\ \A l \in DOMAIN stk : stk[l].at = "unqueue" /\ stk[l].a = stk[k].a => l = k

Leaving(stk, a) == \E k \in DOMAIN stk : stk[k].at = "unqueue" /\ stk[k].a = a
Beside(stk, an, e) ==
    {a \in Anim : an[a].of = e /\ ~an[a].queued /\ (an[a].state = "pending" \/ Leaving(stk, a))}
CountOk(stk, an, hk) == \A e \in Elem : hk[e].unqueued >= Cardinality(Beside(stk, an, e))

\* A tick of a timer was called by fx.timer or by the loop of fx.tick, and the
\* interval finds no call under way.
CallerOk(stk) ==
    \A k \in DOMAIN stk : stk[k].at \in {"step", "ended"} =>
        k > 1 /\ stk[k - 1].at \in {"timer", "fxticked"} /\ stk[k - 1].a = stk[k].a
BottomOk(stk) == \A k \in DOMAIN stk : stk[k].at \in {"fxtick", "fxticked"} => k = 1

Base(s) ==
    /\ s \in FxVars
    /\ FramesOk(s.stack, s.anims)
    /\ TimersOk(s.timers, s.anims)
    /\ AnimsOk(s.anims)
    /\ QueueOk(s.queue, s.anims)
    /\ TodoOk(s.stack, s.queue, s.anims)
    /\ LeaveOk(s.stack, s.anims)
    /\ CountOk(s.stack, s.anims, s.hooks)
    /\ CallerOk(s.stack)
    /\ BottomOk(s.stack)
-----------------------------------------------------------------------------
\* The records.
LEMMA AnimIs ==
    ASSUME NEW x \in AnimVars
    PROVE  /\ x.of \in Elem \cup {"none"} /\ x.queued \in BOOLEAN /\ x.zero \in BOOLEAN
           /\ x.state \in States /\ x.stopped \in BOOLEAN /\ x.elem \in BOOLEAN
           /\ x.attached \in BOOLEAN
BY DEF AnimVars

LEMMA FrameIs ==
    ASSUME NEW f \in FrameVars
    PROVE  /\ f.at \in Places /\ f.a \in Anim \cup Elem \cup {0} /\ f.i \in Nat
           /\ f.end \in BOOLEAN /\ f.dequeue \in BOOLEAN /\ f.todo \in Entries
BY DEF FrameVars

LEMMA FxIs ==
    ASSUME NEW s \in FxVars
    PROVE  /\ s.timers \in Seq(Anim) /\ s.timerId \in BOOLEAN /\ s.anims \in [Anim -> AnimVars]
           /\ s.queue \in [Elem -> Entries] /\ s.hooks \in [Elem -> HookVars]
           /\ s.finish \in [Elem -> BOOLEAN] /\ s.stack \in Seq(FrameVars)
BY DEF FxVars

LEMMA UserIs ==
    /\ User \in FrameVars
    /\ User.at = "user" /\ User.a = 0 /\ User.i = 0 /\ User.end = FALSE /\ User.dequeue = TRUE
    /\ User.todo = <<>>
<1>1. PICK no, yes, zero, none : no = FALSE /\ yes = TRUE /\ zero = 0 /\ none = <<>>
  OBVIOUS
<1>2. no \in BOOLEAN /\ yes \in BOOLEAN /\ zero \in Nat /\ zero \in Anim \cup Elem \cup {0}
  BY <1>1
<1>3. none \in Entries
  BY <1>1, EmptySeq DEF Entries
<1>4. User = [at |-> "user", a |-> zero, i |-> zero, end |-> no, dequeue |-> yes, todo |-> none]
  BY <1>1, Zenon DEF User
<1>5. User \in FrameVars
  BY <1>2, <1>3, <1>4 DEF FrameVars, Places
<1>6. /\ User.at = "user" /\ User.a = zero /\ User.i = zero /\ User.end = no
      /\ User.dequeue = yes /\ User.todo = none
  BY <1>4
<1> QED BY <1>1, <1>5, <1>6

LEMMA OfIs ==
    ASSUME NEW at \in Places, NEW a \in Anim \cup Elem \cup {0}
    PROVE  /\ Of(at, a) \in FrameVars
           /\ Of(at, a).at = at /\ Of(at, a).a = a /\ Of(at, a).i = 0 /\ Of(at, a).end = FALSE
           /\ Of(at, a).dequeue = TRUE /\ Of(at, a).todo = <<>>
<1>1. PICK u : u = User
  OBVIOUS
<1>2. u \in FrameVars
  BY <1>1, UserIs
<1>3. Of(at, a) = [u EXCEPT !.at = at, !.a = a]
  BY <1>1, Zenon DEF Of
<1>4. /\ Of(at, a) \in FrameVars
      /\ Of(at, a).at = at /\ Of(at, a).a = a /\ Of(at, a).i = u.i /\ Of(at, a).end = u.end
      /\ Of(at, a).dequeue = u.dequeue /\ Of(at, a).todo = u.todo
  BY <1>2, <1>3 DEF FrameVars
<1> QED BY <1>1, <1>4, UserIs
LEMMA OfAnim ==
    ASSUME NEW at \in AnimFrames, NEW a \in Anim
    PROVE  /\ Of(at, a) \in FrameVars
           /\ Of(at, a).at = at /\ Of(at, a).a = a /\ Of(at, a).i = 0 /\ Of(at, a).end = FALSE
           /\ Of(at, a).todo = <<>>
<1>1. at \in Places /\ a \in Anim \cup Elem \cup {0}
  BY DEF AnimFrames, Places
<1> QED BY <1>1, OfIs
-----------------------------------------------------------------------------
\* What is done to the stack.
Adds(stk, f, st) ==
    /\ st \in Seq(FrameVars) /\ Len(st) = Len(stk) + 1
    /\ st[Len(stk) + 1] = f
    /\ \A k \in 1 .. Len(stk) : st[k] = stk[k]
Drops(stk, st) ==
    /\ stk # <<>>
    /\ st \in Seq(FrameVars) /\ Len(st) = Len(stk) - 1
    /\ \A k \in 1 .. Len(st) : st[k] = stk[k]
Puts(stk, f, st) ==
    /\ stk # <<>>
    /\ st \in Seq(FrameVars) /\ Len(st) = Len(stk)
    /\ st[Len(stk)] = f
    /\ \A k \in 1 .. Len(stk) - 1 : st[k] = stk[k]
\* Functions of the program are called.
Tells(stk, st) ==
    /\ st \in Seq(FrameVars) /\ Len(st) >= Len(stk)
    /\ \A k \in 1 .. Len(stk) : st[k] = stk[k]
    /\ \A k \in Len(stk) + 1 .. Len(st) : st[k] = User

\* t is s but for its stack.
Stacked(s, t) ==
    /\ t \in FxVars
    /\ t.timers = s.timers /\ t.timerId = s.timerId /\ t.anims = s.anims /\ t.queue = s.queue
    /\ t.hooks = s.hooks /\ t.finish = s.finish

LEMMA StackIs ==
    ASSUME NEW s \in FxVars, NEW x \in Seq(FrameVars)
    PROVE  Stacked(s, [s EXCEPT !.stack = x]) /\ [s EXCEPT !.stack = x].stack = x
BY DEF FxVars, Stacked

LEMMA PushIs ==
    ASSUME NEW s \in FxVars, NEW f \in FrameVars
    PROVE  Stacked(s, Push(s, f)) /\ Adds(s.stack, f, Push(s, f).stack)
<1> DEFINE x == Append(s.stack, f)
<1>1. s.stack \in Seq(FrameVars)
  BY FxIs
<1>2. x \in Seq(FrameVars) /\ Adds(s.stack, f, x)
  BY <1>1 DEF Adds
<1>3. Push(s, f) = [s EXCEPT !.stack = x]
  BY DEF Push
<1> HIDE DEF x
<1> QED BY <1>2, <1>3, StackIs

LEMMA FrontIs ==
    ASSUME NEW S, NEW q \in Seq(S), q # <<>>
    PROVE  /\ Front(q) \in Seq(S) /\ Len(Front(q)) = Len(q) - 1
           /\ \A k \in 1 .. Len(q) - 1 : Front(q)[k] = q[k]
<1> DEFINE n == Len(q) - 1
<1>1. n \in Nat /\ 1 \in Int /\ n \in Int /\ \A k \in 1 .. n : q[k] \in S
  BY EmptySeq, ElementOfSeq
<1>2. Front(q) = SubSeq(q, 1, n)
  BY DEF Front
<1> HIDE DEF n
<1>3. /\ SubSeq(q, 1, n) \in Seq(S) /\ Len(SubSeq(q, 1, n)) = IF 1 <= n THEN n - 1 + 1 ELSE 0
      /\ \A i \in 1 .. n - 1 + 1 : SubSeq(q, 1, n)[i] = q[1 + i - 1]
  BY <1>1, SubSeqProperties
<1>4. Len(SubSeq(q, 1, n)) = n /\ \A i \in 1 .. n : SubSeq(q, 1, n)[i] = q[i]
  BY <1>1, <1>3, SMT
<1> QED BY <1>2, <1>3, <1>4 DEF n

LEMMA PopIs ==
    ASSUME NEW s \in FxVars, s.stack # <<>>
    PROVE  Stacked(s, Pop(s)) /\ Drops(s.stack, Pop(s).stack)
<1> DEFINE x == Front(s.stack)
<1>1. s.stack \in Seq(FrameVars)
  BY FxIs
<1>2. x \in Seq(FrameVars) /\ Drops(s.stack, x)
  BY <1>1, FrontIs DEF Drops
<1>3. Pop(s) = [s EXCEPT !.stack = x]
  BY DEF Pop
<1> HIDE DEF x
<1> QED BY <1>2, <1>3, StackIs

LEMMA GoToIs ==
    ASSUME NEW s \in FxVars, s.stack # <<>>, NEW f \in FrameVars
    PROVE  Stacked(s, GoTo(s, f)) /\ Puts(s.stack, f, GoTo(s, f).stack)
<1> DEFINE n == Len(s.stack) x == [s.stack EXCEPT ![n] = f]
<1>1. s.stack \in Seq(FrameVars)
  BY FxIs
<1>2. n \in 1 .. Len(s.stack)
  BY <1>1, EmptySeq
<1>3. x \in Seq(FrameVars) /\ Puts(s.stack, f, x)
  BY <1>1, <1>2, ExceptSeq DEF Puts
<1>4. GoTo(s, f) = [s EXCEPT !.stack = x]
  BY DEF GoTo, FxVars
<1> HIDE DEF x, n
<1> QED BY <1>3, <1>4, StackIs
-----------------------------------------------------------------------------
\* The parts of Base when only the stack changes.
LEMMA BesideFinite == ASSUME NEW stk, NEW an, NEW e PROVE IsFiniteSet(Beside(stk, an, e))
<1>1. Beside(stk, an, e) \subseteq Anim
  BY DEF Beside
<1>2. IsFiniteSet(Anim)
  BY EffectsAssumption, FS_Interval DEF Anim
<1> QED BY <1>1, <1>2, FS_Subset

LEMMA BesideSame ==
    ASSUME NEW stk, NEW st, NEW an, NEW hk \in [Elem -> HookVars], CountOk(stk, an, hk),
           \A a \in Anim : Leaving(st, a) => Leaving(stk, a)
    PROVE  CountOk(st, an, hk)
<1> SUFFICES ASSUME NEW e \in Elem
             PROVE  hk[e].unqueued >= Cardinality(Beside(st, an, e))
  BY DEF CountOk
<1>1. Beside(st, an, e) \subseteq Beside(stk, an, e)
  BY DEF Beside
<1>3. IsFiniteSet(Beside(stk, an, e))
  BY BesideFinite
<1>4. /\ Cardinality(Beside(st, an, e)) \in Nat /\ Cardinality(Beside(stk, an, e)) \in Nat
      /\ Cardinality(Beside(st, an, e)) <= Cardinality(Beside(stk, an, e))
  BY <1>1, <1>3, FS_Subset, FS_CardinalityType
<1>5. hk[e].unqueued >= Cardinality(Beside(stk, an, e)) /\ hk[e].unqueued \in Int
  BY DEF CountOk, HookVars
<1> QED BY <1>4, <1>5

LEMMA BaseTells ==
    ASSUME NEW s, NEW t, Base(s), Stacked(s, t), Tells(s.stack, t.stack)
    PROVE  Base(t)
<1> DEFINE stk == s.stack st == t.stack an == s.anims
<1>1. stk \in Seq(FrameVars) /\ st \in Seq(FrameVars) /\ Len(st) >= Len(stk)
  BY FxIs DEF Base, Stacked, Tells
<1>2. \A k \in DOMAIN st : \/ k \in DOMAIN stk /\ st[k] = stk[k]
                           \/ k \notin DOMAIN stk /\ st[k].at = "user" /\ st[k].todo = <<>>
  BY SMTT(30), <1>1, UserIs DEF Tells
<1>3. \A k \in DOMAIN stk : k \in DOMAIN st /\ st[k] = stk[k]
  BY <1>1 DEF Tells
<1>4. /\ t \in FxVars /\ t.anims = an /\ t.queue = s.queue /\ t.timers = s.timers /\ t.hooks = s.hooks
      /\ s.hooks \in [Elem -> HookVars]
  BY FxIs DEF Stacked, Base
<1> HIDE DEF stk, st, an
<1>5. FramesOk(stk, an) => FramesOk(st, an)
  BY <1>2 DEF FramesOk, AnimFrames, ElemFrames
<1>6. TodoOk(stk, s.queue, an) => TodoOk(st, s.queue, an)
  BY <1>2 DEF TodoOk, ElemFrames, Once, Apart, AllWait
<1>7. LeaveOk(stk, an) => LeaveOk(st, an)
  BY <1>2 DEF LeaveOk
<1>8. CountOk(stk, an, s.hooks) => CountOk(st, an, s.hooks)
  <2>1. \A a \in Anim : Leaving(st, a) => Leaving(stk, a)
    BY <1>2 DEF Leaving
  <2> QED BY <1>4, <2>1, BesideSame
<1>9. CallerOk(stk) => CallerOk(st)
  BY <1>1, <1>2, <1>3 DEF CallerOk
<1>10. BottomOk(stk) => BottomOk(st)
  BY <1>2 DEF BottomOk
<1> QED BY <1>4, <1>5, <1>6, <1>7, <1>8, <1>9, <1>10 DEF Base, stk, st, an

LEMMA BaseDrops ==
    ASSUME NEW s, NEW t, Base(s), Stacked(s, t), Drops(s.stack, t.stack)
    PROVE  Base(t)
<1> DEFINE stk == s.stack st == t.stack an == s.anims
<1>1. stk \in Seq(FrameVars) /\ st \in Seq(FrameVars) /\ Len(st) = Len(stk) - 1
  BY FxIs DEF Base, Stacked, Drops
<1>2. \A k \in DOMAIN st : k \in DOMAIN stk /\ st[k] = stk[k] /\ (k > 1 => k - 1 \in DOMAIN st)
  BY <1>1 DEF Drops
<1>4. /\ t \in FxVars /\ t.anims = an /\ t.queue = s.queue /\ t.timers = s.timers /\ t.hooks = s.hooks
      /\ s.hooks \in [Elem -> HookVars]
  BY FxIs DEF Stacked, Base
<1> HIDE DEF stk, st, an
<1>5. FramesOk(stk, an) => FramesOk(st, an)
  BY <1>2 DEF FramesOk
<1>6. TodoOk(stk, s.queue, an) => TodoOk(st, s.queue, an)
  BY <1>2 DEF TodoOk
<1>7. LeaveOk(stk, an) => LeaveOk(st, an)
  BY <1>2 DEF LeaveOk
<1>8. CountOk(stk, an, s.hooks) => CountOk(st, an, s.hooks)
  <2>1. \A a \in Anim : Leaving(st, a) => Leaving(stk, a)
    BY <1>2 DEF Leaving
  <2> QED BY <1>4, <2>1, BesideSame
<1>9. CallerOk(stk) => CallerOk(st)
  BY <1>1, <1>2 DEF CallerOk
<1>10. BottomOk(stk) => BottomOk(st)
  BY <1>2 DEF BottomOk
<1> QED BY <1>4, <1>5, <1>6, <1>7, <1>8, <1>9, <1>10 DEF Base, stk, st, an

\* A call of jQuery, of an animation that has started or of an element.
FrameFits(stk, an, f) ==
    /\ f \in FrameVars
    /\ f.at \in {"user", "stop", "step", "end", "complete", "ended", "timer", "made"}
    /\ f.at \in AnimFrames => f.a \in Anim /\ Started(an, f.a)
    /\ f.at = "stop" => f.a \in Elem
    /\ f.todo = <<>>
    /\ f.at \in {"step", "ended"} =>
         stk # <<>> /\ stk[Len(stk)].at \in {"timer", "fxticked"} /\ stk[Len(stk)].a = f.a

LEMMA BaseAdds ==
    ASSUME NEW s, NEW t, NEW f, Base(s), Stacked(s, t), Adds(s.stack, f, t.stack),
           FrameFits(s.stack, s.anims, f)
    PROVE  Base(t)
<1> DEFINE stk == s.stack st == t.stack an == s.anims
<1>1. stk \in Seq(FrameVars) /\ st \in Seq(FrameVars) /\ Len(st) = Len(stk) + 1 /\ Len(stk) \in Nat
  BY FxIs DEF Base, Stacked, Adds
<1>2. \A k \in DOMAIN st : \/ k \in DOMAIN stk /\ st[k] = stk[k]
                           \/ k \notin DOMAIN stk /\ k = Len(stk) + 1 /\ st[k] = f
  BY SMTT(30), <1>1 DEF Adds
<1>3. \A k \in DOMAIN stk : k \in DOMAIN st /\ st[k] = stk[k]
  BY SMTT(30), <1>1 DEF Adds
<1>4. /\ t \in FxVars /\ t.anims = an /\ t.queue = s.queue /\ t.timers = s.timers /\ t.hooks = s.hooks
      /\ s.hooks \in [Elem -> HookVars]
  BY FxIs DEF Stacked, Base
<1>f. FrameFits(stk, an, f)
  OBVIOUS
<1> HIDE DEF stk, st, an
<1>5. FramesOk(stk, an) => FramesOk(st, an)
  BY <1>2, <1>f DEF FramesOk, FrameFits, AnimFrames, ElemFrames
<1>6. TodoOk(stk, s.queue, an) => TodoOk(st, s.queue, an)
  BY <1>2, <1>f DEF TodoOk, ElemFrames, Once, Apart, AllWait, FrameFits
<1>7. LeaveOk(stk, an) => LeaveOk(st, an)
  BY <1>2, <1>f DEF LeaveOk, FrameFits
<1>8. CountOk(stk, an, s.hooks) => CountOk(st, an, s.hooks)
  <2>1. \A a \in Anim : Leaving(st, a) => Leaving(stk, a)
    BY <1>2, <1>f DEF Leaving, FrameFits
  <2> QED BY <1>4, <2>1, BesideSame
<1>9. CallerOk(stk) => CallerOk(st)
  <2> SUFFICES ASSUME CallerOk(stk), NEW k \in DOMAIN st, st[k].at \in {"step", "ended"}
               PROVE  k > 1 /\ st[k - 1].at \in {"timer", "fxticked"} /\ st[k - 1].a = st[k].a
    BY DEF CallerOk
  <2>1. CASE k \in DOMAIN stk /\ st[k] = stk[k]
    <3>1. k > 1 /\ stk[k - 1].at \in {"timer", "fxticked"} /\ stk[k - 1].a = stk[k].a
      BY <2>1 DEF CallerOk
    <3>2. k - 1 \in DOMAIN stk
      BY <1>1, <2>1, <3>1
    <3> QED BY <1>3, <2>1, <3>1, <3>2
  <2>2. CASE k = Len(stk) + 1 /\ st[k] = f
    <3>1. stk # <<>> /\ stk[Len(stk)].at \in {"timer", "fxticked"} /\ stk[Len(stk)].a = f.a
      BY <1>f, <2>2 DEF FrameFits
    <3>2. Len(stk) >= 1 /\ Len(stk) \in DOMAIN stk /\ k - 1 = Len(stk)
      BY <1>1, <3>1, <2>2, EmptySeq
    <3> QED BY <1>1, <1>3, <2>2, <3>1, <3>2
  <2> QED BY <1>2, <2>1, <2>2
<1>10. BottomOk(stk) => BottomOk(st)
  BY <1>2, <1>f DEF BottomOk, FrameFits, AnimFrames
<1> QED BY <1>4, <1>5, <1>6, <1>7, <1>8, <1>9, <1>10 DEF Base, stk, st, an
-----------------------------------------------------------------------------
\* What is done to the animations.
\* t is s but for its animations.
Animated(s, t) ==
    /\ t \in FxVars
    /\ t.timers = s.timers /\ t.timerId = s.timerId /\ t.queue = s.queue
    /\ t.hooks = s.hooks /\ t.finish = s.finish /\ t.stack = s.stack

\* Some that were started go on.
Ages(an, am) ==
    /\ am \in [Anim -> AnimVars]
    /\ \A a \in Anim :
        /\ am[a].of = an[a].of /\ am[a].queued = an[a].queued /\ am[a].zero = an[a].zero
        /\ Started(an, a) => Started(am, a)
        /\ ~Started(an, a) => am[a] = an[a]
        /\ am[a].state = "pending" => an[a].state = "pending"

LEMMA AnimsIs ==
    ASSUME NEW s \in FxVars, NEW x \in [Anim -> AnimVars]
    PROVE  Animated(s, [s EXCEPT !.anims = x]) /\ [s EXCEPT !.anims = x].anims = x
BY DEF FxVars, Animated

StoppedOne(s, a) == [s EXCEPT !.anims[a].stopped = TRUE]
SettledOne(s, a, st) == [s EXCEPT !.anims[a].state = st, !.anims[a].elem = FALSE]

LEMMA StopIs ==
    ASSUME NEW s \in FxVars, NEW a \in Anim,
           NEW t, t = StoppedOne(s, a)
    PROVE  /\ Animated(s, t)
           /\ t.anims[a].stopped
           /\ \A b \in Anim : b # a => t.anims[b] = s.anims[b]
           /\ \A b \in Anim :
                /\ t.anims[b].of = s.anims[b].of /\ t.anims[b].queued = s.anims[b].queued
                /\ t.anims[b].zero = s.anims[b].zero /\ t.anims[b].state = s.anims[b].state
                /\ t.anims[b].attached = s.anims[b].attached
<1>1. PICK yes : yes = TRUE
  OBVIOUS
<1> DEFINE y == [s.anims[a] EXCEPT !.stopped = yes]
           x == [s.anims EXCEPT ![a] = y]
<1>2. s.anims \in [Anim -> AnimVars] /\ yes \in BOOLEAN
  BY <1>1, FxIs
<1>3. y \in AnimVars
  BY <1>2 DEF AnimVars
<1>4. /\ y.of = s.anims[a].of /\ y.queued = s.anims[a].queued /\ y.zero = s.anims[a].zero
      /\ y.state = s.anims[a].state /\ y.attached = s.anims[a].attached /\ y.stopped = yes
  BY <1>2 DEF AnimVars
<1>5. x = [s.anims EXCEPT ![a].stopped = TRUE]
  BY <1>1, Zenon
<1>6. t = [s EXCEPT !.anims = x]
  BY <1>5, Zenon DEF StoppedOne
<1> HIDE DEF y
<1>7. x \in [Anim -> AnimVars] /\ x[a] = y /\ \A b \in Anim : b # a => x[b] = s.anims[b]
  BY <1>2, <1>3
<1> HIDE DEF x
<1>8. Animated(s, [s EXCEPT !.anims = x]) /\ [s EXCEPT !.anims = x].anims = x
  BY <1>7, AnimsIs
<1> QED BY <1>1, <1>4, <1>5, <1>6, <1>7, <1>8

LEMMA SettledIs ==
    ASSUME NEW s \in FxVars, NEW a \in Anim, NEW st \in States,
           NEW t, t = SettledOne(s, a, st)
    PROVE  /\ Animated(s, t)
           /\ t.anims[a].state = st
           /\ \A b \in Anim : b # a => t.anims[b] = s.anims[b]
           /\ \A b \in Anim :
                /\ t.anims[b].of = s.anims[b].of /\ t.anims[b].queued = s.anims[b].queued
                /\ t.anims[b].zero = s.anims[b].zero /\ t.anims[b].stopped = s.anims[b].stopped
                /\ t.anims[b].attached = s.anims[b].attached
<1>1. PICK el : el = FALSE
  OBVIOUS
<1> DEFINE y == [s.anims[a] EXCEPT !.state = st]
           x == [s.anims EXCEPT ![a] = y]
           z == [s EXCEPT !.anims = x]
           v == [z.anims[a] EXCEPT !.elem = el]
           w == [z.anims EXCEPT ![a] = v]
<1>2. s.anims \in [Anim -> AnimVars] /\ el \in BOOLEAN
  BY <1>1, FxIs
<1>3. y \in AnimVars
  BY <1>2 DEF AnimVars
<1>4. /\ y.of = s.anims[a].of /\ y.queued = s.anims[a].queued /\ y.zero = s.anims[a].zero
      /\ y.state = st /\ y.attached = s.anims[a].attached /\ y.stopped = s.anims[a].stopped
  BY <1>2 DEF AnimVars
<1>5. [s EXCEPT !.anims[a].state = st] = z
  BY Zenon
<1>6. [s EXCEPT !.anims[a].state = st, !.anims[a].elem = el] =
      [[s EXCEPT !.anims[a].state = st] EXCEPT !.anims[a].elem = el]
  BY Zenon
<1>7. [z EXCEPT !.anims[a].elem = el] = [z EXCEPT !.anims = w]
  BY Zenon
<1>8. [s EXCEPT !.anims[a].state = st, !.anims[a].elem = el] = [z EXCEPT !.anims = w]
  BY <1>5, <1>6, <1>7, Zenon
<1> HIDE DEF y
<1>9. x \in [Anim -> AnimVars] /\ x[a] = y /\ \A b \in Anim : b # a => x[b] = s.anims[b]
  BY <1>2, <1>3
<1> HIDE DEF x
<1>10. Animated(s, z) /\ z.anims = x
  BY <1>9, AnimsIs
<1>11. z \in FxVars
  BY <1>10 DEF Animated
<1> HIDE DEF z
<1>12. v \in AnimVars
  BY <1>2, <1>3, <1>9, <1>10 DEF AnimVars
<1>13. /\ v.of = y.of /\ v.queued = y.queued /\ v.zero = y.zero
       /\ v.state = y.state /\ v.attached = y.attached /\ v.stopped = y.stopped
  BY <1>3, <1>9, <1>10 DEF AnimVars
<1> HIDE DEF v
<1>14. w \in [Anim -> AnimVars] /\ w[a] = v /\ \A b \in Anim : b # a => w[b] = s.anims[b]
  BY <1>9, <1>10, <1>12
<1> HIDE DEF w
<1>15. Animated(z, [z EXCEPT !.anims = w]) /\ [z EXCEPT !.anims = w].anims = w
  BY <1>11, <1>14, AnimsIs
<1>16. Animated(s, [z EXCEPT !.anims = w])
  BY <1>10, <1>15 DEF Animated
<1>t. t = [z EXCEPT !.anims = w]
  BY <1>1, <1>8, Zenon DEF SettledOne
<1>17. t.anims = w
  BY <1>t, <1>15
<1>18. \A b \in Anim :
                /\ t.anims[b].of = s.anims[b].of /\ t.anims[b].queued = s.anims[b].queued
                /\ t.anims[b].zero = s.anims[b].zero /\ t.anims[b].stopped = s.anims[b].stopped
                /\ t.anims[b].attached = s.anims[b].attached
  BY <1>4, <1>13, <1>14, <1>17
<1>19. t.anims[a].state = st /\ \A b \in Anim : b # a => t.anims[b] = s.anims[b]
  BY <1>4, <1>13, <1>14, <1>17
<1> QED BY <1>t, <1>16, <1>18, <1>19

LEMMA BaseAges ==
    ASSUME NEW s, NEW t, Base(s), Animated(s, t), Ages(s.anims, t.anims)
    PROVE  Base(t)
<1> DEFINE stk == s.stack an == s.anims am == t.anims
<1>1. stk \in Seq(FrameVars) /\ s.timers \in Seq(Anim) /\ s.queue \in [Elem -> Entries]
  BY FxIs DEF Base
<1>2. \A k \in DOMAIN stk : stk[k] \in FrameVars /\ stk[k].todo \in Entries
  BY <1>1, FrameIs
<1>3. Ages(an, am)
  OBVIOUS
<1>4. /\ t \in FxVars /\ t.stack = stk /\ t.queue = s.queue /\ t.timers = s.timers /\ t.hooks = s.hooks
      /\ s.hooks \in [Elem -> HookVars]
  BY FxIs DEF Animated, Base
<1>5. FramesOk(stk, an) /\ LeaveOk(stk, an)
  BY DEF Base
<1> HIDE DEF stk, an, am
<1>6. FramesOk(stk, am)
  BY <1>3, <1>5 DEF FramesOk, Ages
<1>7. TimersOk(s.timers, an) => TimersOk(s.timers, am)
  BY <1>1, <1>3 DEF TimersOk, Ages
<1>8. AnimsOk(an) => AnimsOk(am)
  BY <1>3 DEF AnimsOk, Ages, Started, AnimVars, States
<1>9. \A a \in Anim \cup {InProgress} : \A e : Waits(an, a, e) => Waits(am, a, e)
  BY <1>3 DEF Waits, Ages, Started, InProgress
<1>10. QueueOk(s.queue, an) => QueueOk(s.queue, am)
  <2>1. \A e \in Elem : s.queue[e] \in Entries
    BY <1>1
  <2> QED BY <2>1, <1>9 DEF QueueOk, AllWait, Entries
<1>11. TodoOk(stk, s.queue, an) => TodoOk(stk, s.queue, am)
  BY <1>2, <1>9 DEF TodoOk, AllWait, Entries
<1>12. LeaveOk(stk, am)
  BY <1>3, <1>5 DEF LeaveOk, FramesOk, AnimFrames, Ages
<1>13. CountOk(stk, an, s.hooks) => CountOk(stk, am, s.hooks)
  <2> SUFFICES ASSUME CountOk(stk, an, s.hooks), NEW e \in Elem
               PROVE  s.hooks[e].unqueued >= Cardinality(Beside(stk, am, e))
    BY DEF CountOk
  <2>1. Beside(stk, am, e) \subseteq Beside(stk, an, e)
    BY <1>3 DEF Beside, Ages
  <2>3. IsFiniteSet(Beside(stk, an, e))
    BY BesideFinite
  <2>4. /\ Cardinality(Beside(stk, am, e)) \in Nat /\ Cardinality(Beside(stk, an, e)) \in Nat
        /\ Cardinality(Beside(stk, am, e)) <= Cardinality(Beside(stk, an, e))
    BY <2>1, <2>3, FS_Subset, FS_CardinalityType
  <2>5. s.hooks[e].unqueued >= Cardinality(Beside(stk, an, e)) /\ s.hooks[e].unqueued \in Int
    BY <1>4 DEF CountOk, HookVars
  <2> QED BY <2>4, <2>5
<1> QED BY <1>4, <1>6, <1>7, <1>8, <1>10, <1>11, <1>12, <1>13 DEF Base, stk, an, am
-----------------------------------------------------------------------------
\* Settle and stop.
LEMMA BaseLeaves ==
    ASSUME NEW s, NEW u, NEW t, NEW a \in Anim, Base(s), Base(u),
           Animated(s, u), Ages(s.anims, u.anims),
           s.anims[a].state = "pending", u.anims[a].state # "pending", ~u.anims[a].queued,
           Started(u.anims, a),
           Stacked(u, t), Adds(u.stack, Of("unqueue", a), t.stack)
    PROVE  Base(t)
<1> DEFINE stk == s.stack st == t.stack an == s.anims am == u.anims f == Of("unqueue", a)
<1>1. stk \in Seq(FrameVars) /\ st \in Seq(FrameVars) /\ Len(st) = Len(stk) + 1 /\ Len(stk) \in Nat
      /\ u.stack = stk
  BY FxIs DEF Base, Stacked, Adds, Animated
<1>2. \A k \in DOMAIN st : \/ k \in DOMAIN stk /\ st[k] = stk[k]
                           \/ k \notin DOMAIN stk /\ k = Len(stk) + 1 /\ st[k] = f
  BY SMTT(30), <1>1 DEF Adds
<1>3. \A k \in DOMAIN stk : k \in DOMAIN st /\ st[k] = stk[k] /\ (k > 1 => k - 1 \in DOMAIN stk)
  BY SMTT(30), <1>1 DEF Adds
<1>4. /\ t \in FxVars /\ t.anims = am /\ t.queue = u.queue /\ t.timers = u.timers
      /\ t.hooks = u.hooks /\ u.hooks = s.hooks /\ s.hooks \in [Elem -> HookVars]
  BY FxIs DEF Stacked, Base, Animated
<1>0. "unqueue" \in AnimFrames
  BY DEF AnimFrames
<1>5. f.at = "unqueue" /\ f.a = a /\ f.todo = <<>>
  BY ZenonT(30), <1>0, OfAnim
<1>6. FramesOk(stk, am) /\ TodoOk(stk, u.queue, am) /\ LeaveOk(stk, am) /\ CallerOk(stk) /\ BottomOk(stk)
  BY <1>1 DEF Base
<1>7. LeaveOk(stk, an) /\ CountOk(stk, an, s.hooks)
  BY DEF Base
<1> HIDE DEF stk, st, an, am, f
<1>8. FramesOk(st, am)
  BY <1>2, <1>5, <1>6 DEF FramesOk, AnimFrames, ElemFrames, am
<1>9. TodoOk(st, u.queue, am)
  BY <1>2, <1>5, <1>6 DEF TodoOk, ElemFrames, Once, Apart, AllWait
<1>10. \A k \in DOMAIN stk : stk[k].at = "unqueue" => stk[k].a # a
  BY <1>7 DEF LeaveOk, an
<1>11. LeaveOk(st, am)
  BY <1>2, <1>5, <1>6, <1>10 DEF LeaveOk, am
<1>12. CountOk(st, am, s.hooks)
  <2> SUFFICES ASSUME NEW e \in Elem
               PROVE  s.hooks[e].unqueued >= Cardinality(Beside(st, am, e))
    BY DEF CountOk
  <2>1. Beside(st, am, e) \subseteq Beside(stk, an, e)
    BY <1>2, <1>5 DEF Beside, Ages, Leaving, an, am
  <2>3. IsFiniteSet(Beside(stk, an, e))
    BY BesideFinite
  <2>4. /\ Cardinality(Beside(st, am, e)) \in Nat /\ Cardinality(Beside(stk, an, e)) \in Nat
        /\ Cardinality(Beside(st, am, e)) <= Cardinality(Beside(stk, an, e))
    BY <2>1, <2>3, FS_Subset, FS_CardinalityType
  <2>5. s.hooks[e].unqueued >= Cardinality(Beside(stk, an, e)) /\ s.hooks[e].unqueued \in Int
    BY <1>4, <1>7 DEF CountOk, HookVars
  <2> QED BY <2>4, <2>5
<1>13. CallerOk(st)
  BY <1>1, <1>2, <1>3, <1>5, <1>6 DEF CallerOk
<1>14. BottomOk(st)
  BY <1>2, <1>5, <1>6 DEF BottomOk
<1> QED BY <1>4, <1>8, <1>9, <1>11, <1>12, <1>13, <1>14 DEF Base, st, am

LEMMA BaseComplete ==
    ASSUME NEW s, NEW a \in Anim, Base(s), Started(s.anims, a)
    PROVE  Base(Complete(s, a))
<1> DEFINE f == IF s.anims[a].queued THEN Of("complete", a) ELSE User
<1>0. PICK c : c = Of("complete", a)
  OBVIOUS
<1>1. f \in FrameVars /\ f.todo = <<>> /\ (f.at = "user" \/ (f.at = "complete" /\ f.a = a))
  <2>1. c \in FrameVars /\ c.todo = <<>> /\ c.at = "complete" /\ c.a = a
    <3>1. "complete" \in AnimFrames
      BY DEF AnimFrames
    <3> QED BY <1>0, <3>1, OfAnim
  <2>2. f = c \/ f = User
    BY <1>0
  <2> QED BY <2>1, <2>2, UserIs
<1>2. FrameFits(s.stack, s.anims, f)
  BY <1>1 DEF FrameFits, AnimFrames
<1>3. Complete(s, a) = Push(s, f)
  BY DEF Complete
<1> HIDE DEF f
<1>4. s \in FxVars
  BY DEF Base
<1> QED BY <1>1, <1>2, <1>3, <1>4, PushIs, BaseAdds

LEMMA BaseSettles ==
    ASSUME NEW s, NEW a \in Anim, Base(s), NEW st \in {"resolved", "rejected"}
    PROVE  Base(Settle(s, a, st))
<1>1. CASE s.anims[a].state # "pending"
  BY <1>1 DEF Settle
<1>2. CASE s.anims[a].state = "pending"
  <2> DEFINE u == SettledOne(s, a, st)
             c == IF s.anims[a].queued THEN u ELSE Push(u, Of("unqueue", a))
  <2>1. s \in FxVars /\ st \in States /\ s.anims \in [Anim -> AnimVars]
    BY FxIs DEF Base, States
  <2>2. /\ Animated(s, u) /\ u.anims[a].state = st
        /\ \A b \in Anim : b # a => u.anims[b] = s.anims[b]
        /\ \A b \in Anim : u.anims[b].of = s.anims[b].of /\ u.anims[b].queued = s.anims[b].queued
                             /\ u.anims[b].zero = s.anims[b].zero
    BY <2>1, SettledIs
  <2>3. Settle(s, a, st) = IF st = "resolved" /\ s.anims[a].attached THEN Complete(c, a) ELSE c
    BY <1>2 DEF Settle, SettledOne
  <2> HIDE DEF u
  <2>4. u \in FxVars /\ u.anims \in [Anim -> AnimVars]
    BY <2>2, FxIs DEF Animated
  <2>5. Ages(s.anims, u.anims) /\ Started(u.anims, a) /\ u.anims[a].state # "pending"
    BY <1>2, <2>2, <2>4 DEF Ages, Started
  <2>6. Base(u)
    BY <2>2, <2>5, BaseAges
  <2>7. CASE s.anims[a].queued
    <3>1. Base(c) /\ Started(c.anims, a)
      BY <2>5, <2>6, <2>7
    <3> QED BY <2>3, <3>1, BaseComplete
  <2>8. CASE ~s.anims[a].queued
    <3>1. Of("unqueue", a) \in FrameVars
      BY OfIs DEF Places
    <3>2. c = Push(u, Of("unqueue", a))
      BY <2>8
    <3>3. Stacked(u, c) /\ Adds(u.stack, Of("unqueue", a), c.stack)
      BY <2>4, <3>1, <3>2, PushIs
    <3> HIDE DEF c
    <3>4. ~u.anims[a].queued
      BY <2>2, <2>8
    <3>5. Base(c)
      BY <1>2, <2>2, <2>5, <2>6, <3>3, <3>4, BaseLeaves
    <3>6. Started(c.anims, a)
      BY <2>5, <3>3 DEF Stacked
    <3> QED BY <2>3, <3>5, <3>6, BaseComplete
  <2> QED BY <2>1, <2>7, <2>8 DEF AnimVars
<1> QED BY <1>1, <1>2

LEMMA BaseStopAnim ==
    ASSUME NEW s, NEW a \in Anim, Base(s), Started(s.anims, a), NEW end \in BOOLEAN
    PROVE  Base(StopAnim(s, a, end))
<1> DEFINE u == StoppedOne(s, a)
<1>1. s \in FxVars /\ s.anims \in [Anim -> AnimVars]
  BY FxIs DEF Base
<1>2. /\ Animated(s, u) /\ u.anims[a].stopped
      /\ \A b \in Anim : b # a => u.anims[b] = s.anims[b]
      /\ \A b \in Anim : u.anims[b].of = s.anims[b].of /\ u.anims[b].queued = s.anims[b].queued
                           /\ u.anims[b].zero = s.anims[b].zero /\ u.anims[b].state = s.anims[b].state
  BY <1>1, StopIs
<1>3. StopAnim(s, a, end) = IF s.anims[a].stopped THEN s
                            ELSE IF end THEN Push(u, Of("end", a)) ELSE Settle(u, a, "rejected")
  BY DEF StopAnim, StoppedOne
<1> HIDE DEF u
<1>4. u \in FxVars /\ u.anims \in [Anim -> AnimVars]
  BY <1>2, FxIs DEF Animated
<1>5. Ages(s.anims, u.anims) /\ Started(u.anims, a)
  BY <1>2, <1>4 DEF Ages, Started
<1>6. Base(u)
  BY <1>2, <1>5, BaseAges
<1>7. Base(Settle(u, a, "rejected"))
  BY <1>6, BaseSettles
<1>8. Base(Push(u, Of("end", a)))
  <2> DEFINE f == Of("end", a)
  <2>0. "end" \in AnimFrames
    BY DEF AnimFrames
  <2>1. f \in FrameVars /\ f.at = "end" /\ f.a = a /\ f.todo = <<>>
    BY <2>0, OfAnim
  <2>2. FrameFits(u.stack, u.anims, f)
    BY <1>5, <2>1 DEF FrameFits
  <2> HIDE DEF f
  <2>3. Base(Push(u, f))
    BY <1>4, <1>6, <2>1, <2>2, PushIs, BaseAdds
  <2> QED BY <2>3 DEF f
<1> QED BY <1>3, <1>7, <1>8
-----------------------------------------------------------------------------
\* Sweep forgets only what nothing refers to.
Sweeps(s, t) ==
    /\ Animated(s, t)
    /\ \A a \in Anim : \/ t.anims[a] = s.anims[a]
                       \/ s.anims[a].state \notin {"new", "pending"} /\ t.anims[a].state = "gone"
    /\ \A j \in DOMAIN s.timers : t.anims[s.timers[j]] = s.anims[s.timers[j]]
    /\ \A k \in DOMAIN s.stack :
         /\ s.stack[k].a \in Anim => t.anims[s.stack[k].a] = s.anims[s.stack[k].a]
         /\ \A j \in DOMAIN s.stack[k].todo :
              s.stack[k].todo[j] \in Anim => t.anims[s.stack[k].todo[j]] = s.anims[s.stack[k].todo[j]]
    /\ \A e \in Elem : \A j \in DOMAIN s.queue[e] :
         s.queue[e][j] \in Anim => t.anims[s.queue[e][j]] = s.anims[s.queue[e][j]]

LEMMA NotMadeIs ==
    ASSUME NEW x \in {NotMade, Gone}
    PROVE  /\ x \in AnimVars /\ x.queued /\ ~x.stopped /\ ~x.elem /\ ~x.attached /\ ~x.zero
           /\ x.state \in {"new", "gone"} /\ NotMade.state = "new" /\ Gone.state = "gone"
<1>1. PICK no, yes : no = FALSE /\ yes = TRUE
  OBVIOUS
<1> DEFINE y == [of |-> "none", queued |-> yes, zero |-> no, state |-> "new",
                 stopped |-> no, elem |-> no, attached |-> no]
<1>2. NotMade = y
  BY <1>1, Zenon DEF NotMade
<1>3. no \in BOOLEAN /\ yes \in BOOLEAN
  BY <1>1
<1>4. y \in AnimVars /\ y.queued = yes /\ y.stopped = no /\ y.elem = no /\ y.attached = no /\ y.zero = no
      /\ y.state = "new"
  BY <1>3 DEF AnimVars, States
<1> HIDE DEF y
<1> DEFINE z == [y EXCEPT !.state = "gone"]
<1>5. z \in AnimVars /\ z.queued = y.queued /\ z.stopped = y.stopped /\ z.attached = y.attached
      /\ z.elem = y.elem /\ z.zero = y.zero /\ z.state = "gone"
  BY <1>4 DEF AnimVars, States
<1>6. Gone = z
  BY <1>2, Zenon DEF Gone
<1> HIDE DEF z
<1> QED BY <1>1, <1>2, <1>4, <1>5, <1>6

LEMMA SweepIs == ASSUME NEW s \in FxVars PROVE Sweeps(s, Sweep(s))
<1> DEFINE kept == ToSet(s.timers) \cup {s.stack[i].a : i \in DOMAIN s.stack}
                     \cup (UNION {ToSet(s.queue[e]) : e \in Elem})
                     \cup (UNION {ToSet(s.stack[i].todo) : i \in DOMAIN s.stack})
           x == [a \in Anim |-> IF s.anims[a].state \notin {"new", "pending"} /\ a \notin kept
                                  THEN Gone ELSE s.anims[a]]
<1>1. Sweep(s) = [s EXCEPT !.anims = x]
  BY Zenon DEF Sweep
<1>2. \A j \in DOMAIN s.timers : s.timers[j] \in kept
  BY DEF ToSet
<1>3. \A k \in DOMAIN s.stack : /\ s.stack[k].a \in kept
                                /\ \A j \in DOMAIN s.stack[k].todo : s.stack[k].todo[j] \in kept
  <2> TAKE k \in DOMAIN s.stack
  <2>1. s.stack[k].a \in {s.stack[i].a : i \in DOMAIN s.stack}
    OBVIOUS
  <2>2. ASSUME NEW j \in DOMAIN s.stack[k].todo PROVE s.stack[k].todo[j] \in kept
    <3>1. s.stack[k].todo[j] \in ToSet(s.stack[k].todo)
      BY DEF ToSet
    <3>2. s.stack[k].todo[j] \in UNION {ToSet(s.stack[i].todo) : i \in DOMAIN s.stack}
      BY <3>1
    <3>3. UNION {ToSet(s.stack[i].todo) : i \in DOMAIN s.stack} \subseteq kept
      OBVIOUS
    <3> HIDE DEF kept
    <3> QED BY <3>2, <3>3, Zenon
  <2> QED BY <2>1, <2>2
<1>4. \A e \in Elem : \A j \in DOMAIN s.queue[e] : s.queue[e][j] \in kept
  <2> TAKE e \in Elem
  <2> TAKE j \in DOMAIN s.queue[e]
  <2>1. s.queue[e][j] \in ToSet(s.queue[e])
    BY DEF ToSet
  <2>2. s.queue[e][j] \in UNION {ToSet(s.queue[d]) : d \in Elem}
    BY <2>1
  <2> QED BY <2>2
<1> HIDE DEF kept
<1>5. Gone \in AnimVars /\ Gone.state = "gone"
  BY NotMadeIs
<1>6. /\ s.anims \in [Anim -> AnimVars] /\ s.timers \in Seq(Anim)
  BY FxIs
<1>7. x \in [Anim -> AnimVars]
  BY <1>5, <1>6
<1>8. \A a \in Anim : \/ x[a] = s.anims[a]
                      \/ /\ s.anims[a].state \notin {"new", "pending"} /\ a \notin kept
                         /\ x[a].state = "gone"
  BY <1>5
<1> HIDE DEF x
<1>9. Animated(s, Sweep(s)) /\ Sweep(s).anims = x
  BY <1>1, <1>7, AnimsIs
<1>10. \A j \in DOMAIN s.timers : s.timers[j] \in Anim
  BY <1>6
<1> QED BY <1>2, <1>3, <1>4, <1>8, <1>9, <1>10 DEF Sweeps

LEMMA BaseSweeps == ASSUME NEW s, NEW t, Base(s), Sweeps(s, t) PROVE Base(t)
<1> DEFINE stk == s.stack an == s.anims am == t.anims
<1>1. /\ stk \in Seq(FrameVars) /\ s.timers \in Seq(Anim) /\ s.queue \in [Elem -> Entries]
      /\ an \in [Anim -> AnimVars]
  BY FxIs DEF Base
<1>2. \A k \in DOMAIN stk : stk[k] \in FrameVars /\ stk[k].todo \in Entries
  BY <1>1, FrameIs
<1>3. /\ t \in FxVars /\ t.stack = stk /\ t.queue = s.queue /\ t.timers = s.timers /\ t.hooks = s.hooks
      /\ s.hooks \in [Elem -> HookVars] /\ am \in [Anim -> AnimVars]
  BY FxIs DEF Sweeps, Animated, Base
<1>4. \A a \in Anim : am[a] = an[a] \/ (an[a].state \notin {"new", "pending"} /\ am[a].state = "gone")
  BY DEF Sweeps
<1>5. \A j \in DOMAIN s.timers : am[s.timers[j]] = an[s.timers[j]]
  BY DEF Sweeps
<1>6. \A k \in DOMAIN stk :
         /\ stk[k].a \in Anim => am[stk[k].a] = an[stk[k].a]
         /\ \A j \in DOMAIN stk[k].todo : stk[k].todo[j] \in Anim => am[stk[k].todo[j]] = an[stk[k].todo[j]]
  BY DEF Sweeps
<1>7. \A e \in Elem : \A j \in DOMAIN s.queue[e] :
         s.queue[e][j] \in Anim => am[s.queue[e][j]] = an[s.queue[e][j]]
  BY DEF Sweeps
<1>8. FramesOk(stk, an) /\ LeaveOk(stk, an)
  BY DEF Base
<1> HIDE DEF stk, an, am
<1>9. FramesOk(stk, am)
  BY <1>6, <1>8 DEF FramesOk, Started
<1>10. TimersOk(s.timers, an) => TimersOk(s.timers, am)
  BY <1>5 DEF TimersOk, Started
<1>11. AnimsOk(an) => AnimsOk(am)
  BY <1>4 DEF AnimsOk
<1>12. QueueOk(s.queue, an) => QueueOk(s.queue, am)
  <2>1. \A e \in Elem : s.queue[e] \in Seq(Anim \cup {InProgress})
    BY <1>1 DEF Entries
  <2>2. \A e \in Elem : \A j \in DOMAIN s.queue[e] : s.queue[e][j] \in Anim \cup {InProgress}
    BY <2>1
  <2> QED BY <2>2, <1>7 DEF QueueOk, AllWait, Waits
<1>13. TodoOk(stk, s.queue, an) => TodoOk(stk, s.queue, am)
  <2>2. \A k \in DOMAIN stk : \A j \in DOMAIN stk[k].todo : stk[k].todo[j] \in Anim \cup {InProgress}
    BY <1>2 DEF Entries
  <2> QED BY <2>2, <1>6 DEF TodoOk, AllWait, Waits
<1>14. LeaveOk(stk, am)
  BY <1>6, <1>8 DEF LeaveOk, FramesOk, AnimFrames
<1>15. CountOk(stk, an, s.hooks) => CountOk(stk, am, s.hooks)
  <2> SUFFICES ASSUME CountOk(stk, an, s.hooks), NEW e \in Elem
               PROVE  s.hooks[e].unqueued >= Cardinality(Beside(stk, am, e))
    BY DEF CountOk
  <2>1. Beside(stk, am, e) \subseteq Beside(stk, an, e)
    <3> SUFFICES ASSUME NEW a \in Beside(stk, am, e) PROVE a \in Beside(stk, an, e)
      OBVIOUS
    <3>1. a \in Anim /\ (am[a].state = "pending" \/ Leaving(stk, a))
      BY DEF Beside
    <3>2. am[a] = an[a]
      BY <1>4, <1>6, <3>1 DEF Leaving
    <3> QED BY <3>2 DEF Beside
  <2>3. IsFiniteSet(Beside(stk, an, e))
    BY BesideFinite
  <2>4. /\ Cardinality(Beside(stk, am, e)) \in Nat /\ Cardinality(Beside(stk, an, e)) \in Nat
        /\ Cardinality(Beside(stk, am, e)) <= Cardinality(Beside(stk, an, e))
    BY <2>1, <2>3, FS_Subset, FS_CardinalityType
  <2>5. s.hooks[e].unqueued >= Cardinality(Beside(stk, an, e)) /\ s.hooks[e].unqueued \in Int
    BY <1>3 DEF CountOk, HookVars
  <2> QED BY <2>4, <2>5
<1> QED BY <1>3, <1>9, <1>10, <1>11, <1>12, <1>13, <1>14, <1>15 DEF Base, stk, an, am
-----------------------------------------------------------------------------
\* Queues and hooks.
\* t is s but for its hooks and queues.
Rearranged(s, t) ==
    /\ t \in FxVars
    /\ t.timers = s.timers /\ t.timerId = s.timerId /\ t.anims = s.anims
    /\ t.finish = s.finish /\ t.stack = s.stack

Hooked(s, t) ==
    /\ Rearranged(s, t) /\ t.queue = s.queue
    /\ \A e \in Elem : /\ t.hooks[e].unqueued = s.hooks[e].unqueued
                       /\ t.hooks[e].waiting = s.hooks[e].waiting

\* t differs from s in the queue and the hooks of one element.
OnlyAt(s, e, t) == \A d \in Elem : d # e => t.queue[d] = s.queue[d] /\ t.hooks[d] = s.hooks[d]

QueueSet(s, e, q) == [s EXCEPT !.queue[e] = q]
Requeued(s, e, q, t) ==
    /\ Rearranged(s, t) /\ t.hooks = s.hooks
    /\ t.queue[e] = q /\ \A d \in Elem : d # e => t.queue[d] = s.queue[d]

LEMMA QueueHooksIs ==
    ASSUME NEW s \in FxVars, NEW e \in Elem
    PROVE  Hooked(s, QueueHooks(s, e)) /\ OnlyAt(s, e, QueueHooks(s, e))
<1>1. PICK yes : yes = TRUE
  OBVIOUS
<1> DEFINE y == [s.hooks[e] EXCEPT !.present = yes]
           x == [s.hooks EXCEPT ![e] = y]
<1>2. s.hooks \in [Elem -> HookVars] /\ yes \in BOOLEAN
  BY <1>1, FxIs
<1>3. y \in HookVars /\ y.unqueued = s.hooks[e].unqueued /\ y.waiting = s.hooks[e].waiting
  BY <1>2 DEF HookVars
<1>4. QueueHooks(s, e) = [s EXCEPT !.hooks = x]
  BY <1>1, Zenon DEF QueueHooks
<1> HIDE DEF y
<1>5. x \in [Elem -> HookVars] /\ x[e] = y /\ \A d \in Elem : d # e => x[d] = s.hooks[d]
  BY <1>2, <1>3
<1> HIDE DEF x
<1> DEFINE t == [s EXCEPT !.hooks = x]
<1>6. Rearranged(s, t) /\ t.queue = s.queue /\ t.hooks = x
  BY <1>5 DEF FxVars, Rearranged
<1> HIDE DEF t
<1>7. Hooked(s, t) /\ OnlyAt(s, e, t)
  BY <1>3, <1>5, <1>6 DEF Hooked, OnlyAt
<1> QED BY <1>4, <1>7 DEF t

LEMMA QueueSetIs ==
    ASSUME NEW s \in FxVars, NEW e \in Elem, NEW q \in Entries
    PROVE  Requeued(s, e, q, QueueSet(s, e, q))
<1> DEFINE x == [s.queue EXCEPT ![e] = q]
<1>1. s.queue \in [Elem -> Entries]
  BY FxIs
<1>2. QueueSet(s, e, q) = [s EXCEPT !.queue = x]
  BY Zenon DEF QueueSet
<1>3. x \in [Elem -> Entries] /\ x[e] = q /\ \A d \in Elem : d # e => x[d] = s.queue[d]
  BY <1>1
<1> HIDE DEF x
<1> DEFINE t == [s EXCEPT !.queue = x]
<1>4. Rearranged(s, t) /\ t.queue = x /\ t.hooks = s.hooks
  BY <1>3 DEF FxVars, Rearranged
<1> HIDE DEF t
<1> QED BY <1>2, <1>3, <1>4 DEF t, Requeued

\* What is left of a queue.
Thinner(q, p) ==
    /\ Once(p, 0) /\ HeadOnly(p)
    /\ \A i \in DOMAIN p : p[i] # InProgress => \E j \in DOMAIN q : p[i] = q[j]

LEMMA BaseRearranged ==
    ASSUME NEW s, NEW t, Base(s), Rearranged(s, t),
           \A e \in Elem : t.queue[e] = s.queue[e] \/ Thinner(s.queue[e], t.queue[e]),
           CountOk(s.stack, s.anims, t.hooks)
    PROVE  Base(t)
<1> DEFINE stk == s.stack an == s.anims qu == s.queue qt == t.queue
<1>1. /\ t \in FxVars /\ t.stack = stk /\ t.timers = s.timers /\ t.anims = an
      /\ stk \in Seq(FrameVars)
  BY FxIs DEF Rearranged, Base
<1>2. \A e \in Elem : qt[e] = qu[e] \/ Thinner(qu[e], qt[e])
  OBVIOUS
<1>3. QueueOk(qu, an) /\ TodoOk(stk, qu, an) /\ FramesOk(stk, an)
  BY DEF Base
<1> HIDE DEF stk, an, qu, qt
<1>4. QueueOk(qt, an)
  <2> SUFFICES ASSUME NEW e \in Elem PROVE Once(qt[e], 0) /\ HeadOnly(qt[e]) /\ AllWait(qt[e], 0, an, e)
    BY DEF QueueOk
  <2>1. Once(qu[e], 0) /\ HeadOnly(qu[e]) /\ AllWait(qu[e], 0, an, e)
    BY <1>3 DEF QueueOk
  <2>2. CASE qt[e] = qu[e]
    BY <2>1, <2>2
  <2>3. CASE Thinner(qu[e], qt[e])
    <3>1. /\ Once(qt[e], 0) /\ HeadOnly(qt[e])
          /\ \A i \in DOMAIN qt[e] : qt[e][i] # InProgress => \E j \in DOMAIN qu[e] : qt[e][i] = qu[e][j]
      BY <2>3 DEF Thinner
    <3>2. qu[e] \in Entries
      BY <1>1, FxIs DEF Base, qu
    <3>3. \A j \in DOMAIN qu[e] : j > 0 /\ Waits(an, qu[e][j], e)
      BY <2>1, <3>2 DEF AllWait, Entries
    <3> QED BY <3>1, <3>3 DEF AllWait, Waits
  <2> QED BY <1>2, <2>2, <2>3
<1>5. TodoOk(stk, qt, an)
  <2> SUFFICES ASSUME NEW k \in DOMAIN stk, stk[k].at \in ElemFrames
               PROVE  Apart(stk[k].todo, 1, qt[stk[k].a], 0)
    BY <1>3 DEF TodoOk
  <2> DEFINE e == stk[k].a
  <2>1. e \in Elem /\ Apart(stk[k].todo, 1, qu[e], 0)
    BY <1>3 DEF FramesOk, TodoOk
  <2>2. qu[e] \in Entries
    BY <1>1, <2>1, FxIs DEF Base, qu
  <2> HIDE DEF e
  <2>3. CASE qt[e] = qu[e]
    BY <2>1, <2>3 DEF e
  <2>4. CASE Thinner(qu[e], qt[e])
    <3>1. \A i \in DOMAIN qt[e] : qt[e][i] # InProgress => \E j \in DOMAIN qu[e] : qt[e][i] = qu[e][j]
      BY <2>4 DEF Thinner
    <3>2. \A j \in DOMAIN qu[e] : j > 0
      BY <2>2 DEF Entries
    <3>3. Apart(stk[k].todo, 1, qt[e], 0)
      BY <2>1, <3>1, <3>2 DEF Apart
    <3> QED BY <3>3 DEF e
  <2> QED BY <1>2, <2>1, <2>3, <2>4
<1> QED BY <1>1, <1>4, <1>5 DEF Base, stk, an, qu, qt

LEMMA BaseHooked == ASSUME NEW s, NEW t, Base(s), Hooked(s, t) PROVE Base(t)
<1>1. CountOk(s.stack, s.anims, t.hooks)
  BY DEF Base, CountOk, Hooked
<1>2. Rearranged(s, t) /\ t.queue = s.queue
  BY DEF Hooked
<1> QED BY <1>1, <1>2, BaseRearranged

\* hooks.empty.fire.
Fires(s, e, t) ==
    /\ t \in FxVars
    /\ t.timers = s.timers /\ t.timerId = s.timerId /\ t.anims = s.anims /\ t.finish = s.finish
    /\ t.queue[e] = <<>> /\ t.hooks[e].unqueued = 0 /\ t.hooks[e].waiting = 0 /\ ~t.hooks[e].present
    /\ \A d \in Elem : d # e => t.queue[d] = s.queue[d] /\ t.hooks[d] = s.hooks[d]
    /\ Tells(s.stack, t.stack)
    /\ s.hooks[e].unqueued <= 0

LEMMA EmptyFireIs ==
    ASSUME NEW s \in FxVars, NEW e \in Elem
    PROVE  \/ EmptyFire(s, e) = s /\ s.hooks[e].unqueued > 0
           \/ Fires(s, e, EmptyFire(s, e))
<1>1. PICK no, zero, none : no = FALSE /\ zero = 0 /\ none = <<>>
  OBVIOUS
<1> DEFINE h == [present |-> no, unqueued |-> zero, waiting |-> zero]
           n == s.hooks[e].waiting
           u == [i \in 1 .. n |-> User]
           st == s.stack \o u
           x == [s.queue EXCEPT ![e] = none]
           y == [s.hooks EXCEPT ![e] = h]
           t == [s EXCEPT !.queue = x, !.hooks = y, !.stack = st]
<1>2. /\ s.queue \in [Elem -> Entries] /\ s.hooks \in [Elem -> HookVars] /\ s.stack \in Seq(FrameVars)
      /\ no \in BOOLEAN /\ zero \in Nat /\ none \in Entries
  BY <1>1, FxIs, EmptySeq DEF Entries
<1>3. n \in Nat
  BY <1>2 DEF HookVars
<1>4. u \in Seq(FrameVars) /\ Len(u) = n /\ \A i \in 1 .. n : u[i] = User
  BY <1>3, UserIs
<1>5. Tells(s.stack, st)
  BY <1>2, <1>3, <1>4, ConcatProperties DEF Tells
<1>6. h \in HookVars /\ h.unqueued = 0 /\ h.waiting = 0 /\ ~h.present
  BY <1>1, <1>2 DEF HookVars
<1>7. NoHooks = h
  BY <1>1, Zenon DEF NoHooks
<1>8. CASE s.hooks[e].unqueued > 0
  BY <1>8 DEF EmptyFire
<1>9. CASE ~(s.hooks[e].unqueued > 0)
  <2>1. EmptyFire(s, e) = t
    BY <1>1, <1>7, <1>9, Zenon DEF EmptyFire
  <2> HIDE DEF h, st
  <2>2. x \in [Elem -> Entries] /\ x[e] = none /\ \A d \in Elem : d # e => x[d] = s.queue[d]
    BY <1>2
  <2>3. y \in [Elem -> HookVars] /\ y[e] = h /\ \A d \in Elem : d # e => y[d] = s.hooks[d]
    BY <1>2, <1>6
  <2>4. st \in Seq(FrameVars)
    BY <1>5 DEF Tells
  <2> HIDE DEF x, y
  <2>5. /\ t \in FxVars
        /\ t.timers = s.timers /\ t.timerId = s.timerId /\ t.anims = s.anims /\ t.finish = s.finish
        /\ t.queue = x /\ t.hooks = y /\ t.stack = st
    BY <2>2, <2>3, <2>4 DEF FxVars
  <2> HIDE DEF t
  <2>6. s.hooks[e].unqueued <= 0
    BY <1>2, <1>9 DEF HookVars
  <2>7. Fires(s, e, t)
    BY <1>1, <1>5, <1>6, <2>2, <2>3, <2>5, <2>6 DEF Fires
  <2> QED BY <2>1, <2>7
<1> QED BY <1>8, <1>9

LEMMA BaseFires == ASSUME NEW s, NEW t, NEW e \in Elem, Base(s), Fires(s, e, t) PROVE Base(t)
<1> DEFINE u == [t EXCEPT !.stack = s.stack]
<1>1. s \in FxVars /\ s.stack \in Seq(FrameVars) /\ t \in FxVars /\ s.hooks \in [Elem -> HookVars]
  BY FxIs DEF Base, Fires
<1>2. Stacked(t, u) /\ u.stack = s.stack
  BY <1>1, StackIs
<1> HIDE DEF u
<1>3. Rearranged(s, u) /\ u.queue = t.queue /\ u.hooks = t.hooks
  BY <1>2 DEF Rearranged, Stacked, Fires
<1>4. Thinner(s.queue[e], u.queue[e])
  BY <1>3, EmptySeq DEF Fires, Thinner, Once, HeadOnly
<1>5. CountOk(s.stack, s.anims, u.hooks)
  <2> SUFFICES ASSUME NEW d \in Elem PROVE u.hooks[d].unqueued >= Cardinality(Beside(s.stack, s.anims, d))
    BY DEF CountOk
  <2>1. s.hooks[d].unqueued >= Cardinality(Beside(s.stack, s.anims, d)) /\ s.hooks[d].unqueued \in Int
    BY <1>1 DEF Base, CountOk, HookVars
  <2>2. Cardinality(Beside(s.stack, s.anims, d)) \in Nat
    BY BesideFinite, FS_CardinalityType
  <2> QED BY <1>3, <2>1, <2>2 DEF Fires
<1>6. \A d \in Elem : u.queue[d] = s.queue[d] \/ Thinner(s.queue[d], u.queue[d])
  BY <1>3, <1>4 DEF Fires
<1>7. Base(u)
  BY <1>3, <1>5, <1>6, BaseRearranged
<1>8. Stacked(u, t) /\ Tells(u.stack, t.stack)
  BY <1>1, <1>2 DEF Stacked, Fires
<1> QED BY <1>7, <1>8, BaseTells

LEMMA BaseEmptyFire == ASSUME NEW s, NEW e \in Elem, Base(s) PROVE Base(EmptyFire(s, e))
BY EmptyFireIs, BaseFires DEF Base
-----------------------------------------------------------------------------
\* A new animation.
BegunOne(s, a) ==
    LET e == s.anims[a].of
        counted == IF s.anims[a].queued THEN s
                   ELSE [QueueHooks(s, e) EXCEPT !.hooks[e].unqueued = @ + 1]
    IN  [counted EXCEPT !.timers = Append(@, a), !.anims[a].state = "pending", !.anims[a].elem = TRUE]

Begins(s, a, t) ==
    /\ t \in FxVars
    /\ t.timers = Append(s.timers, a) /\ t.timerId = s.timerId /\ t.queue = s.queue
    /\ t.finish = s.finish /\ t.stack = s.stack
    /\ t.anims[a].state = "pending" /\ t.anims[a].elem
    /\ \A b \in Anim : b # a => t.anims[b] = s.anims[b]
    /\ \A b \in Anim :
         /\ t.anims[b].of = s.anims[b].of /\ t.anims[b].queued = s.anims[b].queued
         /\ t.anims[b].zero = s.anims[b].zero /\ t.anims[b].stopped = s.anims[b].stopped
         /\ t.anims[b].attached = s.anims[b].attached
    /\ \A e \in Elem :
         /\ s.anims[a].queued \/ e # s.anims[a].of => t.hooks[e] = s.hooks[e]
         /\ t.hooks[e].waiting = s.hooks[e].waiting
         /\ t.hooks[e].unqueued = s.hooks[e].unqueued
                                    + (IF ~s.anims[a].queued /\ e = s.anims[a].of THEN 1 ELSE 0)

LEMMA CountedIs ==
    ASSUME NEW s \in FxVars, NEW e \in Elem
    PROVE  LET t == [QueueHooks(s, e) EXCEPT !.hooks[e].unqueued = @ + 1] IN
           /\ Rearranged(s, t) /\ t.queue = s.queue /\ OnlyAt(s, e, t)
           /\ \A d \in Elem : /\ t.hooks[d].waiting = s.hooks[d].waiting
                              /\ t.hooks[d].unqueued = s.hooks[d].unqueued + (IF d = e THEN 1 ELSE 0)
<1> DEFINE u == QueueHooks(s, e)
           n == u.hooks[e].unqueued + 1
           y == [u.hooks[e] EXCEPT !.unqueued = n]
           x == [u.hooks EXCEPT ![e] = y]
           t == [u EXCEPT !.hooks[e].unqueued = @ + 1]
<1>1. Hooked(s, u) /\ OnlyAt(s, e, u)
  BY QueueHooksIs
<1> HIDE DEF u
<1>2. u \in FxVars /\ u.hooks \in [Elem -> HookVars] /\ s.hooks \in [Elem -> HookVars]
  BY <1>1, FxIs DEF Hooked, Rearranged
<1>3. t = [u EXCEPT !.hooks = x]
  BY Zenon
<1>4. n \in Int
  BY <1>2 DEF HookVars
<1> HIDE DEF n
<1>5. y \in HookVars /\ y.unqueued = n /\ y.waiting = u.hooks[e].waiting
  BY <1>2, <1>4 DEF HookVars
<1> HIDE DEF y, t
<1>6. x \in [Elem -> HookVars] /\ x[e] = y /\ \A d \in Elem : d # e => x[d] = u.hooks[d]
  BY <1>2, <1>5
<1> HIDE DEF x
<1>7. Rearranged(u, t) /\ t.queue = u.queue /\ t.hooks = x
  BY <1>2, <1>3, <1>6 DEF FxVars, Rearranged
<1>8. Rearranged(s, t) /\ t.queue = s.queue /\ OnlyAt(s, e, t)
  BY <1>1, <1>6, <1>7 DEF Hooked, Rearranged, OnlyAt
<1>9. \A d \in Elem : /\ t.hooks[d].waiting = s.hooks[d].waiting
                      /\ t.hooks[d].unqueued = s.hooks[d].unqueued + (IF d = e THEN 1 ELSE 0)
  <2> TAKE d \in Elem
  <2>1. s.hooks[d].unqueued \in Int /\ u.hooks[d].unqueued = s.hooks[d].unqueued
        /\ u.hooks[d].waiting = s.hooks[d].waiting
    BY <1>1, <1>2 DEF Hooked, HookVars
  <2>2. CASE d = e
    BY <1>5, <1>6, <1>7, <2>1, <2>2 DEF n
  <2>3. CASE d # e
    BY <1>6, <1>7, <2>1, <2>3
  <2> QED BY <2>2, <2>3
<1> QED BY <1>8, <1>9 DEF t, u

LEMMA BegunIs ==
    ASSUME NEW s \in FxVars, NEW a \in Anim, s.anims[a].of \in Elem
    PROVE  Begins(s, a, BegunOne(s, a))
<1>1. PICK yes : yes = TRUE
  OBVIOUS
<1> DEFINE e == s.anims[a].of
           c == IF s.anims[a].queued THEN s ELSE [QueueHooks(s, e) EXCEPT !.hooks[e].unqueued = @ + 1]
           t == BegunOne(s, a)
<1>2. /\ Rearranged(s, c) /\ c.queue = s.queue
      /\ \A d \in Elem :
           /\ s.anims[a].queued \/ d # e => c.hooks[d] = s.hooks[d]
           /\ c.hooks[d].waiting = s.hooks[d].waiting
           /\ c.hooks[d].unqueued = s.hooks[d].unqueued + (IF ~s.anims[a].queued /\ d = e THEN 1 ELSE 0)
  <2>1. CASE s.anims[a].queued
    <3>1. c = s
      BY <2>1
    <3>2. Rearranged(s, s)
      BY DEF Rearranged
    <3>3. \A d \in Elem : s.hooks[d].unqueued \in Int
      BY FxIs DEF HookVars
    <3> HIDE DEF c
    <3> QED BY <2>1, <3>1, <3>2, <3>3
  <2>2. CASE ~s.anims[a].queued
    <3> DEFINE u == [QueueHooks(s, e) EXCEPT !.hooks[e].unqueued = @ + 1]
    <3>1. c = u
      BY <2>2
    <3>2. /\ Rearranged(s, u) /\ u.queue = s.queue
          /\ \A d \in Elem : d # e => u.hooks[d] = s.hooks[d]
          /\ \A d \in Elem : /\ u.hooks[d].waiting = s.hooks[d].waiting
                             /\ u.hooks[d].unqueued = s.hooks[d].unqueued + (IF d = e THEN 1 ELSE 0)
      BY CountedIs DEF OnlyAt
    <3> HIDE DEF c, u
    <3> QED BY <2>2, <3>1, <3>2
  <2> QED BY <2>1, <2>2
<1>3. t = [c EXCEPT !.timers = Append(@, a), !.anims[a].state = "pending", !.anims[a].elem = TRUE]
  BY Zenon DEF BegunOne
<1> HIDE DEF c, t
<1> DEFINE tm == Append(c.timers, a)
           m == [c EXCEPT !.timers = tm]
           y == [m.anims[a] EXCEPT !.state = "pending"]
           x == [m.anims EXCEPT ![a] = y]
           z == [m EXCEPT !.anims = x]
           v == [z.anims[a] EXCEPT !.elem = yes]
           w == [z.anims EXCEPT ![a] = v]
           g == [z EXCEPT !.anims = w]
<1>4. t = g
  <2>1. [m EXCEPT !.anims[a].state = "pending"] = z
    BY Zenon
  <2>2. [z EXCEPT !.anims[a].elem = yes] = g
    BY Zenon
  <2>3. [c EXCEPT !.timers = tm, !.anims[a].state = "pending", !.anims[a].elem = yes]
        = [[[c EXCEPT !.timers = tm] EXCEPT !.anims[a].state = "pending"] EXCEPT !.anims[a].elem = yes]
    BY Zenon
  <2>4. t = [c EXCEPT !.timers = tm, !.anims[a].state = "pending", !.anims[a].elem = yes]
    BY <1>1, <1>3, Zenon
  <2> QED BY <2>1, <2>2, <2>3, <2>4, Zenon
<1>5. c \in FxVars /\ c.timers \in Seq(Anim) /\ c.anims \in [Anim -> AnimVars] /\ yes \in BOOLEAN
      /\ tm \in Seq(Anim)
  BY <1>1, <1>2, FxIs DEF Rearranged
<1> HIDE DEF tm
<1>6. /\ m \in FxVars /\ m.timers = tm /\ m.timerId = c.timerId /\ m.anims = c.anims
      /\ m.queue = c.queue /\ m.hooks = c.hooks /\ m.finish = c.finish /\ m.stack = c.stack
  BY <1>5 DEF FxVars
<1> HIDE DEF m
<1>7. /\ y \in AnimVars /\ y.of = c.anims[a].of /\ y.queued = c.anims[a].queued /\ y.zero = c.anims[a].zero
      /\ y.state = "pending" /\ y.attached = c.anims[a].attached /\ y.stopped = c.anims[a].stopped
  BY <1>5, <1>6 DEF AnimVars, States
<1> HIDE DEF y
<1>8. x \in [Anim -> AnimVars] /\ x[a] = y /\ \A b \in Anim : b # a => x[b] = c.anims[b]
  BY <1>5, <1>6, <1>7
<1> HIDE DEF x
<1>9. Animated(m, z) /\ z.anims = x
  BY <1>6, <1>8, AnimsIs
<1>10. z \in FxVars
  BY <1>9 DEF Animated
<1> HIDE DEF z
<1>11. /\ v \in AnimVars /\ v.of = y.of /\ v.queued = y.queued /\ v.zero = y.zero
       /\ v.state = y.state /\ v.attached = y.attached /\ v.stopped = y.stopped /\ v.elem = yes
  BY <1>5, <1>7, <1>8, <1>9 DEF AnimVars
<1> HIDE DEF v
<1>12. w \in [Anim -> AnimVars] /\ w[a] = v /\ \A b \in Anim : b # a => w[b] = c.anims[b]
  BY <1>8, <1>9, <1>11
<1> HIDE DEF w
<1>13. Animated(z, g) /\ g.anims = w
  BY <1>10, <1>12, AnimsIs
<1> HIDE DEF g
<1>14. g \in FxVars /\ g.timers = tm /\ g.timerId = s.timerId /\ g.queue = s.queue
       /\ g.finish = s.finish /\ g.stack = s.stack /\ g.hooks = c.hooks
  BY <1>2, <1>6, <1>9, <1>13 DEF Animated, Rearranged
<1>15. tm = Append(s.timers, a) /\ c.anims = s.anims
  BY <1>2 DEF tm, Rearranged
<1>16. g.anims[a].state = "pending" /\ g.anims[a].elem /\ \A b \in Anim : b # a => g.anims[b] = s.anims[b]
  BY <1>1, <1>7, <1>11, <1>12, <1>13, <1>15
<1>17. \A b \in Anim :
         /\ g.anims[b].of = s.anims[b].of /\ g.anims[b].queued = s.anims[b].queued
         /\ g.anims[b].zero = s.anims[b].zero /\ g.anims[b].stopped = s.anims[b].stopped
         /\ g.anims[b].attached = s.anims[b].attached
  BY <1>7, <1>11, <1>12, <1>13, <1>15
<1>18. Begins(s, a, g)
  BY <1>2, <1>14, <1>15, <1>16, <1>17 DEF Begins
<1> QED BY <1>4, <1>18 DEF t

LEMMA BaseBegins ==
    ASSUME NEW s, NEW t, NEW a \in Anim, Base(s), Begins(s, a, t),
           s.anims[a].state = "queued",
           \A e \in Elem : \A j \in DOMAIN s.queue[e] : s.queue[e][j] # a,
           \A k \in DOMAIN s.stack : \A j \in DOMAIN s.stack[k].todo : j > 1 => s.stack[k].todo[j] # a
    PROVE  Base(t)
<1> DEFINE stk == s.stack an == s.anims am == t.anims
<1>1. /\ stk \in Seq(FrameVars) /\ s.timers \in Seq(Anim) /\ s.queue \in [Elem -> Entries]
      /\ an \in [Anim -> AnimVars] /\ s.hooks \in [Elem -> HookVars]
  BY FxIs DEF Base
<1>2. \A k \in DOMAIN stk : stk[k] \in FrameVars /\ stk[k].todo \in Entries
  BY <1>1, FrameIs
<1>3. /\ t \in FxVars /\ t.stack = stk /\ t.queue = s.queue /\ t.timers = Append(s.timers, a)
      /\ am[a].state = "pending" /\ \A b \in Anim : b # a => am[b] = an[b]
      /\ am[a].of = an[a].of /\ am[a].queued = an[a].queued /\ an[a].state = "queued"
  BY DEF Begins
<1>4. FramesOk(stk, an) /\ LeaveOk(stk, an) /\ AnimsOk(an) /\ TimersOk(s.timers, an) /\ CountOk(stk, an, s.hooks)
      /\ QueueOk(s.queue, an) /\ TodoOk(stk, s.queue, an)
  BY DEF Base
<1>5. \A e \in Elem : \A j \in DOMAIN s.queue[e] : s.queue[e][j] # a
  OBVIOUS
<1>6. \A k \in DOMAIN stk : \A j \in DOMAIN stk[k].todo : j > 1 => stk[k].todo[j] # a
  OBVIOUS
<1>7. \A d \in Elem : t.hooks[d].unqueued = s.hooks[d].unqueued + (IF ~an[a].queued /\ d = an[a].of THEN 1 ELSE 0)
  BY DEF Begins
<1> HIDE DEF stk, an, am
<1>8. FramesOk(stk, am)
  BY <1>3, <1>4 DEF FramesOk, Started
<1>9. TimersOk(t.timers, am)
  BY <1>1, <1>3, <1>4 DEF TimersOk, Started
<1>10. AnimsOk(am)
  BY <1>3, <1>4 DEF AnimsOk
<1>11. QueueOk(s.queue, am)
  <2>1. \A e \in Elem : s.queue[e] \in Seq(Anim \cup {InProgress})
    BY <1>1 DEF Entries
  <2>2. \A e \in Elem : \A j \in DOMAIN s.queue[e] : s.queue[e][j] \in Anim \cup {InProgress}
    BY <2>1
  <2> QED BY <2>2, <1>3, <1>4, <1>5 DEF QueueOk, AllWait, Waits
<1>12. TodoOk(stk, s.queue, am)
  <2>2. \A k \in DOMAIN stk : \A j \in DOMAIN stk[k].todo : stk[k].todo[j] \in Anim \cup {InProgress}
    BY <1>2 DEF Entries
  <2> QED BY <2>2, <1>3, <1>4, <1>6 DEF TodoOk, AllWait, Waits
<1>13. \A k \in DOMAIN stk : stk[k].at \in AnimFrames => stk[k].a # a
  BY <1>3, <1>4 DEF FramesOk, Started
<1>14. LeaveOk(stk, am)
  BY <1>3, <1>4, <1>13 DEF LeaveOk, FramesOk, AnimFrames
<1>15. CountOk(stk, am, t.hooks)
  <2> SUFFICES ASSUME NEW e \in Elem
               PROVE  t.hooks[e].unqueued >= Cardinality(Beside(stk, am, e))
    BY DEF CountOk
  <2>1. CASE ~an[a].queued /\ e = an[a].of
    <3>1. Beside(stk, am, e) \subseteq Beside(stk, an, e) \cup {a}
      BY <1>3 DEF Beside
    <3>2. IsFiniteSet(Beside(stk, an, e)) /\ a \notin Beside(stk, an, e)
      <4>1. ~Leaving(stk, a)
        BY <1>13 DEF Leaving, AnimFrames
      <4>2. a \notin Beside(stk, an, e)
        BY <1>3, <4>1 DEF Beside
      <4> QED BY <4>2, BesideFinite
    <3>3. /\ IsFiniteSet(Beside(stk, an, e) \cup {a})
          /\ Cardinality(Beside(stk, an, e) \cup {a}) = Cardinality(Beside(stk, an, e)) + 1
      BY <3>2, FS_AddElement
    <3>4. /\ Cardinality(Beside(stk, am, e)) \in Nat /\ Cardinality(Beside(stk, an, e)) \in Nat
          /\ Cardinality(Beside(stk, am, e)) <= Cardinality(Beside(stk, an, e) \cup {a})
      BY <3>1, <3>2, <3>3, FS_Subset, FS_CardinalityType
    <3>5. s.hooks[e].unqueued >= Cardinality(Beside(stk, an, e)) /\ s.hooks[e].unqueued \in Int
          /\ t.hooks[e].unqueued = s.hooks[e].unqueued + 1
      BY <1>1, <1>4, <1>7, <2>1 DEF CountOk, HookVars
    <3> QED BY <3>3, <3>4, <3>5
  <2>2. CASE ~(~an[a].queued /\ e = an[a].of)
    <3>1. Beside(stk, am, e) \subseteq Beside(stk, an, e)
      BY <1>1, <1>3, <2>2 DEF Beside, AnimVars
    <3>3. IsFiniteSet(Beside(stk, an, e))
      BY BesideFinite
    <3>4. /\ Cardinality(Beside(stk, am, e)) \in Nat /\ Cardinality(Beside(stk, an, e)) \in Nat
          /\ Cardinality(Beside(stk, am, e)) <= Cardinality(Beside(stk, an, e))
      BY <3>1, <3>3, FS_Subset, FS_CardinalityType
    <3>5. s.hooks[e].unqueued >= Cardinality(Beside(stk, an, e)) /\ s.hooks[e].unqueued \in Int
          /\ t.hooks[e].unqueued = s.hooks[e].unqueued
      BY <1>1, <1>4, <1>7, <2>2 DEF CountOk, HookVars
    <3> QED BY <3>4, <3>5
  <2> QED BY <2>1, <2>2
<1> QED BY <1>3, <1>8, <1>9, <1>10, <1>11, <1>12, <1>14, <1>15 DEF Base, stk, an, am

LEMMA DoAnimationIs ==
    ASSUME NEW s \in FxVars, NEW a \in Anim, s.anims[a].of \in Elem
    PROVE  /\ Begins(s, a, BegunOne(s, a))
           /\ DoAnimation(s, a) = Push(Push(BegunOne(s, a), Of("timer", a)), Of("step", a))
<1>1. DoAnimation(s, a) = Push(Push(BegunOne(s, a), Of("timer", a)), Of("step", a))
  BY DEF DoAnimation, BegunOne
<1> QED BY <1>1, BegunIs

\* The two calls of a first tick.
LEMMA TwoPushes ==
    ASSUME NEW s \in FxVars, NEW a \in Anim
    PROVE  LET u == Push(s, Of("timer", a)) t == Push(u, Of("step", a)) IN
           /\ Of("timer", a) \in FrameVars /\ Of("timer", a).at = "timer" /\ Of("timer", a).a = a
           /\ Of("timer", a).todo = <<>> /\ Of("timer", a).end = FALSE
           /\ Of("step", a) \in FrameVars /\ Of("step", a).at = "step" /\ Of("step", a).a = a
           /\ Of("step", a).todo = <<>>
           /\ Stacked(s, u) /\ Adds(s.stack, Of("timer", a), u.stack)
           /\ Stacked(u, t) /\ Adds(u.stack, Of("step", a), t.stack)
<1>1. "timer" \in AnimFrames /\ "step" \in AnimFrames
  BY DEF AnimFrames
<1>2. /\ Of("timer", a) \in FrameVars /\ Of("timer", a).at = "timer" /\ Of("timer", a).a = a
      /\ Of("timer", a).todo = <<>> /\ Of("timer", a).end = FALSE
  BY <1>1, OfAnim
<1>3. /\ Of("step", a) \in FrameVars /\ Of("step", a).at = "step" /\ Of("step", a).a = a
      /\ Of("step", a).todo = <<>>
  BY <1>1, OfAnim
<1> DEFINE f == Of("timer", a) g == Of("step", a) u == Push(s, f) t == Push(u, g)
<1> HIDE DEF f, g
<1>4. Stacked(s, u) /\ Adds(s.stack, f, u.stack)
  BY <1>2, PushIs DEF f
<1>5. u \in FxVars
  BY <1>4 DEF Stacked
<1> HIDE DEF u
<1>6. Stacked(u, t) /\ Adds(u.stack, g, t.stack)
  BY <1>3, <1>5, PushIs DEF g
<1> QED BY <1>2, <1>3, <1>4, <1>6 DEF f, g, u, t

LEMMA BaseDoAnimation ==
    ASSUME NEW s, NEW a \in Anim, Base(s),
           s.anims[a].state = "queued",
           \A e \in Elem : \A j \in DOMAIN s.queue[e] : s.queue[e][j] # a,
           \A k \in DOMAIN s.stack : \A j \in DOMAIN s.stack[k].todo : j > 1 => s.stack[k].todo[j] # a
    PROVE  Base(DoAnimation(s, a))
<1> DEFINE b == BegunOne(s, a) f == Of("timer", a) g == Of("step", a)
           u == Push(b, f) t == Push(u, g)
<1>1. s \in FxVars /\ s.anims[a].of \in Elem
  BY DEF Base, AnimsOk
<1>2. Begins(s, a, b) /\ DoAnimation(s, a) = t
  BY <1>1, DoAnimationIs
<1> HIDE DEF b
<1>3. Base(b)
  BY <1>2, BaseBegins
<1>4. /\ f \in FrameVars /\ f.at = "timer" /\ f.a = a /\ f.todo = <<>>
      /\ g \in FrameVars /\ g.at = "step" /\ g.a = a /\ g.todo = <<>>
      /\ Stacked(b, u) /\ Adds(b.stack, f, u.stack)
      /\ Stacked(u, t) /\ Adds(u.stack, g, t.stack)
  <2>1. b \in FxVars
    BY <1>3 DEF Base
  <2> QED BY <2>1, TwoPushes
<1> HIDE DEF f, g, u, t
<1>5. Started(b.anims, a) /\ Started(u.anims, a)
  BY <1>2, <1>4 DEF Begins, Started, Stacked
<1>6. FrameFits(b.stack, b.anims, f)
  BY <1>4, <1>5 DEF FrameFits
<1>7. Base(u)
  BY <1>3, <1>4, <1>6, BaseAdds
<1>8. b.stack \in Seq(FrameVars) /\ u.stack \in Seq(FrameVars) /\ u.stack # <<>> /\ u.stack[Len(u.stack)] = f
  <2>1. b.stack \in Seq(FrameVars) /\ u.stack \in Seq(FrameVars)
    BY <1>3, <1>7, FxIs DEF Base
  <2> QED BY <1>4, <2>1 DEF Adds
<1>9. FrameFits(u.stack, u.anims, g)
  BY <1>4, <1>5, <1>8 DEF FrameFits
<1>10. Base(t)
  BY <1>4, <1>7, <1>9, BaseAdds
<1> QED BY <1>2, <1>10

\* The next of a queue is taken out of it.
Rest(q) == IF q # <<>> /\ Head(q) = InProgress THEN Tail(q) ELSE q

LEMMA RestIs ==
    ASSUME NEW q \in Entries, Once(q, 0), HeadOnly(q)
    PROVE  /\ Rest(q) \in Seq(Anim) /\ Once(Rest(q), 0)
           /\ \A i \in DOMAIN Rest(q) : \E j \in DOMAIN q : Rest(q)[i] = q[j]
<1> DEFINE r == Rest(q)
<1>1. q \in Seq(Anim \cup {InProgress}) /\ Len(q) \in Nat
  BY DEF Entries
<1>2. CASE ~(q # <<>> /\ Head(q) = InProgress)
  <2>1. r = q
    BY <1>2 DEF Rest
  <2>2. \A i \in 1 .. Len(q) : q[i] \in Anim
    BY <1>1, <1>2 DEF HeadOnly
  <2>3. q \in Seq(Anim)
    BY <1>1, <2>2
  <2> QED BY <2>1, <2>3
<1>3. CASE q # <<>> /\ Head(q) = InProgress
  <2> DEFINE t == Tail(q)
  <2>1. /\ t \in Seq(Anim \cup {InProgress}) /\ Len(t) = Len(q) - 1
        /\ \A i \in 1 .. Len(t) : t[i] = q[i + 1]
    BY <1>1, <1>3, HeadTailProperties
  <2>2. r = t
    BY <1>3 DEF Rest
  <2> HIDE DEF t, r
  <2>4. \A i \in DOMAIN t : i \in Nat /\ i + 1 \in DOMAIN q /\ t[i] = q[i + 1] /\ i + 1 > 1
    BY <1>1, <2>1
  <2>5. Once(t, 0)
    <3> SUFFICES ASSUME NEW j \in DOMAIN t, NEW k \in DOMAIN t, t[j] = t[k], t[j] # InProgress
                 PROVE  j = k
      BY DEF Once
    <3>1. j + 1 \in DOMAIN q /\ k + 1 \in DOMAIN q /\ q[j + 1] = q[k + 1] /\ q[j + 1] # InProgress
      BY <2>4
    <3>2. j \in Nat /\ k \in Nat
      BY <2>4
    <3>3. j + 1 = k + 1
      BY <3>1, <3>2 DEF Once
    <3> QED BY <3>2, <3>3
  <2>6. \A i \in 1 .. Len(t) : t[i] \in Anim
    <3> TAKE i \in 1 .. Len(t)
    <3>1. i \in DOMAIN t /\ t[i] \in Anim \cup {InProgress}
      BY <2>1
    <3>2. t[i] # InProgress
      BY <2>4, <3>1 DEF HeadOnly
    <3> QED BY <3>1, <3>2
  <2>7. t \in Seq(Anim)
    BY <2>1, <2>6
  <2>8. \A i \in DOMAIN t : \E j \in DOMAIN q : t[i] = q[j]
    BY <2>4
  <2> QED BY <2>2, <2>5, <2>7, <2>8 DEF r
<1> QED BY <1>2, <1>3

Taken(q) == <<InProgress>> \o Tail(q)

LEMMA TakenIs ==
    ASSUME NEW q \in Seq(Anim), q # <<>>, Once(q, 0)
    PROVE  /\ Taken(q) \in Entries /\ Once(Taken(q), 0) /\ HeadOnly(Taken(q))
           /\ Head(q) = q[1] /\ 1 \in DOMAIN q /\ Head(q) \in Anim
           /\ \A i \in DOMAIN Taken(q) : Taken(q)[i] # InProgress =>
                Taken(q)[i] # Head(q) /\ \E j \in DOMAIN q : Taken(q)[i] = q[j]
<1> DEFINE z == <<InProgress>> r == Tail(q)
<1>1. Len(q) \in Nat \ {0} /\ 0 \notin Anim /\ InProgress = 0
  BY EmptySeq DEF Anim, InProgress
<1>2. /\ r \in Seq(Anim) /\ Len(r) = Len(q) - 1
      /\ \A i \in 1 .. Len(r) : r[i] = q[i + 1]
  BY <1>1, HeadTailProperties
<1>3. z \in Seq(Anim \cup {InProgress}) /\ Len(z) = 1 /\ z[1] = InProgress
  OBVIOUS
<1> HIDE DEF z, r
<1>4. r \in Seq(Anim \cup {InProgress})
  BY <1>2, SeqMonotonic
<1>5. /\ z \o r \in Seq(Anim \cup {InProgress}) /\ Len(z \o r) = Len(z) + Len(r)
      /\ \A i \in 1 .. Len(z) + Len(r) : (z \o r)[i] = IF i <= Len(z) THEN z[i] ELSE r[i - Len(z)]
  BY <1>3, <1>4, ConcatProperties
<1> DEFINE t == z \o r
<1> HIDE DEF t
<1>6. t \in Seq(Anim \cup {InProgress}) /\ Len(t) = Len(q) /\ DOMAIN q = 1 .. Len(q)
  BY <1>1, <1>2, <1>3, <1>5 DEF t
<1>7. DOMAIN t = 1 .. Len(q)
  BY <1>6
<1>8. t[1] = InProgress /\ \A i \in 2 .. Len(q) : t[i] = q[i]
  BY <1>1, <1>2, <1>3, <1>5 DEF t
<1>9. Head(q) = q[1] /\ q[1] \in Anim /\ 1 \in DOMAIN q
  BY <1>1, <1>6
<1>10. \A i \in DOMAIN t : i > 0 /\ (t[i] # InProgress => i \in DOMAIN q /\ i # 1 /\ t[i] = q[i])
  BY <1>1, <1>6, <1>7, <1>8
<1>11. HeadOnly(t)
  <2> SUFFICES ASSUME NEW j \in DOMAIN t, j > 1 PROVE t[j] # InProgress
    BY DEF HeadOnly
  <2>1. j \in 2 .. Len(q)
    BY <1>7
  <2>2. q[j] \in Anim
    BY <2>1, <1>6
  <2> QED BY <1>1, <1>8, <2>1, <2>2
<1>12. Once(t, 0)
  <2> SUFFICES ASSUME NEW j \in DOMAIN t, NEW k \in DOMAIN t, t[j] = t[k], t[j] # InProgress
               PROVE  j = k
    BY DEF Once
  <2>1. j \in DOMAIN q /\ k \in DOMAIN q /\ q[j] = q[k] /\ q[j] # InProgress /\ j > 0 /\ k > 0
    BY <1>10
  <2> QED BY <2>1 DEF Once
<1>13. \A i \in DOMAIN t : t[i] # InProgress => t[i] # q[1]
  <2> SUFFICES ASSUME NEW i \in DOMAIN t, t[i] # InProgress, t[i] = q[1] PROVE FALSE
    OBVIOUS
  <2>1. i \in DOMAIN q /\ i # 1 /\ q[i] = q[1] /\ q[i] # InProgress /\ i > 0
    BY <1>10
  <2> QED BY <1>9, <2>1 DEF Once
<1>14. Taken(q) = t
  BY DEF t, z, r, Taken
<1>15. t \in Entries
  BY <1>6 DEF Entries
<1> QED BY <1>9, <1>10, <1>11, <1>12, <1>13, <1>14, <1>15

Fresh(s, a) ==
    /\ a \in Anim /\ s.anims[a].state = "queued"
    /\ \A e \in Elem : \A j \in DOMAIN s.queue[e] : s.queue[e][j] # a
    /\ \A k \in DOMAIN s.stack : \A j \in DOMAIN s.stack[k].todo : j > 1 => s.stack[k].todo[j] # a

LEMMA DequeueIs ==
    ASSUME NEW s, NEW e \in Elem, Base(s)
    PROVE  \E u : /\ Base(u) /\ Rearranged(s, u) /\ OnlyAt(s, e, u)
                  /\ \A d \in Elem : /\ u.hooks[d].unqueued = s.hooks[d].unqueued
                                     /\ u.hooks[d].waiting = s.hooks[d].waiting
                  /\ \/ u.queue[e] = <<>> /\ Dequeue(s, e) = EmptyFire(u, e)
                     \/ \E a : /\ Fresh(u, a) /\ Dequeue(s, e) = DoAnimation(u, a)
                               /\ s.anims[a].of = e /\ s.anims[a].queued /\ s.queue[e] # <<>>
                               /\ u.queue[e] # <<>> /\ Head(u.queue[e]) = InProgress
<1> DEFINE q == s.queue[e] r == Rest(q) h == QueueHooks(s, e)
<1>1. s \in FxVars /\ q \in Entries /\ Once(q, 0) /\ HeadOnly(q) /\ AllWait(q, 0, s.anims, e)
  BY FxIs DEF Base, QueueOk
<1>2. Hooked(s, h) /\ OnlyAt(s, e, h)
  BY <1>1, QueueHooksIs
<1>3. Base(h)
  BY <1>2, BaseHooked
<1>4. /\ r \in Seq(Anim) /\ Once(r, 0)
      /\ \A i \in DOMAIN r : \E j \in DOMAIN q : r[i] = q[j]
  BY <1>1, RestIs
<1>5. Dequeue(s, e) = IF r = <<>> THEN EmptyFire(QueueSet(h, e, <<>>), e)
                      ELSE DoAnimation(QueueSet(h, e, Taken(r)), Head(r))
  BY DEF Dequeue, Rest, QueueSet, Taken
<1>6. h \in FxVars /\ h.queue = s.queue /\ h.anims = s.anims /\ h.stack = s.stack
  BY <1>2 DEF Hooked, Rearranged
<1> HIDE DEF h
<1>7. CountOk(h.stack, h.anims, h.hooks)
  BY <1>3 DEF Base
<1>8. CASE r = <<>>
  <2> DEFINE u == QueueSet(h, e, <<>>)
  <2>1. <<>> \in Entries /\ Thinner(q, <<>>)
    BY EmptySeq DEF Entries, Thinner, Once, HeadOnly
  <2>2. Requeued(h, e, <<>>, u)
    BY <1>6, <2>1, QueueSetIs
  <2> HIDE DEF u
  <2>3. \A d \in Elem : u.queue[d] = h.queue[d] \/ Thinner(h.queue[d], u.queue[d])
    BY <1>6, <2>1, <2>2 DEF Requeued
  <2>4. Base(u)
    BY <1>3, <1>7, <2>2, <2>3, BaseRearranged DEF Requeued
  <2>5. /\ Rearranged(s, u) /\ OnlyAt(s, e, u) /\ u.queue[e] = <<>>
        /\ \A d \in Elem : /\ u.hooks[d].unqueued = s.hooks[d].unqueued
                           /\ u.hooks[d].waiting = s.hooks[d].waiting
    BY <1>2, <2>2 DEF Hooked, Requeued, Rearranged, OnlyAt
  <2>6. Dequeue(s, e) = EmptyFire(u, e)
    BY <1>5, <1>8 DEF u
  <2> QED BY <2>4, <2>5, <2>6
<1>9. CASE r # <<>>
  <2> DEFINE p == Taken(r) u == QueueSet(h, e, p) a == Head(r)
  <2>1. /\ p \in Entries /\ Once(p, 0) /\ HeadOnly(p) /\ a = r[1] /\ 1 \in DOMAIN r /\ a \in Anim
        /\ \A i \in DOMAIN p : p[i] # InProgress => p[i] # a /\ \E j \in DOMAIN r : p[i] = r[j]
    BY <1>4, <1>9, TakenIs
  <2> HIDE DEF p, a, r
  <2>2. PICK n \in DOMAIN q : a = q[n]
    BY <1>4, <2>1
  <2>3. n > 0 /\ a # InProgress
    BY <1>1, <2>1, <2>2 DEF Entries, Anim, InProgress
  <2>4. s.anims[a].state = "queued" /\ s.anims[a].of = e /\ s.anims[a].queued
    BY <1>1, <2>2, <2>3 DEF AllWait, Waits
  <2>5. Thinner(q, p)
    BY <1>4, <2>1 DEF Thinner
  <2>6. Requeued(h, e, p, u)
    BY <1>6, <2>1, QueueSetIs
  <2> HIDE DEF u
  <2>7. /\ u.queue[e] = p /\ \A d \in Elem : d # e => u.queue[d] = s.queue[d]
        /\ u.anims = s.anims /\ u.stack = s.stack
    BY <1>6, <2>6 DEF Requeued, Rearranged
  <2>8. \A d \in Elem : u.queue[d] = h.queue[d] \/ Thinner(h.queue[d], u.queue[d])
    BY <1>6, <2>5, <2>7
  <2>9. Base(u)
    BY <1>3, <1>7, <2>6, <2>8, BaseRearranged DEF Requeued
  <2>10. \A d \in Elem : \A j \in DOMAIN u.queue[d] : u.queue[d][j] # a
    <3> SUFFICES ASSUME NEW d \in Elem, NEW j \in DOMAIN u.queue[d], u.queue[d][j] = a PROVE FALSE
      OBVIOUS
    <3>1. CASE d = e
      BY <2>1, <2>3, <2>7, <3>1
    <3>2. CASE d # e
      <4>1. s.queue[d] \in Entries /\ j \in DOMAIN s.queue[d] /\ s.queue[d][j] = a
        BY <1>1, <2>7, <3>2, FxIs
      <4>2. j > 0
        BY <4>1 DEF Entries
      <4>3. AllWait(s.queue[d], 0, s.anims, d)
        BY DEF Base, QueueOk
      <4>4. s.anims[a].of = d
        BY <2>3, <4>1, <4>2, <4>3 DEF AllWait, Waits
      <4> QED BY <2>4, <3>2, <4>4
    <3> QED BY <3>1, <3>2
  <2>11. \A k \in DOMAIN u.stack : \A j \in DOMAIN u.stack[k].todo : j > 1 => u.stack[k].todo[j] # a
    <3> SUFFICES ASSUME NEW k \in DOMAIN s.stack, NEW j \in DOMAIN s.stack[k].todo, j > 1,
                        s.stack[k].todo[j] = a
                 PROVE  FALSE
      BY <2>7
    <3>1. FramesOk(s.stack, s.anims) /\ TodoOk(s.stack, s.queue, s.anims)
      BY DEF Base
    <3>2. s.stack[k].at \in ElemFrames
      BY <3>1, EmptySeq DEF FramesOk
    <3>3. s.anims[a].of = s.stack[k].a
      BY <2>3, <3>1 DEF TodoOk, AllWait, Waits
    <3>4. Apart(s.stack[k].todo, 1, q, 0)
      BY <2>4, <3>1, <3>2, <3>3 DEF TodoOk
    <3> QED BY <2>2, <2>3, <3>4 DEF Apart
  <2>12. Fresh(u, a)
    BY <2>1, <2>4, <2>7, <2>10, <2>11 DEF Fresh
  <2>13. Dequeue(s, e) = DoAnimation(u, a)
    BY <1>5, <1>9 DEF u, a, p
  <2>14. /\ Rearranged(s, u) /\ OnlyAt(s, e, u)
         /\ \A d \in Elem : /\ u.hooks[d].unqueued = s.hooks[d].unqueued
                            /\ u.hooks[d].waiting = s.hooks[d].waiting
    BY <1>2, <2>6 DEF Hooked, Requeued, Rearranged, OnlyAt
  <2>15. q # <<>>
    BY <2>2
  <2>16. p # <<>> /\ Head(p) = InProgress
    <3>1. Tail(r) \in Seq(Anim)
      BY <1>4, <1>9, HeadTailProperties
    <3> QED BY <3>1 DEF p, Taken
  <2> QED BY <2>4, <2>7, <2>9, <2>12, <2>13, <2>14, <2>15, <2>16
<1> QED BY <1>8, <1>9

LEMMA DequeueTakes ==
    ASSUME NEW s, NEW e \in Elem, Base(s)
    PROVE  \E u : /\ Base(u) /\ Rearranged(s, u)
                  /\ \/ Dequeue(s, e) = EmptyFire(u, e)
                     \/ \E a : Fresh(u, a) /\ Dequeue(s, e) = DoAnimation(u, a)
<1>1. PICK u : /\ Base(u) /\ Rearranged(s, u)
               /\ \/ u.queue[e] = <<>> /\ Dequeue(s, e) = EmptyFire(u, e)
                  \/ \E a : Fresh(u, a) /\ Dequeue(s, e) = DoAnimation(u, a) /\ s.queue[e] # <<>>
  BY DequeueIs
<1> QED BY <1>1

LEMMA BaseDequeues == ASSUME NEW s, NEW e \in Elem, Base(s) PROVE Base(Dequeue(s, e))
<1>1. PICK u : /\ Base(u)
               /\ \/ Dequeue(s, e) = EmptyFire(u, e)
                  \/ \E a : Fresh(u, a) /\ Dequeue(s, e) = DoAnimation(u, a)
  BY DequeueTakes
<1>2. CASE Dequeue(s, e) = EmptyFire(u, e)
  BY <1>1, <1>2, BaseEmptyFire
<1>3. ASSUME NEW a, Fresh(u, a), Dequeue(s, e) = DoAnimation(u, a) PROVE Base(Dequeue(s, e))
  BY <1>1, <1>3, BaseDoAnimation DEF Fresh
<1> QED BY <1>1, <1>2, <1>3

LEMMA BaseQueues ==
    ASSUME NEW s, NEW e \in Elem, NEW q \in Entries, Base(QueueSet(s, e, q))
    PROVE  Base(Queue(s, e, q))
<1> DEFINE h == QueueHooks(QueueSet(s, e, q), e)
<1>1. QueueSet(s, e, q) \in FxVars
  BY DEF Base
<1>2. Base(h)
  BY <1>1, QueueHooksIs, BaseHooked
<1>3. Base(Dequeue(h, e))
  BY <1>2, BaseDequeues
<1>4. Queue(s, e, q) = IF q # <<>> /\ Head(q) = InProgress THEN h ELSE Dequeue(h, e)
  BY DEF Queue, QueueSet
<1> QED BY <1>2, <1>3, <1>4
-----------------------------------------------------------------------------
\* The innermost call goes on, from g to f.
LaterIn(p, q) ==
    /\ Once(q, 1)
    /\ \A i \in DOMAIN q : i > 1 /\ q[i] # InProgress => \E j \in DOMAIN p : j > 1 /\ p[j] = q[i]

FrameGoesOn(an, g, f) ==
    /\ f \in FrameVars
    /\ f.at \in AnimFrames => f.a \in Anim /\ Started(an, f.a)
    /\ f.at \in ElemFrames => g.at \in ElemFrames /\ f.a = g.a /\ (f.todo = g.todo \/ LaterIn(g.todo, f.todo))
    /\ f.at \notin ElemFrames => f.todo = <<>>
    /\ f.at \in {"splice", "fxtick", "fxticked"} => f.i >= 1
    /\ f.at # "unqueue"
    /\ f.at \in {"step", "ended"} => g.at \in {"step", "ended"} /\ f.a = g.a
    /\ f.at \in {"fxtick", "fxticked"} => g.at \in {"fxtick", "fxticked"}

LEMMA BasePuts ==
    ASSUME NEW s, NEW t, NEW f, Base(s), Stacked(s, t), Puts(s.stack, f, t.stack),
           FrameGoesOn(s.anims, s.stack[Len(s.stack)], f)
    PROVE  Base(t)
<1> DEFINE stk == s.stack st == t.stack an == s.anims n == Len(stk) g == stk[n]
<1>1. stk \in Seq(FrameVars) /\ st \in Seq(FrameVars) /\ Len(st) = n /\ n \in Nat \ {0}
      /\ DOMAIN stk = 1 .. n /\ DOMAIN st = 1 .. n
  BY FxIs, EmptySeq DEF Base, Stacked, Puts
<1>2. st[n] = f /\ \A k \in 1 .. n : k = n \/ st[k] = stk[k]
  BY <1>1 DEF Puts
<1>3. FrameGoesOn(an, g, f)
  OBVIOUS
<1>4. /\ t \in FxVars /\ t.anims = an /\ t.queue = s.queue /\ t.timers = s.timers /\ t.hooks = s.hooks
      /\ s.hooks \in [Elem -> HookVars] /\ s.queue \in [Elem -> Entries]
  BY FxIs DEF Stacked, Base
<1>5. FramesOk(stk, an) /\ TodoOk(stk, s.queue, an) /\ LeaveOk(stk, an) /\ CountOk(stk, an, s.hooks)
      /\ CallerOk(stk) /\ BottomOk(stk)
  BY DEF Base
<1>6. \A k \in 1 .. n : stk[k].todo \in Entries /\ st[k].todo \in Entries
  BY <1>1, FrameIs
<1> HIDE DEF stk, st, an, n
<1>7. n \in 1 .. n /\ g = stk[n]
  BY <1>1
<1> HIDE DEF g
<1>8. FramesOk(st, an)
  BY <1>1, <1>2, <1>3, <1>5, <1>7 DEF FramesOk, FrameGoesOn
<1>9. TodoOk(st, s.queue, an)
  <2>1. \A k \in 1 .. n : /\ Once(stk[k].todo, 1)
                          /\ AllWait(stk[k].todo, 1, an, stk[k].a)
                          /\ stk[k].at \in ElemFrames => Apart(stk[k].todo, 1, s.queue[stk[k].a], 0)
                          /\ \A l \in 1 .. n : l # k => Apart(stk[k].todo, 1, stk[l].todo, 1)
    BY <1>1, <1>5 DEF TodoOk
  <2>2. \/ f.todo = <<>>
        \/ f.at \in ElemFrames /\ f.a = g.a /\ g.at \in ElemFrames /\ f.todo = g.todo
        \/ f.at \in ElemFrames /\ f.a = g.a /\ g.at \in ElemFrames /\ LaterIn(g.todo, f.todo)
    BY <1>3 DEF FrameGoesOn
  <2>3. f.at \in ElemFrames => f.a = g.a /\ g.at \in ElemFrames
    BY <1>3 DEF FrameGoesOn
  <2>4. /\ Once(f.todo, 1) /\ AllWait(f.todo, 1, an, f.a)
        /\ f.at \in ElemFrames => Apart(f.todo, 1, s.queue[f.a], 0)
        /\ \A l \in 1 .. n : l # n => Apart(f.todo, 1, stk[l].todo, 1) /\ Apart(stk[l].todo, 1, f.todo, 1)
    <3>1. CASE f.todo = <<>>
      BY <3>1, EmptySeq DEF Once, AllWait, Apart
    <3>2. CASE f.at \in ElemFrames /\ f.a = g.a /\ g.at \in ElemFrames /\ f.todo = g.todo
      BY <1>7, <2>1, <3>2
    <3>3. CASE f.at \in ElemFrames /\ f.a = g.a /\ g.at \in ElemFrames /\ LaterIn(g.todo, f.todo)
      <4>1. /\ Once(g.todo, 1) /\ AllWait(g.todo, 1, an, g.a) /\ Apart(g.todo, 1, s.queue[g.a], 0)
            /\ \A l \in 1 .. n : l # n => Apart(g.todo, 1, stk[l].todo, 1) /\ Apart(stk[l].todo, 1, g.todo, 1)
        BY <1>7, <2>1, <3>3
      <4>2. AllWait(f.todo, 1, an, f.a)
        BY <3>3, <4>1 DEF AllWait, LaterIn, Waits
      <4>3. Apart(f.todo, 1, s.queue[f.a], 0)
        BY <3>3, <4>1 DEF Apart, LaterIn
      <4>4. \A l \in 1 .. n : l # n => Apart(f.todo, 1, stk[l].todo, 1) /\ Apart(stk[l].todo, 1, f.todo, 1)
        BY <3>3, <4>1 DEF Apart, LaterIn
      <4> QED BY <3>3, <4>2, <4>3, <4>4 DEF LaterIn
    <3> QED BY <2>2, <3>1, <3>2, <3>3
  <2> SUFFICES ASSUME NEW k \in 1 .. n
               PROVE  /\ Once(st[k].todo, 1)
                      /\ AllWait(st[k].todo, 1, an, st[k].a)
                      /\ st[k].at \in ElemFrames => Apart(st[k].todo, 1, s.queue[st[k].a], 0)
                      /\ \A l \in 1 .. n : l # k => Apart(st[k].todo, 1, st[l].todo, 1)
    BY <1>1 DEF TodoOk
  <2>5. CASE k = n
    BY <1>2, <1>7, <2>4, <2>5
  <2>6. CASE k # n
    <3>1. st[k] = stk[k]
      BY <1>2, <2>6
    <3>2. \A l \in 1 .. n : l # k => Apart(stk[k].todo, 1, st[l].todo, 1)
      BY <1>2, <2>1, <2>4, <2>6
    <3> QED BY <2>1, <3>1, <3>2
  <2> QED BY <2>5, <2>6
<1>10. f.at # "unqueue"
  BY <1>3 DEF FrameGoesOn
<1>11. LeaveOk(st, an)
  BY <1>1, <1>2, <1>5, <1>10 DEF LeaveOk
<1>12. CountOk(st, an, s.hooks)
  <2>1. \A a \in Anim : Leaving(st, a) => Leaving(stk, a)
    BY <1>1, <1>2, <1>10 DEF Leaving
  <2> QED BY <1>4, <1>5, <2>1, BesideSame
<1>13. CallerOk(st)
  <2> SUFFICES ASSUME NEW k \in 1 .. n, st[k].at \in {"step", "ended"}
               PROVE  k > 1 /\ st[k - 1].at \in {"timer", "fxticked"} /\ st[k - 1].a = st[k].a
    BY <1>1 DEF CallerOk
  <2>1. stk[k].at \in {"step", "ended"} /\ st[k].a = stk[k].a
    BY <1>2, <1>3, <1>7 DEF FrameGoesOn
  <2>2. k > 1 /\ stk[k - 1].at \in {"timer", "fxticked"} /\ stk[k - 1].a = stk[k].a
    BY <1>1, <1>5, <2>1 DEF CallerOk
  <2>3. k - 1 \in 1 .. n /\ k - 1 # n
    BY <1>1, <2>2
  <2> QED BY <1>2, <2>1, <2>2, <2>3
<1>14. BottomOk(st)
  BY <1>1, <1>2, <1>3, <1>5, <1>7 DEF BottomOk, FrameGoesOn
<1> QED BY <1>4, <1>8, <1>9, <1>11, <1>12, <1>13, <1>14 DEF Base, st, an
-----------------------------------------------------------------------------
\* The steps.
LEMMA BaseGoes == ASSUME NEW s, Base(s), Goes(s) PROVE Base(fx')
BY SweepIs, BaseSweeps DEF Goes, Base

LEMMA TopIs ==
    ASSUME NEW s, Base(s), s.stack # <<>>
    PROVE  LET f == s.stack[Len(s.stack)] IN
           /\ Len(s.stack) \in DOMAIN s.stack /\ Len(s.stack) \in Nat \ {0}
           /\ s.stack \in Seq(FrameVars) /\ DOMAIN s.stack = 1 .. Len(s.stack)
           /\ f \in FrameVars
           /\ f.at \in AnimFrames => f.a \in Anim /\ Started(s.anims, f.a) /\ s.anims[f.a].of \in Elem
           /\ f.at \in ElemFrames => f.a \in Elem
           /\ f.at \notin ElemFrames => f.todo = <<>>
           /\ f.at \in {"splice", "fxtick", "fxticked"} => f.i >= 1
           /\ f.at \in {"fxtick", "fxticked"} => Len(s.stack) = 1
           /\ f.at \in {"step", "ended"} =>
                LET g == s.stack[Len(s.stack) - 1] IN
                Len(s.stack) > 1 /\ g.at \in {"timer", "fxticked"} /\ g.a = f.a
<1> DEFINE n == Len(s.stack) f == s.stack[n]
<1>1. s.stack \in Seq(FrameVars)
  BY FxIs DEF Base
<1>2. n \in Nat \ {0} /\ DOMAIN s.stack = 1 .. n /\ n \in DOMAIN s.stack
  BY <1>1, EmptySeq
<1>3. f \in FrameVars
  BY <1>1, <1>2
<1>4. FramesOk(s.stack, s.anims) /\ CallerOk(s.stack) /\ BottomOk(s.stack) /\ AnimsOk(s.anims)
  BY DEF Base
<1>5. \A a \in Anim : Started(s.anims, a) => s.anims[a].of \in Elem
  BY <1>4 DEF Started, AnimsOk
<1>6. /\ f.at \in AnimFrames => f.a \in Anim /\ Started(s.anims, f.a)
      /\ f.at \in ElemFrames => f.a \in Elem
      /\ f.at \notin ElemFrames => f.todo = <<>>
      /\ f.at \in {"splice", "fxtick", "fxticked"} => f.i >= 1
  BY <1>2, <1>4 DEF FramesOk
<1>7. f.at \in {"fxtick", "fxticked"} => n = 1
  BY <1>2, <1>4 DEF BottomOk
<1>8. f.at \in {"step", "ended"} =>
        n > 1 /\ s.stack[n - 1].at \in {"timer", "fxticked"} /\ s.stack[n - 1].a = f.a
  BY <1>2, <1>4 DEF CallerOk
<1> QED BY <1>1, <1>2, <1>3, <1>5, <1>6, <1>7, <1>8

LEMMA BasePop == ASSUME NEW s, Base(s), s.stack # <<>> PROVE Base(Pop(s))
BY PopIs, BaseDrops DEF Base

LEMMA BaseReturn == ASSUME Base(fx), Return PROVE Base(fx')
BY BasePop, BaseGoes DEF Return, At

LEMMA BaseDequeueNext == ASSUME Base(fx), DequeueNext PROVE Base(fx')
<1>1. fx.stack # <<>> /\ Top.at = "complete" /\ Goes(Dequeue(Pop(fx), fx.anims[Top.a].of))
  BY DEF DequeueNext, At
<1>2. fx.anims[Top.a].of \in Elem
  BY <1>1, TopIs DEF Top, AnimFrames
<1>3. Base(Dequeue(Pop(fx), fx.anims[Top.a].of))
  BY <1>1, <1>2, BasePop, BaseDequeues
<1> QED BY <1>1, <1>3, BaseGoes

LEMMA BaseEnd == ASSUME Base(fx), End PROVE Base(fx')
<1>1. fx.stack # <<>> /\ Top.at = "end" /\ Goes(Settle(Pop(fx), Top.a, "resolved"))
  BY DEF End, At
<1>2. Top.a \in Anim
  BY <1>1, TopIs DEF Top, AnimFrames
<1>3. Base(Settle(Pop(fx), Top.a, "resolved"))
  BY <1>1, <1>2, BasePop, BaseSettles
<1> QED BY <1>1, <1>3, BaseGoes

LEMMA BaseMade == ASSUME Base(fx), Made PROVE Base(fx')
<1>1. /\ fx.stack # <<>> /\ Top.at = "made"
      /\ Goes(StopAnim(Pop(fx), Top.a, TRUE)) \/ Goes(Pop(fx))
  BY DEF Made, At
<1>2. Top.a \in Anim /\ Started(fx.anims, Top.a)
  BY <1>1, TopIs DEF Top, AnimFrames
<1>3. Base(Pop(fx)) /\ Started(Pop(fx).anims, Top.a)
  BY <1>1, <1>2, BasePop, PopIs DEF Stacked, Base
<1>4. Base(StopAnim(Pop(fx), Top.a, TRUE))
  BY <1>2, <1>3, BaseStopAnim
<1> QED BY <1>1, <1>3, <1>4, BaseGoes

LEMMA BaseGoTo ==
    ASSUME NEW s, NEW f, Base(s), s.stack # <<>>,
           FrameGoesOn(s.anims, s.stack[Len(s.stack)], f)
    PROVE  Base(GoTo(s, f)) /\ Stacked(s, GoTo(s, f)) /\ Puts(s.stack, f, GoTo(s, f).stack)
<1>1. s \in FxVars /\ f \in FrameVars
  BY DEF Base, FrameGoesOn
<1>2. Stacked(s, GoTo(s, f)) /\ Puts(s.stack, f, GoTo(s, f).stack)
  BY <1>1, GoToIs
<1> QED BY <1>2, BasePuts

\* One animation beside the queue less.
LessOne(s, e) == [s EXCEPT !.hooks[e].unqueued = @ - 1]

LEMMA LessIs ==
    ASSUME NEW s \in FxVars, NEW e \in Elem
    PROVE  LET t == LessOne(s, e) IN
           /\ Rearranged(s, t) /\ t.queue = s.queue /\ OnlyAt(s, e, t)
           /\ \A d \in Elem : /\ t.hooks[d].waiting = s.hooks[d].waiting
                              /\ t.hooks[d].unqueued = s.hooks[d].unqueued - (IF d = e THEN 1 ELSE 0)
<1> DEFINE n == s.hooks[e].unqueued - 1
           y == [s.hooks[e] EXCEPT !.unqueued = n]
           x == [s.hooks EXCEPT ![e] = y]
           t == LessOne(s, e)
<1>2. s.hooks \in [Elem -> HookVars] /\ \A d \in Elem : s.hooks[d].unqueued \in Int
  BY FxIs DEF HookVars
<1>3. t = [s EXCEPT !.hooks = x]
  BY Zenon DEF LessOne
<1>4. n \in Int
  BY <1>2
<1> HIDE DEF n
<1>5. y \in HookVars /\ y.unqueued = n /\ y.waiting = s.hooks[e].waiting
  BY <1>2, <1>4 DEF HookVars
<1> HIDE DEF y, t
<1>6. x \in [Elem -> HookVars] /\ x[e] = y /\ \A d \in Elem : d # e => x[d] = s.hooks[d]
  BY <1>2, <1>5
<1> HIDE DEF x
<1>7. Rearranged(s, t) /\ t.queue = s.queue /\ t.hooks = x
  BY <1>3, <1>6 DEF FxVars, Rearranged
<1>9. \A d \in Elem : /\ t.hooks[d].waiting = s.hooks[d].waiting
                      /\ t.hooks[d].unqueued = s.hooks[d].unqueued - (IF d = e THEN 1 ELSE 0)
  <2> TAKE d \in Elem
  <2>2. CASE d = e
    BY <1>2, <1>5, <1>6, <1>7, <2>2 DEF n
  <2>3. CASE d # e
    BY <1>2, <1>6, <1>7, <2>3
  <2> QED BY <2>2, <2>3
<1>10. OnlyAt(s, e, t)
  BY <1>6, <1>7 DEF OnlyAt
<1> QED BY <1>7, <1>9, <1>10 DEF t

LEMMA BaseLess == ASSUME Base(fx), At("unqueue") PROVE Base(LessOne(Pop(fx), fx.anims[Top.a].of))
<1> DEFINE a == Top.a e == fx.anims[a].of p == Pop(fx) l == LessOne(p, e)
<1>1. fx.stack # <<>> /\ Top.at = "unqueue"
  BY DEF At
<1>2. a \in Anim /\ e \in Elem /\ Started(fx.anims, a)
  BY <1>1, TopIs DEF Top, AnimFrames
<1>3. Base(p) /\ Stacked(fx, p) /\ Drops(fx.stack, p.stack)
  BY <1>1, BasePop, PopIs DEF Base
<1>4. p \in FxVars /\ p.anims = fx.anims /\ p.hooks = fx.hooks
  BY <1>3 DEF Stacked
<1>5. /\ Rearranged(p, l) /\ l.queue = p.queue
      /\ \A d \in Elem : l.hooks[d].unqueued = p.hooks[d].unqueued - (IF d = e THEN 1 ELSE 0)
  BY <1>2, <1>4, LessIs
<1> DEFINE stk == fx.stack st == p.stack an == fx.anims n == Len(stk)
<1>6. /\ n \in DOMAIN stk /\ stk[n].at = "unqueue" /\ stk[n].a = a
      /\ DOMAIN stk = 1 .. n /\ DOMAIN st = 1 .. n - 1 /\ n \in Nat \ {0}
      /\ \A k \in 1 .. n - 1 : st[k] = stk[k]
  <2>1. n \in DOMAIN stk /\ n \in Nat \ {0} /\ stk \in Seq(FrameVars) /\ DOMAIN stk = 1 .. n
    BY <1>1, TopIs
  <2>2. stk[n].at = "unqueue" /\ stk[n].a = a
    BY <1>1 DEF Top
  <2>3. st \in Seq(FrameVars) /\ Len(st) = n - 1 /\ \A k \in 1 .. Len(st) : st[k] = stk[k]
    BY <1>3 DEF Drops
  <2>4. DOMAIN st = 1 .. n - 1
    BY <2>1, <2>3
  <2> QED BY <2>1, <2>2, <2>3, <2>4
<1>7. LeaveOk(stk, an) /\ CountOk(stk, an, fx.hooks)
  BY DEF Base
<1> HIDE DEF stk, st, an, n, l, p, a
<1>8. a \notin Beside(st, an, e)
  <2>1. an[a].state # "pending"
    BY <1>6, <1>7 DEF LeaveOk
  <2>2. ~Leaving(st, a)
    <3> SUFFICES ASSUME NEW k \in DOMAIN st, st[k].at = "unqueue", st[k].a = a PROVE FALSE
      BY DEF Leaving
    <3>1. k \in DOMAIN stk /\ k # n /\ stk[k].at = "unqueue" /\ stk[k].a = a
      BY <1>6
    <3> QED BY <1>6, <1>7, <3>1 DEF LeaveOk
  <2> QED BY <2>1, <2>2 DEF Beside
<1>9. a \in Beside(stk, an, e)
  <2>1. ~an[a].queued
    BY <1>6, <1>7 DEF LeaveOk
  <2>2. Leaving(stk, a)
    BY <1>6 DEF Leaving
  <2> QED BY <1>2, <2>1, <2>2 DEF Beside, an
<1>10. \A b \in Anim : Leaving(st, b) => Leaving(stk, b)
  BY <1>6 DEF Leaving
<1>11. CountOk(st, an, l.hooks)
  <2> SUFFICES ASSUME NEW d \in Elem PROVE l.hooks[d].unqueued >= Cardinality(Beside(st, an, d))
    BY DEF CountOk
  <2>1. Beside(st, an, d) \subseteq Beside(stk, an, d)
    BY <1>10 DEF Beside
  <2>2. IsFiniteSet(Beside(stk, an, d))
    BY BesideFinite
  <2>3. fx.hooks[d].unqueued \in Int /\ fx.hooks[d].unqueued >= Cardinality(Beside(stk, an, d))
    <3>1. fx.hooks \in [Elem -> HookVars]
      BY FxIs DEF Base
    <3> QED BY <1>7, <3>1 DEF CountOk, HookVars
  <2>4. Cardinality(Beside(stk, an, d)) \in Nat /\ Cardinality(Beside(st, an, d)) \in Nat
        /\ Cardinality(Beside(st, an, d)) <= Cardinality(Beside(stk, an, d))
    BY <2>1, <2>2, FS_Subset, FS_CardinalityType
  <2>5. CASE d = e
    <3>1. Beside(st, an, d) \subseteq Beside(stk, an, d) \ {a} /\ a \in Beside(stk, an, d)
      BY <1>8, <1>9, <2>1, <2>5
    <3>2. IsFiniteSet(Beside(stk, an, d) \ {a})
          /\ Cardinality(Beside(stk, an, d) \ {a}) = Cardinality(Beside(stk, an, d)) - 1
      BY <2>2, <3>1, FS_RemoveElement
    <3>3. Cardinality(Beside(st, an, d)) <= Cardinality(Beside(stk, an, d) \ {a})
      BY <3>1, <3>2, FS_Subset
    <3> QED BY <1>4, <1>5, <2>3, <2>4, <2>5, <3>2, <3>3
  <2>6. CASE d # e
    BY <1>4, <1>5, <2>3, <2>4, <2>6
  <2> QED BY <2>5, <2>6
<1>12. CountOk(p.stack, p.anims, l.hooks)
  BY <1>4, <1>11 DEF st, an
<1>13. Base(l)
  BY <1>3, <1>5, <1>12, BaseRearranged
<1> QED BY <1>13 DEF l, p, a

LEMMA BaseUnqueue == ASSUME Base(fx), Unqueue PROVE Base(fx')
<1> DEFINE e == fx.anims[Top.a].of l == LessOne(Pop(fx), e)
<1>1. At("unqueue") /\ Goes(IF fx.queue[e] = <<>> THEN EmptyFire(l, e) ELSE l)
  BY DEF Unqueue, LessOne
<1>2. e \in Elem
  BY <1>1, TopIs DEF Top, AnimFrames, At
<1>3. Base(l)
  BY <1>1, BaseLess
<1> HIDE DEF l, e
<1>4. Base(EmptyFire(l, e))
  BY <1>2, <1>3, BaseEmptyFire
<1> QED BY <1>1, <1>3, <1>4, BaseGoes

\* The innermost call gets an answer.
LEMMA TopTold ==
    ASSUME NEW s, Base(s), s.stack # <<>>, NEW v \in BOOLEAN
    PROVE  LET n == Len(s.stack)
               f == [s.stack[n] EXCEPT !.end = v]
               t == [s EXCEPT !.stack[n].end = v]
           IN  /\ t = GoTo(s, f)
               /\ s.stack[n].at # "unqueue" => FrameGoesOn(s.anims, s.stack[n], f)
               /\ f \in FrameVars /\ f.at = s.stack[n].at /\ f.a = s.stack[n].a /\ f.i = s.stack[n].i
               /\ f.end = v /\ f.todo = s.stack[n].todo /\ f.dequeue = s.stack[n].dequeue
<1> DEFINE n == Len(s.stack) g == s.stack[n] f == [g EXCEPT !.end = v]
           t == [s EXCEPT !.stack[n].end = v]
<1>1. t = GoTo(s, f)
  BY Zenon DEF GoTo
<1>2. /\ g \in FrameVars
      /\ g.at \in AnimFrames => g.a \in Anim /\ Started(s.anims, g.a)
      /\ g.at \in ElemFrames => g.a \in Elem
      /\ g.at \notin ElemFrames => g.todo = <<>>
      /\ g.at \in {"splice", "fxtick", "fxticked"} => g.i >= 1
  BY TopIs
<1> HIDE DEF t, g
<1>3. /\ f \in FrameVars /\ f.at = g.at /\ f.a = g.a /\ f.i = g.i
      /\ f.end = v /\ f.todo = g.todo /\ f.dequeue = g.dequeue
  BY <1>2 DEF FrameVars
<1> HIDE DEF f
<1>4. g.at # "unqueue" => FrameGoesOn(s.anims, g, f)
  BY <1>2, <1>3 DEF FrameGoesOn
<1> QED BY <1>1, <1>3, <1>4 DEF f, g, t

\* A call that ends tells the one that has called it.
LEMMA BaseAnswers ==
    ASSUME NEW v \in BOOLEAN, Base(fx), At("step") \/ At("ended")
    PROVE  LET t == [Pop(fx) EXCEPT !.stack[Len(fx.stack) - 1].end = v]
               p == Pop(fx)
               f == [p.stack[Len(p.stack)] EXCEPT !.end = v]
           IN  /\ Base(t) /\ Base(p) /\ p.stack # <<>>
               /\ Stacked(p, t) /\ Puts(p.stack, f, t.stack)
               /\ f.at = p.stack[Len(p.stack)].at /\ f.a = p.stack[Len(p.stack)].a /\ f.end = v
               /\ f.todo = p.stack[Len(p.stack)].todo /\ f.i = p.stack[Len(p.stack)].i
               /\ f.at \in {"timer", "fxticked"} /\ f.a = Top.a
<1> DEFINE p == Pop(fx) n == Len(p.stack) f == [p.stack[n] EXCEPT !.end = v]
           t == [p EXCEPT !.stack[n].end = v]
<1>1. /\ fx.stack # <<>> /\ Top.at \in {"step", "ended"}
      /\ Len(fx.stack) > 1 /\ Len(fx.stack) \in Nat
      /\ fx.stack[Len(fx.stack) - 1].at \in {"timer", "fxticked"}
      /\ fx.stack[Len(fx.stack) - 1].a = Top.a
  <2>1. fx.stack # <<>> /\ Top.at \in {"step", "ended"}
    BY DEF At
  <2> QED BY <2>1, TopIs DEF Top
<1>2. Base(p) /\ Drops(fx.stack, p.stack)
  BY <1>1, BasePop, PopIs DEF Base
<1>3. /\ n = Len(fx.stack) - 1 /\ p.stack # <<>>
      /\ p.stack[n] = fx.stack[n]
  <2>1. p.stack \in Seq(FrameVars) /\ n = Len(fx.stack) - 1 /\ \A k \in 1 .. n : p.stack[k] = fx.stack[k]
    BY <1>2 DEF Drops
  <2> HIDE DEF p
  <2>2. n \in 1 .. n
    BY <1>1, <2>1
  <2> QED BY <2>1, <2>2
<1>4. Len(fx.stack) - 1 = n
  BY <1>3
<1> HIDE DEF p, n
<1>5. /\ t = GoTo(p, f)
      /\ p.stack[n].at # "unqueue" => FrameGoesOn(p.anims, p.stack[n], f)
      /\ f \in FrameVars /\ f.at = p.stack[n].at /\ f.a = p.stack[n].a /\ f.i = p.stack[n].i
      /\ f.end = v /\ f.todo = p.stack[n].todo
  BY SMTT(30), <1>2, <1>3, TopTold DEF n
<1>6. p.stack[n].at \in {"timer", "fxticked"} /\ p.stack[n].a = Top.a
  BY <1>1, <1>3
<1>7. t = GoTo(p, f) /\ FrameGoesOn(p.anims, p.stack[n], f)
  <2>1. p.stack[n].at # "unqueue"
    BY <1>6
  <2> QED BY <1>5, <2>1
<1> HIDE DEF f, t
<1>8. Base(t) /\ Stacked(p, t) /\ Puts(p.stack, f, t.stack)
  BY <1>2, <1>3, <1>7, BaseGoTo DEF n
<1> QED BY <1>2, <1>3, <1>4, <1>5, <1>6, <1>8 DEF p, n, f, t

\* The calls at the end of a step that was the last.
EndedFrame == [Top EXCEPT !.at = "ended"]

LEMMA EndedIs ==
    ASSUME Base(fx), At("step")
    PROVE  /\ fx.stack # <<>> /\ Top.a \in Anim /\ Started(fx.anims, Top.a)
           /\ EndedFrame \in FrameVars /\ EndedFrame.at = "ended" /\ EndedFrame.a = Top.a
           /\ EndedFrame.todo = <<>>
           /\ Base(GoTo(fx, EndedFrame)) /\ Stacked(fx, GoTo(fx, EndedFrame))
           /\ Puts(fx.stack, EndedFrame, GoTo(fx, EndedFrame).stack)
<1> DEFINE f == EndedFrame
<1>1. fx.stack # <<>> /\ Top.at = "step"
  BY DEF At
<1>2. Top \in FrameVars /\ Top.a \in Anim /\ Started(fx.anims, Top.a) /\ Top.todo = <<>>
  BY <1>1, TopIs DEF Top, AnimFrames, ElemFrames
<1>3. /\ f \in FrameVars /\ f.at = "ended" /\ f.a = Top.a /\ f.todo = <<>>
  BY <1>2 DEF FrameVars, Places, EndedFrame
<1> HIDE DEF f
<1>4. FrameGoesOn(fx.anims, Top, f)
  BY <1>1, <1>2, <1>3 DEF FrameGoesOn, AnimFrames, ElemFrames
<1>5. Base(GoTo(fx, f)) /\ Stacked(fx, GoTo(fx, f)) /\ Puts(fx.stack, f, GoTo(fx, f).stack)
  BY <1>1, <1>4, BaseGoTo DEF Top
<1> QED BY <1>1, <1>2, <1>3, <1>5 DEF f

LEMMA BaseStepDone == ASSUME NEW due, Base(fx), StepDone(due) PROVE Base(fx')
<1>1. /\ At("step")
      /\ \/ Goes(Settle(GoTo(fx, EndedFrame), Top.a, "resolved"))
         \/ Goes([Pop(fx) EXCEPT !.stack[Len(fx.stack) - 1].end = TRUE])
  BY DEF StepDone, EndedFrame
<1>2. Base(Settle(GoTo(fx, EndedFrame), Top.a, "resolved"))
  BY <1>1, EndedIs, BaseSettles
<1>3. Base([Pop(fx) EXCEPT !.stack[Len(fx.stack) - 1].end = TRUE])
  BY <1>1, BaseAnswers
<1> QED BY <1>1, <1>2, <1>3, BaseGoes

LEMMA BaseEnded == ASSUME Base(fx), Ended PROVE Base(fx')
<1>1. At("ended") /\ Goes([Pop(fx) EXCEPT !.stack[Len(fx.stack) - 1].end = FALSE])
  BY DEF Ended
<1>2. Base([Pop(fx) EXCEPT !.stack[Len(fx.stack) - 1].end = FALSE])
  BY <1>1, BaseAnswers
<1> QED BY <1>1, <1>2, BaseGoes

\* The timers and the interval.
Timed(s, t) ==
    /\ t \in FxVars
    /\ t.anims = s.anims /\ t.queue = s.queue /\ t.hooks = s.hooks /\ t.finish = s.finish
    /\ t.stack = s.stack

LEMMA TimersAre ==
    ASSUME NEW s \in FxVars, NEW tm \in Seq(Anim)
    PROVE  LET t == [s EXCEPT !.timers = tm] IN
           Timed(s, t) /\ t.timers = tm /\ t.timerId = s.timerId
BY DEF FxVars, Timed

LEMMA IntervalIs ==
    ASSUME NEW s \in FxVars, NEW id \in BOOLEAN
    PROVE  LET t == [s EXCEPT !.timerId = id] IN
           Timed(s, t) /\ t.timers = s.timers /\ t.timerId = id
BY DEF FxVars, Timed

LEMMA BaseTimed ==
    ASSUME NEW s, NEW t, Base(s), Timed(s, t),
           \A j \in DOMAIN t.timers : \E i \in DOMAIN s.timers : t.timers[j] = s.timers[i]
    PROVE  Base(t)
<1>1. TimersOk(t.timers, t.anims)
  BY DEF TimersOk, Base, Timed
<1> QED BY <1>1 DEF Base, Timed

LEMMA RemoveAtIs ==
    ASSUME NEW S, NEW q \in Seq(S), NEW n \in 1 .. Len(q)
    PROVE  /\ RemoveAt(q, n) \in Seq(S) /\ Len(RemoveAt(q, n)) = Len(q) - 1
           /\ \A k \in 1 .. Len(q) - 1 : RemoveAt(q, n)[k] = IF k < n THEN q[k] ELSE q[k + 1]
<1>1. Len(q) \in Nat /\ n \in Nat /\ n >= 1 /\ n <= Len(q) /\ \A k \in 1 .. Len(q) : q[k] \in S
  BY ElementOfSeq
<1> DEFINE m == n - 1 o == n + 1 l == Len(q) p == SubSeq(q, 1, m) r == SubSeq(q, o, l)
<1>2. m \in Int /\ o \in Int /\ l \in Int /\ \A k \in 1 .. m : q[k] \in S
  BY <1>1
<1>3. \A k \in o .. l : q[k] \in S
  BY <1>1
<1>4. RemoveAt(q, n) = p \o r
  BY DEF RemoveAt
<1> HIDE DEF m, o, l
<1>5. /\ p \in Seq(S) /\ Len(p) = (IF 1 <= m THEN m - 1 + 1 ELSE 0)
      /\ \A i \in 1 .. m - 1 + 1 : p[i] = q[1 + i - 1]
  BY <1>2, SubSeqProperties
<1>6. /\ r \in Seq(S) /\ Len(r) = (IF o <= l THEN l - o + 1 ELSE 0)
      /\ \A i \in 1 .. l - o + 1 : r[i] = q[o + i - 1]
  BY <1>2, <1>3, SubSeqProperties
<1> HIDE DEF p, r
<1>7. /\ p \o r \in Seq(S) /\ Len(p \o r) = Len(p) + Len(r)
      /\ \A i \in 1 .. Len(p) + Len(r) : (p \o r)[i] = IF i <= Len(p) THEN p[i] ELSE r[i - Len(p)]
  BY <1>5, <1>6, ConcatProperties
<1>8. Len(p) = n - 1 /\ Len(r) = Len(q) - n
  BY <1>1, <1>5, <1>6 DEF m, o, l
<1>9. \A k \in 1 .. Len(q) - 1 : (p \o r)[k] = IF k < n THEN q[k] ELSE q[k + 1]
  <2> TAKE k \in 1 .. Len(q) - 1
  <2>1. CASE k < n
    <3>1. k \in 1 .. m - 1 + 1 /\ k <= Len(p) /\ k \in 1 .. Len(p) + Len(r)
      BY <1>1, <1>8, <2>1 DEF m
    <3>2. (p \o r)[k] = p[k] /\ p[k] = q[1 + k - 1] /\ 1 + k - 1 = k
      BY <1>5, <1>7, <3>1
    <3> QED BY <2>1, <3>2
  <2>2. CASE ~(k < n)
    <3>1. k - Len(p) \in 1 .. l - o + 1 /\ ~(k <= Len(p)) /\ k \in 1 .. Len(p) + Len(r)
      BY <1>1, <1>8, <2>2 DEF o, l
    <3>2. (p \o r)[k] = r[k - Len(p)] /\ r[k - Len(p)] = q[o + (k - Len(p)) - 1]
      BY <1>6, <1>7, <3>1
    <3>3. o + (k - Len(p)) - 1 = k + 1
      BY <1>1, <1>8 DEF o
    <3> QED BY <2>2, <3>2, <3>3
  <2> QED BY <2>1, <2>2
<1> QED BY SMTT(30), <1>4, <1>7, <1>8, <1>9, <1>1

\* fx.timer goes on.
AttachedOne(s, a) == [s EXCEPT !.anims[a].attached = TRUE]

LEMMA AttachIs ==
    ASSUME NEW s \in FxVars, NEW a \in Anim,
           NEW t, t = AttachedOne(s, a)
    PROVE  /\ Animated(s, t)
           /\ t.anims[a].attached
           /\ \A b \in Anim : b # a => t.anims[b] = s.anims[b]
           /\ \A b \in Anim :
                /\ t.anims[b].of = s.anims[b].of /\ t.anims[b].queued = s.anims[b].queued
                /\ t.anims[b].zero = s.anims[b].zero /\ t.anims[b].state = s.anims[b].state
                /\ t.anims[b].stopped = s.anims[b].stopped /\ t.anims[b].elem = s.anims[b].elem
<1>1. PICK yes : yes = TRUE
  OBVIOUS
<1> DEFINE y == [s.anims[a] EXCEPT !.attached = yes]
           x == [s.anims EXCEPT ![a] = y]
<1>2. s.anims \in [Anim -> AnimVars] /\ yes \in BOOLEAN
  BY <1>1, FxIs
<1>3. y \in AnimVars
  BY <1>2 DEF AnimVars
<1>4. /\ y.of = s.anims[a].of /\ y.queued = s.anims[a].queued /\ y.zero = s.anims[a].zero
      /\ y.state = s.anims[a].state /\ y.stopped = s.anims[a].stopped /\ y.elem = s.anims[a].elem /\ y.attached = yes
  BY <1>2 DEF AnimVars
<1>5. x = [s.anims EXCEPT ![a].attached = TRUE]
  BY <1>1, Zenon
<1>6. t = [s EXCEPT !.anims = x]
  BY <1>5, Zenon DEF AttachedOne
<1> HIDE DEF y
<1>7. x \in [Anim -> AnimVars] /\ x[a] = y /\ \A b \in Anim : b # a => x[b] = s.anims[b]
  BY <1>2, <1>3
<1> HIDE DEF x
<1>8. Animated(s, [s EXCEPT !.anims = x]) /\ [s EXCEPT !.anims = x].anims = x
  BY <1>7, AnimsIs
<1> QED BY <1>1, <1>4, <1>5, <1>6, <1>7, <1>8

TimerStarted == IF Top.end THEN [fx EXCEPT !.timerId = TRUE] ELSE [fx EXCEPT !.timers = Front(@)]
TimerAttached == AttachedOne(TimerStarted, Top.a)
TimerMade == GoTo(TimerAttached, Of("made", Top.a))

LEMMA TimerIs ==
    ASSUME Base(fx), At("timer")
    PROVE  /\ fx.stack # <<>> /\ Top.a \in Anim /\ Started(fx.anims, Top.a)
           /\ Timed(fx, TimerStarted) /\ Base(TimerStarted)
           /\ Top.end => TimerStarted.timers = fx.timers /\ TimerStarted.timerId = TRUE
           /\ ~Top.end => TimerStarted.timers = Front(fx.timers) /\ TimerStarted.timerId = fx.timerId
           /\ Animated(TimerStarted, TimerAttached) /\ Base(TimerAttached)
           /\ \A b \in Anim : b # Top.a => TimerAttached.anims[b] = fx.anims[b]
           /\ \A b \in Anim :
                /\ TimerAttached.anims[b].of = fx.anims[b].of
                /\ TimerAttached.anims[b].queued = fx.anims[b].queued
                /\ TimerAttached.anims[b].zero = fx.anims[b].zero
                /\ TimerAttached.anims[b].state = fx.anims[b].state
                /\ TimerAttached.anims[b].stopped = fx.anims[b].stopped
                /\ TimerAttached.anims[b].elem = fx.anims[b].elem
           /\ TimerAttached.anims[Top.a].attached
           /\ Of("made", Top.a) \in FrameVars /\ Of("made", Top.a).at = "made"
           /\ Of("made", Top.a).a = Top.a /\ Of("made", Top.a).todo = <<>>
           /\ Base(TimerMade) /\ Stacked(TimerAttached, TimerMade)
           /\ Puts(fx.stack, Of("made", Top.a), TimerMade.stack)
<1> DEFINE a == Top.a u == TimerStarted t == TimerAttached f == Of("made", Top.a)
<1>1. fx.stack # <<>> /\ Top.at = "timer" /\ fx \in FxVars
  BY DEF At, Base
<1>2. a \in Anim /\ Started(fx.anims, a) /\ Top \in FrameVars
  BY <1>1, TopIs DEF Top, AnimFrames
<1>3. /\ Timed(fx, u)
      /\ Top.end => u.timers = fx.timers /\ u.timerId = TRUE
      /\ ~Top.end => u.timers = Front(fx.timers) /\ u.timerId = fx.timerId
      /\ \A j \in DOMAIN u.timers : \E i \in DOMAIN fx.timers : u.timers[j] = fx.timers[i]
  <2>1. CASE Top.end
    <3>1. u = [fx EXCEPT !.timerId = TRUE]
      BY <2>1 DEF TimerStarted
    <3>2. Timed(fx, u) /\ u.timers = fx.timers /\ u.timerId = TRUE
      BY <1>1, <3>1, IntervalIs
    <3> QED BY <2>1, <3>2
  <2>2. CASE ~Top.end
    <3>1. fx.timers \in Seq(Anim)
      BY <1>1, FxIs
    <3>2. /\ Front(fx.timers) \in Seq(Anim) /\ Len(Front(fx.timers)) <= Len(fx.timers)
          /\ \A k \in 1 .. Len(Front(fx.timers)) : Front(fx.timers)[k] = fx.timers[k]
      <4>1. CASE fx.timers # <<>>
        BY <3>1, <4>1, FrontIs
      <4>2. CASE fx.timers = <<>>
        <5>1. Front(fx.timers) = <<>>
          BY <4>2, SubSeqEmpty DEF Front
        <5>2. Len(<<>>) = 0 /\ <<>> \in Seq(Anim)
          BY EmptySeq
        <5> DEFINE y == Front(fx.timers)
        <5>3. y \in Seq(Anim) /\ Len(y) = 0 /\ Len(fx.timers) = 0
          BY <4>2, <5>1, <5>2
        <5> HIDE DEF y
        <5>4. Len(y) <= Len(fx.timers) /\ \A k \in 1 .. Len(y) : y[k] = fx.timers[k]
          BY <5>3
        <5> QED BY <5>3, <5>4 DEF y
      <4> QED BY <4>1, <4>2
    <3>3. u = [fx EXCEPT !.timers = Front(fx.timers)]
      BY <2>2 DEF TimerStarted
    <3> DEFINE tm == Front(fx.timers)
    <3> HIDE DEF tm
    <3>4. Timed(fx, u) /\ u.timers = tm /\ u.timerId = fx.timerId
      BY <1>1, <3>2, <3>3, TimersAre DEF tm
    <3>5. \A j \in DOMAIN tm : j \in DOMAIN fx.timers /\ tm[j] = fx.timers[j]
      BY <3>1, <3>2 DEF tm
    <3> QED BY <2>2, <3>4, <3>5 DEF tm
  <2> QED BY <2>1, <2>2
<1>4. Base(u)
  BY <1>3, BaseTimed
<1>5. u \in FxVars /\ u.anims = fx.anims /\ u.stack = fx.stack
  BY <1>3 DEF Timed
<1>6. /\ Animated(u, t)
      /\ \A b \in Anim : b # a => t.anims[b] = u.anims[b]
      /\ \A b \in Anim :
                /\ t.anims[b].of = u.anims[b].of /\ t.anims[b].queued = u.anims[b].queued
                /\ t.anims[b].zero = u.anims[b].zero /\ t.anims[b].state = u.anims[b].state
                /\ t.anims[b].stopped = u.anims[b].stopped /\ t.anims[b].elem = u.anims[b].elem
      /\ t.anims[a].attached
  <2>1. t = AttachedOne(u, a)
    BY DEF TimerAttached
  <2> QED BY <1>2, <1>5, <2>1, AttachIs
<1> HIDE DEF u, t, a
<1>7. t \in FxVars /\ t.stack = fx.stack /\ t.anims \in [Anim -> AnimVars]
  BY <1>5, <1>6, FxIs DEF Animated
<1>8. Ages(u.anims, t.anims)
  BY <1>2, <1>5, <1>6, <1>7 DEF Ages, Started
<1>9. Base(t)
  BY <1>4, <1>6, <1>8, BaseAges
<1>10. f \in FrameVars /\ f.at = "made" /\ f.a = a /\ f.todo = <<>>
  <2>1. "made" \in AnimFrames
    BY DEF AnimFrames
  <2> QED BY ZenonT(30), <1>2, <2>1, OfAnim DEF a
<1> HIDE DEF f
<1>11. Started(t.anims, a)
  BY <1>2, <1>5, <1>6 DEF Started
<1>12. FrameGoesOn(t.anims, t.stack[Len(t.stack)], f)
  BY <1>2, <1>10, <1>11 DEF FrameGoesOn, ElemFrames
<1>13. Base(GoTo(t, f)) /\ Stacked(t, GoTo(t, f)) /\ Puts(t.stack, f, GoTo(t, f).stack)
  BY <1>1, <1>7, <1>9, <1>12, BaseGoTo
<1>14. TimerMade = GoTo(t, f)
  BY DEF TimerMade, t, f
<1>15. \A b \in Anim :
                /\ t.anims[b].of = fx.anims[b].of
                /\ t.anims[b].queued = fx.anims[b].queued
                /\ t.anims[b].zero = fx.anims[b].zero
                /\ t.anims[b].state = fx.anims[b].state
                /\ t.anims[b].stopped = fx.anims[b].stopped /\ t.anims[b].elem = fx.anims[b].elem
  BY <1>5, <1>6
<1>16. \A b \in Anim : b # a => t.anims[b] = fx.anims[b]
  BY <1>5, <1>6
<1> QED BY <1>1, <1>2, <1>3, <1>4, <1>6, <1>7, <1>9, <1>10, <1>13, <1>14, <1>15, <1>16 DEF u, t, a, f

LEMMA BaseTimer == ASSUME Base(fx), Timer PROVE Base(fx')
<1>1. At("timer") /\ (Goes(Complete(TimerMade, Top.a)) \/ Goes(TimerMade))
  BY DEF Timer, TimerMade, TimerAttached, TimerStarted, AttachedOne
<1>2. Base(TimerMade) /\ Top.a \in Anim /\ Started(TimerMade.anims, Top.a)
  <2>1. /\ Base(TimerMade) /\ Top.a \in Anim /\ Started(fx.anims, Top.a)
        /\ TimerMade.anims = TimerAttached.anims
        /\ TimerAttached.anims[Top.a].state = fx.anims[Top.a].state
    BY <1>1, TimerIs DEF Stacked
  <2> QED BY <2>1 DEF Started
<1>3. Base(Complete(TimerMade, Top.a))
  BY <1>2, BaseComplete
<1> QED BY <1>1, <1>2, <1>3, BaseGoes

\* The loops of stop and finish.  A call of an element goes on.
LEMMA ElemGoesOn ==
    ASSUME NEW an, NEW g \in FrameVars, NEW f \in FrameVars, g.at \in ElemFrames, f.at \in ElemFrames,
           f.a = g.a, f.todo = g.todo \/ LaterIn(g.todo, f.todo), f.at = "splice" => f.i >= 1
    PROVE  FrameGoesOn(an, g, f)
BY DEF FrameGoesOn, AnimFrames, ElemFrames

LEMMA BaseStopStart == ASSUME Base(fx), StopStart PROVE Base(fx')
<1> DEFINE n == Len(fx.timers) f == [Top EXCEPT !.at = "loop", !.i = n]
<1>1. fx.stack # <<>> /\ Top.at = "stop" /\ Goes(GoTo(fx, f))
  BY DEF StopStart, At
<1>2. Top \in FrameVars /\ n \in Nat /\ Top.a \in Elem
  <2>1. fx.timers \in Seq(Anim)
    BY FxIs DEF Base
  <2> QED BY <1>1, <2>1, TopIs DEF Top, ElemFrames
<1> HIDE DEF n
<1>3. f \in FrameVars /\ f.at = "loop" /\ f.a = Top.a /\ f.todo = Top.todo
  BY <1>2 DEF FrameVars, Places
<1> HIDE DEF f
<1>4. FrameGoesOn(fx.anims, Top, f)
  BY <1>1, <1>2, <1>3, ElemGoesOn DEF ElemFrames
<1> QED BY <1>1, <1>4, BaseGoTo, BaseGoes DEF Top

LEMMA BaseStopLoop == ASSUME Base(fx), StopLoop PROVE Base(fx')
<1>1. fx.stack # <<>> /\ Top.at = "loop" /\ Top.i > 0
  BY DEF StopLoop, At
<1>2. Top \in FrameVars /\ Top.i \in Nat /\ Top.end \in BOOLEAN
  BY <1>1, TopIs, FrameIs DEF Top
<1>3. CASE /\ Top.i <= Len(fx.timers)
           /\ Goes(StopAnim(GoTo(fx, [Top EXCEPT !.at = "splice", !.dequeue = FALSE]),
                            fx.timers[Top.i], Top.end))
  <2>1. PICK no : no = FALSE
    OBVIOUS
  <2> DEFINE f == [Top EXCEPT !.at = "splice", !.dequeue = no] a == fx.timers[Top.i]
  <2>2. no \in BOOLEAN
    BY <2>1
  <2>3. f \in FrameVars /\ f.at = "splice" /\ f.a = Top.a /\ f.todo = Top.todo /\ f.i = Top.i
    BY <1>2, <2>2 DEF FrameVars, Places
  <2>4. Goes(StopAnim(GoTo(fx, f), a, Top.end))
    BY <1>3, <2>1
  <2> HIDE DEF f
  <2>5. FrameGoesOn(fx.anims, Top, f)
    BY <1>1, <1>2, <2>3, ElemGoesOn DEF ElemFrames
  <2>6. Base(GoTo(fx, f)) /\ Stacked(fx, GoTo(fx, f))
    BY <1>1, <2>5, BaseGoTo DEF Top
  <2>7. a \in Anim /\ Started(fx.anims, a)
    <3>1. fx.timers \in Seq(Anim) /\ Top.i \in DOMAIN fx.timers
      BY <1>1, <1>2, <1>3, FxIs DEF Base
    <3> QED BY <3>1 DEF Base, TimersOk
  <2>8. Started(GoTo(fx, f).anims, a)
    BY <2>6, <2>7 DEF Stacked
  <2>9. Base(StopAnim(GoTo(fx, f), a, Top.end))
    BY <1>2, <2>6, <2>7, <2>8, BaseStopAnim
  <2> QED BY <2>4, <2>9, BaseGoes
<1>4. CASE Goes(GoTo(fx, [Top EXCEPT !.i = @ - 1]))
  <2> DEFINE n == Top.i - 1 f == [Top EXCEPT !.i = n]
  <2>1. n \in Nat /\ Goes(GoTo(fx, f))
    BY <1>1, <1>2, <1>4
  <2> HIDE DEF n
  <2>2. f \in FrameVars /\ f.at = Top.at /\ f.a = Top.a /\ f.todo = Top.todo
    BY <1>2, <2>1 DEF FrameVars
  <2> HIDE DEF f
  <2>3. FrameGoesOn(fx.anims, Top, f)
    BY <1>1, <1>2, <2>2, ElemGoesOn DEF ElemFrames
  <2> QED BY <1>1, <2>1, <2>3, BaseGoTo, BaseGoes DEF Top
<1>5. CASE fx' = [fx EXCEPT !.stack = <<>>]
  <2> DEFINE t == [fx EXCEPT !.stack = <<>>]
  <2>1. Stacked(fx, t) /\ t.stack = <<>>
    BY EmptySeq, StackIs DEF Base
  <2>2. Base(t)
    <3> HIDE DEF t
    <3>1. CountOk(t.stack, t.anims, t.hooks)
      <4>1. \A a \in Anim : Leaving(t.stack, a) => Leaving(fx.stack, a)
        BY <2>1, EmptySeq DEF Leaving
      <4>2. fx.hooks \in [Elem -> HookVars] /\ CountOk(fx.stack, fx.anims, fx.hooks)
        BY FxIs DEF Base
      <4> QED BY <2>1, <4>1, <4>2, BesideSame DEF Stacked
    <3>2. DOMAIN t.stack = {}
      BY <2>1, EmptySeq
    <3> QED BY <2>1, <3>1, <3>2 DEF Base, Stacked, FramesOk, TodoOk, LeaveOk, CallerOk, BottomOk
  <2> QED BY <1>5, <2>2
<1> QED BY <1>3, <1>4, <1>5 DEF StopLoop

SplicedTimers == IF Top.i <= Len(fx.timers) THEN RemoveAt(fx.timers, Top.i) ELSE fx.timers

LEMMA SplicedAre ==
    ASSUME Base(fx), fx.stack # <<>>, Top.at = "splice"
    PROVE  /\ fx.timers \in Seq(Anim) /\ Top.i \in Nat /\ Top.i >= 1
           /\ SplicedTimers \in Seq(Anim)
           /\ \A j \in DOMAIN SplicedTimers : \E i \in DOMAIN fx.timers : SplicedTimers[j] = fx.timers[i]
<1>1. fx.timers \in Seq(Anim) /\ Top.i \in Nat /\ Top.i >= 1
  BY TopIs, FrameIs, FxIs DEF Top, Base
<1>2. CASE Top.i <= Len(fx.timers)
  <2>1. Top.i \in 1 .. Len(fx.timers)
    BY <1>1, <1>2
  <2> DEFINE t == RemoveAt(fx.timers, Top.i)
  <2>2. /\ t \in Seq(Anim) /\ Len(t) = Len(fx.timers) - 1
        /\ \A k \in 1 .. Len(fx.timers) - 1 : t[k] = IF k < Top.i THEN fx.timers[k] ELSE fx.timers[k + 1]
    BY <1>1, <2>1, RemoveAtIs
  <2> HIDE DEF t
  <2>3. \A j \in DOMAIN t : \E i \in DOMAIN fx.timers : t[j] = fx.timers[i]
    <3> SUFFICES ASSUME NEW j \in DOMAIN t PROVE \E i \in DOMAIN fx.timers : t[j] = fx.timers[i]
      OBVIOUS
    <3>1. j \in 1 .. Len(fx.timers) - 1 /\ j \in DOMAIN fx.timers /\ j + 1 \in DOMAIN fx.timers
      BY <1>1, <2>2
    <3> QED BY <2>2, <3>1
  <2>4. SplicedTimers = t
    BY <1>2 DEF SplicedTimers, t
  <2> QED BY <1>1, <2>2, <2>3, <2>4
<1>3. CASE ~(Top.i <= Len(fx.timers))
  <2>1. SplicedTimers = fx.timers
    BY <1>3 DEF SplicedTimers
  <2> QED BY <1>1, <2>1
<1> QED BY <1>2, <1>3

LEMMA BaseSplice == ASSUME Base(fx), Splice PROVE Base(fx')
<1> DEFINE n == Top.i - 1 f == [Top EXCEPT !.at = "loop", !.i = n]
           tm == SplicedTimers u == [fx EXCEPT !.timers = tm]
<1>1. fx.stack # <<>> /\ Top.at = "splice" /\ Goes(GoTo(u, f))
  BY Zenon DEF Splice, At, SplicedTimers
<1>2. Top \in FrameVars
  BY <1>1, TopIs DEF Top
<1>3. /\ fx.timers \in Seq(Anim) /\ Top.i \in Nat /\ n \in Nat /\ tm \in Seq(Anim)
      /\ \A j \in DOMAIN tm : \E i \in DOMAIN fx.timers : tm[j] = fx.timers[i]
  BY <1>1, SplicedAre
<1> HIDE DEF n, tm
<1>4. f \in FrameVars /\ f.at = "loop" /\ f.a = Top.a /\ f.todo = Top.todo
  BY <1>2, <1>3 DEF FrameVars, Places
<1>5. Timed(fx, u) /\ u.timers = tm
  BY <1>3, TimersAre DEF Base
<1> HIDE DEF u, f
<1>6. Base(u)
  BY <1>3, <1>5, BaseTimed
<1>7. u.stack = fx.stack /\ u.anims = fx.anims
  BY <1>5 DEF Timed
<1>8. FrameGoesOn(u.anims, u.stack[Len(u.stack)], f)
  BY <1>1, <1>2, <1>4, <1>7, ElemGoesOn DEF ElemFrames, Top
<1>9. Base(GoTo(u, f))
  BY <1>1, <1>6, <1>7, <1>8, BaseGoTo
<1> QED BY <1>1, <1>9, BaseGoes

LEMMA BaseStopEnds == ASSUME Base(fx), StopEnds PROVE Base(fx')
<1>1. fx.stack # <<>> /\ Top.at = "loop" /\ (Goes(Dequeue(Pop(fx), Top.a)) \/ Goes(Pop(fx)))
  BY DEF StopEnds, At
<1>2. Top.a \in Elem
  BY <1>1, TopIs DEF Top, ElemFrames
<1>3. Base(Pop(fx)) /\ Base(Dequeue(Pop(fx), Top.a))
  BY <1>1, <1>2, BasePop, BaseDequeues
<1> QED BY <1>1, <1>3, BaseGoes

\* The old queue goes on.
FinishFrame == [Top EXCEPT !.todo = Tail(Top.todo)]

LEMMA FinishIs ==
    ASSUME Base(fx), fx.stack # <<>>, Top.at = "loop", Top.todo # <<>>
    PROVE  LET rest == Tail(Top.todo) IN
           /\ Top \in FrameVars /\ Top.a \in Elem
           /\ rest \in Entries /\ FinishFrame \in FrameVars
           /\ FinishFrame.at = "loop" /\ FinishFrame.a = Top.a /\ FinishFrame.todo = rest
           /\ Base(GoTo(fx, FinishFrame)) /\ Stacked(fx, GoTo(fx, FinishFrame))
           /\ Puts(fx.stack, FinishFrame, GoTo(fx, FinishFrame).stack)
           /\ rest # <<>> => Head(rest) = Top.todo[2] /\ 2 \in DOMAIN Top.todo
<1> DEFINE q == Top.todo r == Tail(q) f == FinishFrame
<1>1. Top \in FrameVars /\ Top.a \in Elem
  BY TopIs DEF Top, ElemFrames
<1>2. q \in Seq(Anim \cup {InProgress}) /\ q # <<>>
  BY <1>1, FrameIs DEF Entries
<1>3. /\ r \in Seq(Anim \cup {InProgress}) /\ Len(r) = Len(q) - 1
      /\ \A i \in 1 .. Len(r) : r[i] = q[i + 1]
  BY <1>2, HeadTailProperties
<1> HIDE DEF q, r
<1>4. Once(q, 1)
  <2>1. Once(fx.stack[Len(fx.stack)].todo, 1)
    BY TopIs DEF Base, TodoOk
  <2> QED BY <2>1 DEF q, Top
<1>5. \A i \in DOMAIN r : i \in Nat /\ i + 1 \in DOMAIN q /\ r[i] = q[i + 1]
  BY <1>2, <1>3
<1>6. LaterIn(q, r)
  <2>1. Once(r, 1)
    <3> SUFFICES ASSUME NEW j \in DOMAIN r, NEW k \in DOMAIN r, j > 1, k > 1, r[j] = r[k], r[j] # InProgress
                 PROVE  j = k
      BY DEF Once
    <3>1. j + 1 \in DOMAIN q /\ k + 1 \in DOMAIN q /\ q[j + 1] = q[k + 1] /\ q[j + 1] # InProgress
          /\ j \in Nat /\ k \in Nat /\ j + 1 > 1 /\ k + 1 > 1
      BY <1>5
    <3>2. j + 1 = k + 1
      BY <1>4, <3>1 DEF Once
    <3> QED BY <3>1, <3>2
  <2>2. \A i \in DOMAIN r : i > 1 /\ r[i] # InProgress => \E j \in DOMAIN q : j > 1 /\ q[j] = r[i]
    <3> SUFFICES ASSUME NEW i \in DOMAIN r, i > 1 PROVE \E j \in DOMAIN q : j > 1 /\ q[j] = r[i]
      OBVIOUS
    <3>1. i + 1 \in DOMAIN q /\ i + 1 > 1 /\ q[i + 1] = r[i]
      BY <1>5
    <3> QED BY <3>1
  <2> QED BY <2>1, <2>2 DEF LaterIn
<1>7. r \in Entries
  BY <1>3 DEF Entries
<1>8. f = [Top EXCEPT !.todo = r]
  BY DEF r, q, FinishFrame
<1> HIDE DEF f
<1>9. f \in FrameVars /\ f.at = "loop" /\ f.a = Top.a /\ f.todo = r
  BY <1>1, <1>7, <1>8 DEF FrameVars
<1>10. FrameGoesOn(fx.anims, Top, f)
  BY <1>1, <1>6, <1>9, ElemGoesOn DEF ElemFrames, q
<1>11. Base(GoTo(fx, f)) /\ Stacked(fx, GoTo(fx, f)) /\ Puts(fx.stack, f, GoTo(fx, f).stack)
  BY <1>10, BaseGoTo DEF Top
<1>12. r # <<>> => Head(r) = q[2] /\ 2 \in DOMAIN q
  <2> SUFFICES ASSUME r # <<>> PROVE Head(r) = q[2] /\ 2 \in DOMAIN q
    OBVIOUS
  <2>1. Len(r) \in Nat \ {0}
    BY <1>3, EmptySeq
  <2>2. 1 \in 1 .. Len(r) /\ 1 \in DOMAIN r
    BY <1>3, <2>1
  <2>3. r[1] = q[1 + 1] /\ 1 + 1 \in DOMAIN q /\ 1 + 1 = 2
    BY <1>5, <2>2
  <2> QED BY <1>3, <2>3
<1> QED BY <1>1, <1>7, <1>9, <1>11, <1>12 DEF q, r, f

FinishSet(s, e, b) == [s EXCEPT !.finish[e] = b]
Flagged(s, t) ==
    /\ t \in FxVars
    /\ t.timers = s.timers /\ t.timerId = s.timerId /\ t.anims = s.anims /\ t.queue = s.queue
    /\ t.hooks = s.hooks /\ t.stack = s.stack

LEMMA FinishSetIs ==
    ASSUME NEW s \in FxVars, NEW e \in Elem, NEW b \in BOOLEAN
    PROVE  Flagged(s, FinishSet(s, e, b))
<1> DEFINE x == [s.finish EXCEPT ![e] = b]
<1>1. FinishSet(s, e, b) = [s EXCEPT !.finish = x]
  BY Zenon DEF FinishSet
<1>2. x \in [Elem -> BOOLEAN]
  BY FxIs
<1> HIDE DEF x
<1> QED BY <1>1, <1>2 DEF FxVars, Flagged

LEMMA BaseFlagged == ASSUME NEW s, NEW t, Base(s), Flagged(s, t) PROVE Base(t)
BY DEF Base, Flagged

LEMMA NextIs ==
    ASSUME NEW s, Base(s), s.stack # <<>>, NEW a, NEW g, g = s.stack[Len(s.stack)],
           g.at = "loop", 2 \in DOMAIN g.todo, a = g.todo[2], a # InProgress
    PROVE  /\ a \in Anim /\ s.anims[a].state = "queued" /\ s.anims[a].queued /\ s.anims[a].of = g.a
           /\ \A e \in Elem : \A j \in DOMAIN s.queue[e] : s.queue[e][j] # a
           /\ \A k \in DOMAIN s.stack : k # Len(s.stack) =>
                \A j \in DOMAIN s.stack[k].todo : j > 1 => s.stack[k].todo[j] # a
           /\ \A j \in DOMAIN g.todo : j > 2 => g.todo[j] # a
<1> DEFINE n == Len(s.stack)
<1>1. n \in DOMAIN s.stack /\ g \in FrameVars /\ g.a \in Elem
  BY TopIs DEF ElemFrames
<1>2. g.todo \in Seq(Anim \cup {InProgress})
  BY <1>1, FrameIs DEF Entries
<1>3. a \in Anim
  BY <1>2
<1>4. /\ Once(g.todo, 1) /\ AllWait(g.todo, 1, s.anims, g.a)
      /\ Apart(g.todo, 1, s.queue[g.a], 0)
      /\ \A l \in DOMAIN s.stack : l # n => Apart(g.todo, 1, s.stack[l].todo, 1)
  BY <1>1 DEF Base, TodoOk, ElemFrames
<1>5. s.anims[a].state = "queued" /\ s.anims[a].queued /\ s.anims[a].of = g.a
  <2>1. Waits(s.anims, g.todo[2], g.a)
    BY <1>4 DEF AllWait
  <2> QED BY <2>1 DEF Waits
<1>6. \A e \in Elem : \A j \in DOMAIN s.queue[e] : s.queue[e][j] # a
  <2> SUFFICES ASSUME NEW e \in Elem, NEW j \in DOMAIN s.queue[e], s.queue[e][j] = a PROVE FALSE
    OBVIOUS
  <2>1. AllWait(s.queue[e], 0, s.anims, e) /\ s.queue[e] \in Entries
    BY FxIs DEF Base, QueueOk
  <2>2. j > 0
    BY <2>1 DEF Entries
  <2>3. s.anims[a].of = e
    BY <2>1, <2>2 DEF AllWait, Waits
  <2>4. Apart(g.todo, 1, s.queue[e], 0)
    BY <1>4, <1>5, <2>3
  <2> QED BY <2>2, <2>4 DEF Apart
<1>7. \A k \in DOMAIN s.stack : k # n => \A j \in DOMAIN s.stack[k].todo : j > 1 => s.stack[k].todo[j] # a
  BY <1>4 DEF Apart
<1>8. \A j \in DOMAIN g.todo : j > 2 => g.todo[j] # a
  <2> SUFFICES ASSUME NEW j \in DOMAIN g.todo, j > 2, g.todo[j] = a PROVE FALSE
    OBVIOUS
  <2>1. j \in Nat
    BY <1>2
  <2> QED BY <1>4, <2>1 DEF Once
<1> QED BY <1>3, <1>5, <1>6, <1>7, <1>8

\* The next of the old queue starts.
LEMMA BaseFinishes ==
    ASSUME Base(fx), fx.stack # <<>>, Top.at = "loop", Top.todo # <<>>, Tail(Top.todo) # <<>>,
           Head(Tail(Top.todo)) # InProgress
    PROVE  Base(DoAnimation(GoTo(fx, FinishFrame), Head(Tail(Top.todo))))
<1> DEFINE q == Top.todo r == Tail(q) f == FinishFrame
<1>1. fx.stack # <<>> /\ Top.at = "loop" /\ q # <<>>
  OBVIOUS
<1>2. /\ Top \in FrameVars /\ Top.a \in Elem /\ r \in Entries /\ f \in FrameVars
      /\ f.at = "loop" /\ f.a = Top.a /\ f.todo = r
      /\ Base(GoTo(fx, f)) /\ Stacked(fx, GoTo(fx, f)) /\ Puts(fx.stack, f, GoTo(fx, f).stack)
      /\ r # <<>> => Head(r) = q[2] /\ 2 \in DOMAIN q
  BY <1>1, FinishIs
<1>3. r # <<>> /\ Head(r) # InProgress
  OBVIOUS
<1> DEFINE a == Head(r) t == GoTo(fx, f)
<1>4. 2 \in DOMAIN q /\ a = q[2]
  BY <1>2, <1>3
<1>5. a # InProgress
  BY <1>3
<1> HIDE DEF a
<1>6. /\ a \in Anim /\ fx.anims[a].state = "queued"
      /\ \A e \in Elem : \A j \in DOMAIN fx.queue[e] : fx.queue[e][j] # a
      /\ \A k \in DOMAIN fx.stack : k # Len(fx.stack) =>
           \A j \in DOMAIN fx.stack[k].todo : j > 1 => fx.stack[k].todo[j] # a
      /\ \A j \in DOMAIN q : j > 2 => q[j] # a
  BY SMTT(30), <1>1, <1>4, <1>5, NextIs DEF Top
<1>7. t.anims = fx.anims /\ t.queue = fx.queue /\ Puts(fx.stack, f, t.stack)
  BY <1>2 DEF Stacked
<1>8. /\ r \in Seq(Anim \cup {InProgress}) /\ Len(r) = Len(q) - 1
      /\ \A i \in 1 .. Len(r) : r[i] = q[i + 1]
      /\ q \in Seq(Anim \cup {InProgress})
  <2>1. q \in Seq(Anim \cup {InProgress})
    BY <1>2, FrameIs DEF Entries
  <2> QED BY <1>1, <2>1, HeadTailProperties
<1> HIDE DEF q, r, t, f
<1>9. \A j \in DOMAIN r : j > 1 => r[j] # a
  <2> SUFFICES ASSUME NEW j \in DOMAIN r, j > 1 PROVE r[j] # a
    OBVIOUS
  <2>1. j \in 1 .. Len(r) /\ Len(r) \in Nat /\ DOMAIN q = 1 .. Len(q)
    BY <1>8
  <2>2. j + 1 \in DOMAIN q /\ j + 1 > 2 /\ r[j] = q[j + 1]
    BY SMTT(30), <1>8, <2>1
  <2> QED BY <1>6, <2>2
<1>10. \A k \in DOMAIN t.stack : \A j \in DOMAIN t.stack[k].todo : j > 1 => t.stack[k].todo[j] # a
  <2> SUFFICES ASSUME NEW k \in DOMAIN t.stack, NEW j \in DOMAIN t.stack[k].todo, j > 1
               PROVE  t.stack[k].todo[j] # a
    OBVIOUS
  <2>1. /\ fx.stack \in Seq(FrameVars) /\ t.stack \in Seq(FrameVars) /\ Len(t.stack) = Len(fx.stack)
        /\ t.stack[Len(fx.stack)] = f /\ \A l \in 1 .. Len(fx.stack) - 1 : t.stack[l] = fx.stack[l]
    BY <1>7, FxIs DEF Puts, Base
  <2>2. CASE k = Len(fx.stack)
    BY <1>2, <1>9, <2>1, <2>2
  <2>3. CASE k # Len(fx.stack)
    <3>1. /\ DOMAIN t.stack = 1 .. Len(t.stack) /\ DOMAIN fx.stack = 1 .. Len(fx.stack)
          /\ Len(t.stack) = Len(fx.stack) /\ Len(fx.stack) \in Nat
      BY <2>1
    <3>2. k \in 1 .. Len(fx.stack) - 1
      BY <2>3, <3>1
    <3>3. k \in DOMAIN fx.stack /\ t.stack[k] = fx.stack[k]
      BY <2>1, <3>1, <3>2
    <3> QED BY <1>6, <2>3, <3>3
  <2> QED BY <2>2, <2>3
<1>11. Base(t)
  BY <1>2 DEF t
<1>12. Base(DoAnimation(t, a))
  BY <1>6, <1>7, <1>10, <1>11, BaseDoAnimation
<1> QED BY <1>12 DEF a, t, f, r, q

LEMMA BaseFinishNext == ASSUME Base(fx), FinishNext PROVE Base(fx')
<1> DEFINE q == Top.todo r == Tail(q) f == FinishFrame
<1>1. /\ fx.stack # <<>> /\ Top.at = "loop" /\ q # <<>>
      /\ Goes(IF r = <<>> THEN FinishSet(Pop(fx), Top.a, FALSE)
              ELSE IF Head(r) = InProgress THEN GoTo(fx, f) ELSE DoAnimation(GoTo(fx, f), Head(r)))
  BY DEF FinishNext, At, FinishSet, FinishFrame
<1>2. /\ Top \in FrameVars /\ Top.a \in Elem /\ r \in Entries /\ f \in FrameVars
      /\ f.at = "loop" /\ f.a = Top.a /\ f.todo = r
      /\ Base(GoTo(fx, f)) /\ Stacked(fx, GoTo(fx, f)) /\ Puts(fx.stack, f, GoTo(fx, f).stack)
      /\ r # <<>> => Head(r) = q[2] /\ 2 \in DOMAIN q
  BY <1>1, FinishIs
<1>3. Base(FinishSet(Pop(fx), Top.a, FALSE))
  <2>1. Base(Pop(fx)) /\ Pop(fx) \in FxVars
    BY <1>1, BasePop DEF Base
  <2>2. Flagged(Pop(fx), FinishSet(Pop(fx), Top.a, FALSE))
    BY <1>2, <2>1, FinishSetIs
  <2> QED BY <2>1, <2>2, BaseFlagged
<1>4. r # <<>> /\ Head(r) # InProgress => Base(DoAnimation(GoTo(fx, f), Head(r)))
  BY <1>1, BaseFinishes
<1> HIDE DEF q, r, f
<1> QED BY <1>1, <1>2, <1>3, <1>4, BaseGoes

\* The interval ticks the timers.
TickStart == [User EXCEPT !.at = "fxtick", !.i = 1]

LEMMA FxTickIs ==
    ASSUME Base(fx), fx.stack = <<>>
    PROVE  LET t == Push(fx, TickStart) IN
           Base(t) /\ Stacked(fx, t) /\ DOMAIN t.stack = {1} /\ t.stack[1].at = "fxtick"
<1> DEFINE f == TickStart t == Push(fx, f) stk == fx.stack st == t.stack
<1>1. stk = <<>>
  OBVIOUS
<1>2. f \in FrameVars /\ f.at = "fxtick" /\ f.i = 1 /\ f.todo = <<>>
  <2>1. PICK u : u = User
    OBVIOUS
  <2>2. f = [u EXCEPT !.at = "fxtick", !.i = 1]
    BY <2>1, Zenon DEF TickStart
  <2>3. u \in FrameVars /\ u.todo = <<>>
    BY <2>1, UserIs
  <2> HIDE DEF f
  <2> QED BY <2>2, <2>3 DEF FrameVars, Places
<1> HIDE DEF f
<1>3. Stacked(fx, t) /\ Adds(stk, f, st)
  BY <1>2, PushIs DEF Base
<1>4. /\ t \in FxVars /\ t.anims = fx.anims /\ t.queue = fx.queue /\ t.timers = fx.timers
      /\ t.hooks = fx.hooks /\ fx.hooks \in [Elem -> HookVars]
  BY <1>3, FxIs DEF Stacked, Base
<1>5. st \in Seq(FrameVars) /\ Len(st) = 1 /\ st[1] = f /\ DOMAIN st = {1}
  BY <1>1, <1>3 DEF Adds
<1>6. \A k \in DOMAIN st : k = 1 /\ st[k] = f
  BY <1>5
<1>7. Base(fx)
  OBVIOUS
<1> HIDE DEF t, stk, st
<1>8. FramesOk(st, fx.anims)
  BY <1>2, <1>6 DEF FramesOk, AnimFrames, ElemFrames
<1>9. TodoOk(st, fx.queue, fx.anims)
  BY <1>2, <1>6 DEF TodoOk, ElemFrames, Once, Apart, AllWait
<1>10. LeaveOk(st, fx.anims) /\ \A a \in Anim : ~Leaving(st, a)
  BY <1>2, <1>6 DEF LeaveOk, Leaving
<1>11. CountOk(st, fx.anims, fx.hooks)
  BY <1>4, <1>7, <1>10, BesideSame DEF Base
<1>12. CallerOk(st) /\ BottomOk(st)
  BY <1>2, <1>6 DEF CallerOk, BottomOk
<1>13. Base(t)
  BY <1>4, <1>7, <1>8, <1>9, <1>10, <1>11, <1>12 DEF Base, st
<1> QED BY <1>2, <1>3, <1>5, <1>13 DEF t, f, st

LEMMA BaseFxTick == ASSUME Base(fx), FxTick PROVE Base(fx')
<1>1. fx.stack = <<>> /\ Goes(Push(fx, TickStart))
  BY DEF FxTick, TickStart
<1> QED BY <1>1, FxTickIs, BaseGoes

\* What the tick of a timer is called with, and what it has returned.
TickFrame == [Top EXCEPT !.at = "fxticked", !.a = fx.timers[Top.i]]
LeftFrame == [Top EXCEPT !.at = "fxticked", !.a = fx.timers[Top.i], !.end = FALSE]

LEMMA TickFrameIs ==
    ASSUME Base(fx), fx.stack # <<>>, Top.at = "fxtick", Top.i <= Len(fx.timers),
           NEW f \in {TickFrame, LeftFrame}
    PROVE  /\ f \in FrameVars /\ f.at = "fxticked" /\ f.a = fx.timers[Top.i] /\ f.i = Top.i
           /\ f.a \in Anim /\ Started(fx.anims, f.a)
           /\ Top.i \in DOMAIN fx.timers /\ Len(fx.stack) = 1
           /\ f.todo = <<>> /\ FrameGoesOn(fx.anims, Top, f)
<1> DEFINE a == fx.timers[Top.i]
<1>1. Top \in FrameVars /\ Top.todo = <<>> /\ Top.i >= 1 /\ Len(fx.stack) = 1
  BY TopIs DEF Top, ElemFrames
<1>2. fx.timers \in Seq(Anim) /\ Top.i \in Nat
  BY <1>1, FxIs, FrameIs DEF Base
<1>3. Top.i \in DOMAIN fx.timers /\ a \in Anim
  BY <1>1, <1>2
<1>4. Started(fx.anims, a)
  BY <1>3 DEF Base, TimersOk
<1>5. PICK no : no = FALSE
  OBVIOUS
<1>6. f = [Top EXCEPT !.at = "fxticked", !.a = a] \/ f = [Top EXCEPT !.at = "fxticked", !.a = a, !.end = no]
  BY <1>5, Zenon DEF TickFrame, LeftFrame
<1> HIDE DEF a
<1>7. /\ f \in FrameVars /\ f.at = "fxticked" /\ f.a = a /\ f.i = Top.i /\ f.todo = <<>>
  BY <1>1, <1>3, <1>5, <1>6 DEF FrameVars, Places
<1>8. FrameGoesOn(fx.anims, Top, f)
  <2>1. f.at \in AnimFrames => f.a \in Anim /\ Started(fx.anims, f.a)
    BY <1>3, <1>4, <1>7
  <2> QED BY <1>1, <1>7, <2>1 DEF FrameGoesOn, ElemFrames
<1> QED BY <1>1, <1>3, <1>4, <1>7, <1>8 DEF a

LEMMA TickNextIs ==
    ASSUME Base(fx), fx.stack # <<>>, Top.at = "fxtick", Top.i <= Len(fx.timers)
    PROVE  LET called == GoTo(fx, TickFrame)
               left == GoTo(called, LeftFrame)
               step == Of("step", fx.timers[Top.i])
               ticks == Push(called, step)
           IN  /\ Stacked(fx, called) /\ Puts(fx.stack, TickFrame, called.stack)
               /\ Base(left) /\ Stacked(called, left) /\ Puts(called.stack, LeftFrame, left.stack)
               /\ Base(ticks) /\ Stacked(called, ticks) /\ Adds(called.stack, step, ticks.stack)
               /\ step.at = "step"
<1> DEFINE called == GoTo(fx, TickFrame) left == GoTo(called, LeftFrame)
           ticks == Push(called, Of("step", fx.timers[Top.i]))
<1>1. fx.stack # <<>> /\ Top.at = "fxtick" /\ Top.i <= Len(fx.timers)
  OBVIOUS
<1>2. /\ \A f \in {TickFrame, LeftFrame} :
           /\ f \in FrameVars /\ f.at = "fxticked" /\ f.a = fx.timers[Top.i]
           /\ f.a \in Anim /\ Started(fx.anims, f.a)
           /\ f.todo = <<>> /\ FrameGoesOn(fx.anims, Top, f)
  BY <1>1, TickFrameIs
<1>3. FrameGoesOn(fx.anims, TickFrame, LeftFrame)
  BY <1>2 DEF FrameGoesOn, ElemFrames
<1>4. /\ Base(called) /\ Stacked(fx, called) /\ Puts(fx.stack, TickFrame, called.stack)
  BY <1>1, <1>2, BaseGoTo DEF Top
<1>5. /\ called.anims = fx.anims /\ called.stack # <<>> /\ called.stack[Len(called.stack)] = TickFrame
      /\ called \in FxVars
  BY <1>4, EmptySeq, TopIs DEF Stacked, Puts
<1> HIDE DEF called
<1>6. Base(left) /\ Stacked(called, left) /\ Puts(called.stack, LeftFrame, left.stack)
  BY <1>3, <1>4, <1>5, BaseGoTo
<1>7. /\ Base(ticks) /\ Stacked(called, ticks)
      /\ Adds(called.stack, Of("step", fx.timers[Top.i]), ticks.stack)
      /\ Of("step", fx.timers[Top.i]).at = "step"
  <2> DEFINE a == fx.timers[Top.i] f == Of("step", a)
  <2>1. "step" \in AnimFrames /\ a \in Anim /\ Started(fx.anims, a) /\ TickFrame.at = "fxticked" /\ TickFrame.a = a
    BY <1>2 DEF AnimFrames
  <2> HIDE DEF a
  <2>2. f \in FrameVars /\ f.at = "step" /\ f.a = a /\ f.todo = <<>>
    BY <2>1, OfAnim
  <2> HIDE DEF f
  <2>3. FrameFits(called.stack, called.anims, f)
    BY <1>5, <2>1, <2>2 DEF FrameFits
  <2>4. Stacked(called, Push(called, f)) /\ Adds(called.stack, f, Push(called, f).stack)
    BY <1>5, <2>2, PushIs
  <2>5. Base(Push(called, f))
    BY <1>4, <2>3, <2>4, BaseAdds
  <2> QED BY <2>2, <2>4, <2>5 DEF f, a
<1> QED BY <1>4, <1>6, <1>7 DEF called

LEMMA BaseTickNext == ASSUME Base(fx), TickNext PROVE Base(fx')
<1> DEFINE called == GoTo(fx, TickFrame) left == GoTo(called, LeftFrame)
           ticks == Push(called, Of("step", fx.timers[Top.i]))
<1>1. /\ fx.stack # <<>> /\ Top.at = "fxtick" /\ Top.i <= Len(fx.timers)
      /\ Goes(left) \/ Goes(ticks)
  BY Zenon DEF TickNext, At, TickFrame, LeftFrame
<1>2. Base(left) /\ Base(ticks)
  BY <1>1, TickNextIs
<1> HIDE DEF left, ticks
<1> QED BY <1>1, <1>2, BaseGoes

LEMMA RemovedAre ==
    ASSUME NEW tm \in Seq(Anim), NEW n \in 1 .. Len(tm)
    PROVE  \A j \in DOMAIN RemoveAt(tm, n) : \E i \in DOMAIN tm : RemoveAt(tm, n)[j] = tm[i]
<1> DEFINE t == RemoveAt(tm, n)
<1>1. /\ t \in Seq(Anim) /\ Len(t) = Len(tm) - 1 /\ Len(tm) \in Nat
      /\ \A k \in 1 .. Len(tm) - 1 : t[k] = IF k < n THEN tm[k] ELSE tm[k + 1]
  BY RemoveAtIs
<1> HIDE DEF t
<1>2. SUFFICES ASSUME NEW j \in DOMAIN t PROVE \E i \in DOMAIN tm : t[j] = tm[i]
  BY DEF t
<1>3. j \in 1 .. Len(tm) - 1 /\ j \in DOMAIN tm /\ j + 1 \in DOMAIN tm
  BY <1>1
<1> QED BY <1>1, <1>3

\* The loop of fx.tick goes on, at the same position when it has removed a timer.
SameFrame == [Top EXCEPT !.at = "fxtick"]
NextFrame == [Top EXCEPT !.at = "fxtick", !.i = @ + 1]
LEMMA TickedFrames ==
    ASSUME Base(fx), fx.stack # <<>>, Top.at = "fxticked", NEW f \in {SameFrame, NextFrame}
    PROVE  /\ f \in FrameVars /\ f.at = "fxtick" /\ f.todo = <<>> /\ Top.i \in Nat /\ Top.i >= 1
           /\ f.i = IF f = SameFrame THEN Top.i ELSE Top.i + 1
           /\ FrameGoesOn(fx.anims, Top, f)
<1>1. Top \in FrameVars /\ Top.todo = <<>> /\ Top.i >= 1 /\ Top.i \in Nat
  BY TopIs, FrameIs DEF Top, ElemFrames
<1> DEFINE n == Top.i + 1
<1>2. n \in Nat /\ n >= 1
  BY <1>1
<1>3. f = [Top EXCEPT !.at = "fxtick"] \/ f = [Top EXCEPT !.at = "fxtick", !.i = n]
  BY DEF SameFrame, NextFrame
<1>4. SameFrame = [Top EXCEPT !.at = "fxtick"]
  BY DEF SameFrame
<1>5. f # SameFrame => f = [Top EXCEPT !.at = "fxtick", !.i = n]
  BY DEF SameFrame, NextFrame
<1> HIDE DEF n
<1>6. f \in FrameVars /\ f.at = "fxtick" /\ f.todo = <<>> /\ f.i \in {Top.i, n}
  BY <1>1, <1>2, <1>3 DEF FrameVars, Places
<1>7. f.i = IF f = SameFrame THEN Top.i ELSE n
  BY <1>1, <1>2, <1>4, <1>5 DEF FrameVars
<1>8. FrameGoesOn(fx.anims, Top, f)
  BY <1>1, <1>2, <1>6 DEF FrameGoesOn, AnimFrames, ElemFrames
<1> QED BY <1>1, <1>6, <1>7, <1>8 DEF n

RemovedOne == [fx EXCEPT !.timers = RemoveAt(fx.timers, Top.i)]

LEMMA TickedIs ==
    ASSUME Base(fx), fx.stack # <<>>, Top.at = "fxticked"
    PROVE  /\ Base(GoTo(fx, NextFrame)) /\ Stacked(fx, GoTo(fx, NextFrame))
           /\ Puts(fx.stack, NextFrame, GoTo(fx, NextFrame).stack)
           /\ Top.i \in Nat /\ Top.i >= 1
           /\ Top.i <= Len(fx.timers) =>
                /\ Timed(fx, RemovedOne) /\ RemovedOne.timerId = fx.timerId
                /\ RemovedOne.timers = RemoveAt(fx.timers, Top.i)
                /\ Base(GoTo(RemovedOne, SameFrame)) /\ Stacked(RemovedOne, GoTo(RemovedOne, SameFrame))
                /\ Puts(fx.stack, SameFrame, GoTo(RemovedOne, SameFrame).stack)
<1>1. fx.stack # <<>> /\ Top.at = "fxticked"
  OBVIOUS
<1>2. /\ FrameGoesOn(fx.anims, Top, SameFrame) /\ FrameGoesOn(fx.anims, Top, NextFrame)
      /\ Top.i \in Nat /\ Top.i >= 1
  BY <1>1, TickedFrames
<1>3. /\ Base(GoTo(fx, NextFrame)) /\ Stacked(fx, GoTo(fx, NextFrame))
      /\ Puts(fx.stack, NextFrame, GoTo(fx, NextFrame).stack)
  BY <1>1, <1>2, BaseGoTo DEF Top
<1>4. ASSUME Top.i <= Len(fx.timers)
      PROVE  /\ Timed(fx, RemovedOne) /\ RemovedOne.timerId = fx.timerId
             /\ RemovedOne.timers = RemoveAt(fx.timers, Top.i)
             /\ Base(GoTo(RemovedOne, SameFrame)) /\ Stacked(RemovedOne, GoTo(RemovedOne, SameFrame))
             /\ Puts(fx.stack, SameFrame, GoTo(RemovedOne, SameFrame).stack)
  <2> DEFINE tm == RemoveAt(fx.timers, Top.i) u == RemovedOne
  <2>1. fx \in FxVars /\ fx.timers \in Seq(Anim) /\ Top.i \in 1 .. Len(fx.timers)
    BY <1>2, <1>4, FxIs DEF Base
  <2>2. tm \in Seq(Anim) /\ \A j \in DOMAIN tm : \E i \in DOMAIN fx.timers : tm[j] = fx.timers[i]
    BY <2>1, RemoveAtIs, RemovedAre
  <2>3. u = [fx EXCEPT !.timers = tm]
    BY DEF RemovedOne
  <2> HIDE DEF tm, u
  <2>4. Timed(fx, u) /\ u.timers = tm /\ u.timerId = fx.timerId
    BY <2>1, <2>2, <2>3, TimersAre
  <2>5. Base(u)
    BY <2>2, <2>4, BaseTimed
  <2>6. u.stack = fx.stack /\ u.anims = fx.anims
    BY <2>4 DEF Timed
  <2>7. FrameGoesOn(u.anims, u.stack[Len(u.stack)], SameFrame)
    BY <1>2, <2>6 DEF Top
  <2>8. Base(GoTo(u, SameFrame)) /\ Stacked(u, GoTo(u, SameFrame)) /\ Puts(u.stack, SameFrame, GoTo(u, SameFrame).stack)
    BY <1>1, <2>5, <2>6, <2>7, BaseGoTo
  <2> QED BY <2>4, <2>6, <2>8 DEF u, tm
<1> QED BY <1>2, <1>3, <1>4

LEMMA BaseTicked == ASSUME Base(fx), Ticked PROVE Base(fx')
<1>1. /\ fx.stack # <<>> /\ Top.at = "fxticked"
      /\ \/ Top.i <= Len(fx.timers) /\ Goes(GoTo(RemovedOne, SameFrame))
         \/ Goes(GoTo(fx, NextFrame))
  BY Zenon DEF Ticked, At, RemovedOne, SameFrame, NextFrame
<1> QED BY <1>1, TickedIs, BaseGoes

LEMMA BaseTickEnds == ASSUME Base(fx), TickEnds PROVE Base(fx')
<1>1. PICK id \in BOOLEAN : id = (fx.timers # <<>>)
  OBVIOUS
<1> DEFINE s == Pop(fx) t == [s EXCEPT !.timerId = id]
<1>2. fx.stack # <<>> /\ Goes(t)
  BY <1>1 DEF TickEnds, At
<1>3. Base(s)
  BY <1>2, BasePop
<1> HIDE DEF s
<1>4. Timed(s, t) /\ t.timers = s.timers
  BY <1>3, IntervalIs DEF Base
<1> HIDE DEF t
<1>5. Base(t)
  BY <1>3, <1>4, BaseTimed
<1> QED BY <1>2, <1>5, BaseGoes
-----------------------------------------------------------------------------
\* The calls of the program.
LEMMA BaseCall == ASSUME NEW s, NEW kinds, Base(s), Call(s, kinds) PROVE Base(fx')
BY SweepIs, BaseSweeps DEF Call, Base

LEMMA BaseEmptied == ASSUME NEW s, NEW e \in Elem, Base(s) PROVE Base(QueueSet(s, e, <<>>))
<1> DEFINE t == QueueSet(s, e, <<>>)
<1>1. PICK none : none = <<>>
  OBVIOUS
<1>2. s \in FxVars /\ none \in Entries
  BY <1>1, EmptySeq DEF Base, Entries
<1>3. t = QueueSet(s, e, none)
  BY <1>1
<1> HIDE DEF t
<1>4. Requeued(s, e, none, t)
  BY <1>2, <1>3, QueueSetIs
<1>5. Thinner(s.queue[e], none)
  BY <1>1 DEF Thinner, Once, HeadOnly
<1>6. CountOk(s.stack, s.anims, t.hooks)
  BY <1>4 DEF Requeued, Base
<1>7. Base(t)
  BY <1>4, <1>5, <1>6, BaseRearranged DEF Requeued
<1> QED BY <1>7 DEF t

LEMMA BaseClearQueue == ASSUME NEW e \in Elem, Base(fx), ClearQueue(e) PROVE Base(fx')
<1>1. <<>> \in Entries
  BY EmptySeq DEF Entries
<1>2. Base(Queue(fx, e, <<>>))
  BY <1>1, BaseEmptied, BaseQueues
<1> QED BY <1>2, BaseCall DEF ClearQueue

StopFrame(e, end) == [User EXCEPT !.at = "stop", !.a = e, !.end = end]

LEMMA StopFrameIs ==
    ASSUME NEW e \in Elem, NEW end \in BOOLEAN
    PROVE  LET f == StopFrame(e, end) IN
           f \in FrameVars /\ f.at = "stop" /\ f.a = e /\ f.end = end /\ f.todo = <<>> /\ f.dequeue = TRUE
<1>1. PICK u : u = User
  OBVIOUS
<1>2. u \in FrameVars /\ u.todo = <<>> /\ u.dequeue = TRUE
  BY <1>1, UserIs
<1>3. StopFrame(e, end) = [u EXCEPT !.at = "stop", !.a = e, !.end = end]
  BY <1>1, Zenon DEF StopFrame
<1> QED BY <1>2, <1>3 DEF FrameVars, Places

LEMMA BaseStop ==
    ASSUME NEW e \in Elem, NEW clear \in BOOLEAN, NEW end \in BOOLEAN, Base(fx), Stop(e, clear, end)
    PROVE  Base(fx')
<1> DEFINE f == StopFrame(e, end) t == Push(fx, f)
<1>1. (\E kinds : Call(Queue(t, e, <<>>), kinds)) \/ (\E kinds : Call(t, kinds))
  <2>1. PICK kinds : Call(IF clear THEN Queue(t, e, <<>>) ELSE t, kinds)
    BY Zenon DEF Stop, StopFrame
  <2> HIDE DEF t
  <2> QED BY <2>1
<1>2. f \in FrameVars /\ f.at = "stop" /\ f.a = e /\ f.todo = <<>>
  BY StopFrameIs
<1> HIDE DEF f
<1>3. FrameFits(fx.stack, fx.anims, f)
  BY <1>2 DEF FrameFits, AnimFrames
<1>4. Base(t)
  BY <1>2, <1>3, PushIs, BaseAdds DEF Base
<1> HIDE DEF t
<1>5. <<>> \in Entries
  BY EmptySeq DEF Entries
<1>6. Base(Queue(t, e, <<>>))
  BY <1>4, <1>5, BaseEmptied, BaseQueues
<1> QED BY <1>1, <1>4, <1>6, BaseCall

MoreWaiting(s, e) == [s EXCEPT !.hooks[e].waiting = @ + 1]

LEMMA MoreIs ==
    ASSUME NEW s \in FxVars, NEW e \in Elem
    PROVE  LET t == MoreWaiting(s, e) IN
           /\ Rearranged(s, t) /\ t.queue = s.queue /\ OnlyAt(s, e, t)
           /\ t.hooks[e].waiting = s.hooks[e].waiting + 1
           /\ \A d \in Elem : t.hooks[d].unqueued = s.hooks[d].unqueued
<1> DEFINE n == s.hooks[e].waiting + 1
           y == [s.hooks[e] EXCEPT !.waiting = n]
           x == [s.hooks EXCEPT ![e] = y]
<1>1. s.hooks \in [Elem -> HookVars] /\ s.hooks[e] \in HookVars
  BY FxIs
<1>2. n \in Nat
  BY <1>1 DEF HookVars
<1>3. MoreWaiting(s, e) = [s EXCEPT !.hooks = x]
  BY Zenon DEF MoreWaiting
<1> HIDE DEF n
<1>4. y \in HookVars /\ y.unqueued = s.hooks[e].unqueued /\ y.waiting = n
  BY <1>1, <1>2 DEF HookVars
<1> HIDE DEF y
<1>5. /\ x \in [Elem -> HookVars] /\ \A d \in Elem : x[d].unqueued = s.hooks[d].unqueued
      /\ x[e].waiting = n /\ \A d \in Elem : d # e => x[d] = s.hooks[d]
  BY <1>1, <1>4
<1> HIDE DEF x
<1> DEFINE t == [s EXCEPT !.hooks = x]
<1>6. Rearranged(s, t) /\ t.queue = s.queue /\ t.hooks = x
  BY <1>5 DEF FxVars, Rearranged
<1> HIDE DEF t
<1>7. OnlyAt(s, e, t)
  BY <1>5, <1>6 DEF OnlyAt
<1> QED BY <1>3, <1>5, <1>6, <1>7 DEF t, n

LEMMA BasePromise == ASSUME NEW e \in Elem, Base(fx), Promise(e) PROVE Base(fx')
<1> DEFINE t == MoreWaiting(fx, e)
<1>1. \E kinds : Call(t, kinds)
  BY Zenon DEF Promise, MoreWaiting
<1>2. /\ Rearranged(fx, t) /\ t.queue = fx.queue
      /\ \A d \in Elem : t.hooks[d].unqueued = fx.hooks[d].unqueued
  BY MoreIs DEF Base
<1> HIDE DEF t
<1>3. CountOk(fx.stack, fx.anims, t.hooks)
  BY <1>2 DEF Base, CountOk
<1>4. Base(t)
  BY <1>2, <1>3, BaseRearranged
<1> QED BY <1>1, <1>4, BaseCall

\* finish takes the queue with it.
OldQueue(e) == <<InProgress>> \o fx.queue[e]
FinishCall(e) == [User EXCEPT !.at = "stop", !.a = e, !.end = TRUE, !.todo = OldQueue(e)]

LEMMA OldQueueIs ==
    ASSUME NEW e \in Elem, Base(fx)
    PROVE  LET p == OldQueue(e) q == fx.queue[e] IN
           /\ q \in Entries /\ p \in Entries /\ p # <<>>
           /\ \A i \in DOMAIN p : i > 1 => i - 1 \in DOMAIN q /\ i - 1 > 0 /\ p[i] = q[i - 1]
           /\ Once(p, 1) /\ AllWait(p, 1, fx.anims, e)
           /\ LET f == FinishCall(e) IN
              f \in FrameVars /\ f.at = "stop" /\ f.a = e /\ f.end = TRUE /\ f.todo = p /\ f.dequeue = TRUE
<1> DEFINE p == OldQueue(e) q == fx.queue[e] f == FinishCall(e)
<1>1. q \in Seq(Anim \cup {InProgress}) /\ Once(q, 0) /\ AllWait(q, 0, fx.anims, e)
  BY FxIs DEF Base, QueueOk, Entries
<1> HIDE DEF q
<1>2. PICK zero : zero = InProgress
  OBVIOUS
<1> DEFINE z == <<zero>>
<1>3. z \in Seq(Anim \cup {InProgress}) /\ Len(z) = 1
  BY <1>2
<1> HIDE DEF z
<1>4. p = z \o q
  BY <1>2 DEF OldQueue, z, q
<1>5. /\ p \in Seq(Anim \cup {InProgress}) /\ Len(p) = 1 + Len(q)
      /\ \A i \in 1 .. 1 + Len(q) : p[i] = IF i <= 1 THEN z[i] ELSE q[i - 1]
  <2>1. /\ z \o q \in Seq(Anim \cup {InProgress}) /\ Len(z \o q) = Len(z) + Len(q)
        /\ \A i \in 1 .. Len(z) + Len(q) : (z \o q)[i] = IF i <= Len(z) THEN z[i] ELSE q[i - Len(z)]
    BY <1>1, <1>3, ConcatProperties
  <2> HIDE DEF p
  <2> QED BY <1>3, <1>4, <2>1
<1> HIDE DEF p
<1>6. \A i \in DOMAIN p : i > 1 => i - 1 \in DOMAIN q /\ i - 1 > 0 /\ p[i] = q[i - 1] /\ i \in Nat
  BY <1>1, <1>5
<1>7. Once(p, 1)
  <2> SUFFICES ASSUME NEW j \in DOMAIN p, NEW k \in DOMAIN p, j > 1, k > 1, p[j] = p[k], p[j] # InProgress
               PROVE  j = k
    BY DEF Once
  <2>1. j - 1 = k - 1 /\ j \in Nat /\ k \in Nat
    BY <1>1, <1>6 DEF Once
  <2> QED BY <2>1
<1>8. AllWait(p, 1, fx.anims, e)
  BY <1>1, <1>6 DEF AllWait
<1>9. p # <<>>
  BY <1>1, <1>5
<1>10. PICK u, yes : u = User /\ yes = TRUE
  OBVIOUS
<1>11. u \in FrameVars /\ u.dequeue = TRUE /\ yes \in BOOLEAN
  BY <1>10, UserIs
<1>12. f = [u EXCEPT !.at = "stop", !.a = e, !.end = yes, !.todo = p]
  BY <1>10, Zenon DEF FinishCall, p
<1>13. p \in Entries /\ q \in Entries
  BY <1>1, <1>5 DEF Entries
<1> HIDE DEF f
<1>14. f \in FrameVars /\ f.at = "stop" /\ f.a = e /\ f.end = yes /\ f.todo = p /\ f.dequeue = TRUE
  BY <1>11, <1>12, <1>13 DEF FrameVars, Places
<1> QED BY <1>6, <1>7, <1>8, <1>9, <1>10, <1>13, <1>14 DEF p, q, f

FinishStart(e) == QueueSet(FinishSet(fx, e, TRUE), e, <<>>)

LEMMA FinishStarts ==
    ASSUME NEW e \in Elem, Base(fx)
    PROVE  LET v == FinishStart(e) f == FinishCall(e) t == Push(v, f) IN
           /\ Base(v) /\ v.anims = fx.anims /\ v.stack = fx.stack
           /\ v.timers = fx.timers /\ v.timerId = fx.timerId
           /\ Base(t) /\ Stacked(v, t) /\ Adds(fx.stack, f, t.stack) /\ f.at = "stop"
<1> DEFINE f == FinishCall(e) p == OldQueue(e) q == fx.queue[e]
           u == FinishSet(fx, e, TRUE) v == QueueSet(u, e, <<>>) t == Push(v, f)
           stk == fx.stack st == t.stack an == fx.anims qt == v.queue
<1>1. v = FinishStart(e)
  BY DEF FinishStart
<1>2. /\ q \in Entries /\ p \in Entries
      /\ \A i \in DOMAIN p : i > 1 => i - 1 \in DOMAIN q /\ i - 1 > 0 /\ p[i] = q[i - 1]
      /\ Once(p, 1) /\ AllWait(p, 1, an, e)
      /\ f \in FrameVars /\ f.at = "stop" /\ f.a = e /\ f.todo = p
  BY OldQueueIs
<1>3. Base(u) /\ Flagged(fx, u)
  <2>1. Flagged(fx, u)
    <3>1. PICK yes \in BOOLEAN : yes = TRUE
      OBVIOUS
    <3> QED BY <3>1, FinishSetIs DEF Base
  <2> QED BY <2>1, BaseFlagged
<1>4. Base(v)
  BY <1>3, BaseEmptied
<1>5. /\ v.anims = an /\ v.stack = stk /\ v.hooks = fx.hooks /\ qt[e] = <<>>
      /\ v.timers = fx.timers /\ v.timerId = fx.timerId
      /\ v \in FxVars
  <2>1. <<>> \in Entries
    BY EmptySeq DEF Entries
  <2>2. Requeued(u, e, <<>>, v)
    BY <1>3, <2>1, QueueSetIs DEF Flagged
  <2> QED BY <1>3, <2>2 DEF Requeued, Rearranged, Flagged
<1> HIDE DEF u, v, f, p
<1>6. Stacked(v, t) /\ Adds(stk, f, st)
  BY <1>2, <1>5, PushIs
<1>7. /\ t \in FxVars /\ t.anims = an /\ t.queue = qt /\ t.timers = v.timers /\ t.hooks = v.hooks
  BY <1>5, <1>6 DEF Stacked
<1>8. stk \in Seq(FrameVars) /\ st \in Seq(FrameVars) /\ Len(st) = Len(stk) + 1 /\ Len(stk) \in Nat
  BY <1>6, FxIs DEF Base, Adds
<1>9. \A k \in DOMAIN st : \/ k \in DOMAIN stk /\ st[k] = stk[k]
                           \/ k \notin DOMAIN stk /\ k = Len(stk) + 1 /\ st[k] = f
  BY <1>6, <1>8 DEF Adds
<1>10. \A k \in DOMAIN stk : k \in DOMAIN st /\ st[k] = stk[k]
  BY <1>6, <1>8 DEF Adds
<1>11. /\ FramesOk(stk, an) /\ LeaveOk(stk, an) /\ CountOk(stk, an, v.hooks) /\ CallerOk(stk)
       /\ BottomOk(stk) /\ TodoOk(stk, qt, an) /\ v.hooks \in [Elem -> HookVars]
  BY <1>4, <1>5, FxIs DEF Base
<1>12. FramesOk(stk, an) /\ TodoOk(stk, fx.queue, an) /\ QueueOk(fx.queue, an)
  BY DEF Base
<1> HIDE DEF t, stk, st, an, qt, q
<1>13. FramesOk(st, an)
  BY <1>2, <1>9, <1>12 DEF FramesOk, AnimFrames, ElemFrames
<1>14. \A k \in DOMAIN stk : Apart(p, 1, stk[k].todo, 1) /\ Apart(stk[k].todo, 1, p, 1)
  <2> SUFFICES ASSUME NEW k \in DOMAIN stk, NEW i \in DOMAIN p, NEW j \in DOMAIN stk[k].todo,
                      i > 1, j > 1, p[i] = stk[k].todo[j], p[i] # InProgress
               PROVE  FALSE
    BY DEF Apart
  <2>1. Waits(an, p[i], e) /\ Waits(an, stk[k].todo[j], stk[k].a)
    BY <1>2, <1>12 DEF AllWait, TodoOk
  <2>2. e = stk[k].a
    BY <2>1 DEF Waits
  <2>3. stk[k].at \in ElemFrames
    BY <1>12, EmptySeq DEF FramesOk
  <2>4. Apart(stk[k].todo, 1, q, 0)
    BY <1>12, <2>2, <2>3 DEF TodoOk, q
  <2>5. i - 1 \in DOMAIN q /\ i - 1 > 0 /\ p[i] = q[i - 1]
    BY <1>2
  <2> QED BY <2>4, <2>5 DEF Apart
<1>15. TodoOk(st, qt, an)
  <2> SUFFICES ASSUME NEW k \in DOMAIN st
               PROVE  /\ Once(st[k].todo, 1)
                      /\ AllWait(st[k].todo, 1, an, st[k].a)
                      /\ st[k].at \in ElemFrames => Apart(st[k].todo, 1, qt[st[k].a], 0)
                      /\ \A l \in DOMAIN st : l # k => Apart(st[k].todo, 1, st[l].todo, 1)
    BY DEF TodoOk
  <2>1. CASE k \in DOMAIN stk /\ st[k] = stk[k]
    <3>1. /\ Once(stk[k].todo, 1) /\ AllWait(stk[k].todo, 1, an, stk[k].a)
          /\ stk[k].at \in ElemFrames => Apart(stk[k].todo, 1, qt[stk[k].a], 0)
          /\ \A l \in DOMAIN stk : l # k => Apart(stk[k].todo, 1, stk[l].todo, 1)
      BY <1>11, <2>1 DEF TodoOk
    <3>2. \A l \in DOMAIN st : l # k => Apart(stk[k].todo, 1, st[l].todo, 1)
      BY <1>2, <1>9, <1>14, <2>1, <3>1
    <3> QED BY <2>1, <3>1, <3>2
  <2>2. CASE k \notin DOMAIN stk /\ k = Len(stk) + 1 /\ st[k] = f
    <3>1. Apart(p, 1, <<>>, 0)
      BY DEF Apart
    <3>2. \A l \in DOMAIN st : l # k => l \in DOMAIN stk /\ st[l] = stk[l]
      BY <1>9, <2>2
    <3> QED BY <1>2, <1>5, <1>14, <2>2, <3>1, <3>2
  <2> QED BY <1>9, <2>1, <2>2
<1>16. LeaveOk(st, an)
  BY <1>2, <1>9, <1>11 DEF LeaveOk
<1>17. CountOk(st, an, v.hooks)
  <2>1. \A a \in Anim : Leaving(st, a) => Leaving(stk, a)
    BY <1>2, <1>9 DEF Leaving
  <2> QED BY <1>11, <2>1, BesideSame
<1>18. CallerOk(st)
  <2> SUFFICES ASSUME NEW k \in DOMAIN st, st[k].at \in {"step", "ended"}
               PROVE  k > 1 /\ st[k - 1].at \in {"timer", "fxticked"} /\ st[k - 1].a = st[k].a
    BY DEF CallerOk
  <2>1. k \in DOMAIN stk /\ st[k] = stk[k]
    BY <1>2, <1>9
  <2>2. k > 1 /\ stk[k - 1].at \in {"timer", "fxticked"} /\ stk[k - 1].a = stk[k].a
    BY <1>11, <2>1 DEF CallerOk
  <2>3. k - 1 \in DOMAIN stk
    BY <1>8, <2>1, <2>2
  <2> QED BY <1>10, <2>1, <2>2, <2>3
<1>19. BottomOk(st)
  BY <1>2, <1>9, <1>11 DEF BottomOk
<1>20. Base(t)
  BY <1>4, <1>5, <1>7, <1>13, <1>15, <1>16, <1>17, <1>18, <1>19 DEF Base, st, qt
<1> QED BY <1>1, <1>2, <1>4, <1>5, <1>6, <1>20 DEF t, stk, st, an, f

LEMMA FinishIsCall ==
    ASSUME NEW e \in Elem, Finish(e)
    PROVE  Call(Push(FinishStart(e), FinishCall(e)), Odd(Elem) \cup OddStop(e))
<1>1. FinishStart(e) = [fx EXCEPT !.finish[e] = TRUE, !.queue[e] = <<>>]
  BY Zenon DEF FinishSet, QueueSet, FinishStart
<1> QED BY <1>1, Zenon DEF Finish, FinishCall, OldQueue

LEMMA BaseFinish == ASSUME NEW e \in Elem, Base(fx), Finish(e) PROVE Base(fx')
BY FinishStarts, FinishIsCall, BaseCall

\* A new animation, of no queue yet.
NewAnim(e, queued, zero) ==
    [NotMade EXCEPT !.of = e, !.queued = queued, !.zero = zero, !.state = "queued"]
NewOne(s, a, e, queued, zero) == [s EXCEPT !.anims[a] = NewAnim(e, queued, zero)]

LEMMA NewIs ==
    ASSUME NEW s \in FxVars, NEW a \in Anim, NEW e \in Elem, NEW queued \in BOOLEAN, NEW zero \in BOOLEAN,
           NEW t, t = NewOne(s, a, e, queued, zero)
    PROVE  /\ Animated(s, t)
           /\ t.anims[a].of = e /\ t.anims[a].queued = queued /\ t.anims[a].zero = zero
           /\ t.anims[a].state = "queued" /\ ~t.anims[a].attached /\ ~t.anims[a].stopped /\ ~t.anims[a].elem
           /\ \A b \in Anim : b # a => t.anims[b] = s.anims[b]
<1>1. PICK u : u = NotMade
  OBVIOUS
<1>2. u \in AnimVars /\ ~u.stopped /\ ~u.attached /\ ~u.elem
  BY <1>1, NotMadeIs
<1> DEFINE y == [u EXCEPT !.of = e, !.queued = queued, !.zero = zero, !.state = "queued"]
           x == [s.anims EXCEPT ![a] = y]
<1>3. t = [s EXCEPT !.anims = x]
  BY <1>1, Zenon DEF NewOne, NewAnim
<1>4. y \in AnimVars /\ y.of = e /\ y.queued = queued /\ y.zero = zero /\ y.state = "queued"
      /\ y.stopped = u.stopped /\ y.attached = u.attached /\ y.elem = u.elem
  BY <1>2 DEF AnimVars, States
<1> HIDE DEF y
<1>5. s.anims \in [Anim -> AnimVars]
  BY FxIs
<1>6. x \in [Anim -> AnimVars] /\ x[a] = y /\ \A b \in Anim : b # a => x[b] = s.anims[b]
  BY <1>4, <1>5
<1> HIDE DEF x
<1>7. Animated(s, t) /\ t.anims = x
  BY <1>3, <1>6, AnimsIs
<1> QED BY <1>2, <1>4, <1>6, <1>7

LEMMA BaseNew ==
    ASSUME NEW s, NEW a \in Anim, NEW e \in Elem, NEW queued \in BOOLEAN, NEW zero \in BOOLEAN,
           Base(s), s.anims[a].state = "new", NEW t, t = NewOne(s, a, e, queued, zero)
    PROVE  /\ Base(t)
           /\ \A d \in Elem : \A j \in DOMAIN s.queue[d] : s.queue[d][j] # a
           /\ \A k \in DOMAIN s.stack : \A j \in DOMAIN s.stack[k].todo : j > 1 => s.stack[k].todo[j] # a
<1> DEFINE an == s.anims am == t.anims stk == s.stack
<1>1. /\ s \in FxVars /\ FramesOk(stk, an) /\ TimersOk(s.timers, an) /\ AnimsOk(an)
      /\ QueueOk(s.queue, an) /\ TodoOk(stk, s.queue, an) /\ LeaveOk(stk, an)
      /\ CountOk(stk, an, s.hooks) /\ CallerOk(stk) /\ BottomOk(stk)
  BY DEF Base
<1>2. /\ Animated(s, t)
      /\ am[a].of = e /\ am[a].queued = queued /\ am[a].state = "queued"
      /\ ~am[a].attached /\ ~am[a].stopped
      /\ \A b \in Anim : b # a => am[b] = an[b]
  BY <1>1, NewIs
<1>3. /\ t \in FxVars /\ t.timers = s.timers /\ t.queue = s.queue /\ t.hooks = s.hooks /\ t.stack = stk
      /\ s.hooks \in [Elem -> HookVars] /\ s.queue \in [Elem -> Entries] /\ s.timers \in Seq(Anim)
      /\ stk \in Seq(FrameVars)
  BY <1>1, <1>2, FxIs DEF Animated
<1>4. an[a].state = "new" /\ a # InProgress
  BY EffectsAssumption DEF Anim, InProgress
<1> HIDE DEF an, am, stk
<1>5. \A d \in Elem : \A j \in DOMAIN s.queue[d] : s.queue[d][j] # a
  <2> SUFFICES ASSUME NEW d \in Elem, NEW j \in DOMAIN s.queue[d], s.queue[d][j] = a PROVE FALSE
    OBVIOUS
  <2>1. AllWait(s.queue[d], 0, an, d) /\ j > 0
    BY <1>1, <1>3 DEF QueueOk, Entries
  <2> QED BY <1>4, <2>1 DEF AllWait, Waits
<1>6. \A k \in DOMAIN stk : \A j \in DOMAIN stk[k].todo : j > 1 => stk[k].todo[j] # a
  <2> SUFFICES ASSUME NEW k \in DOMAIN stk, NEW j \in DOMAIN stk[k].todo, j > 1, stk[k].todo[j] = a
               PROVE  FALSE
    OBVIOUS
  <2>1. AllWait(stk[k].todo, 1, an, stk[k].a)
    BY <1>1 DEF TodoOk
  <2> QED BY <1>4, <2>1 DEF AllWait, Waits
<1>7. \A k \in DOMAIN stk : \A j \in DOMAIN stk[k].todo : stk[k].todo[j] \in Anim \cup {InProgress}
  BY <1>3, FrameIs DEF Entries
<1>8. \A d \in Elem : \A j \in DOMAIN s.queue[d] : s.queue[d][j] \in Anim \cup {InProgress}
  BY <1>3 DEF Entries
<1>9. \A b \in Anim : Started(an, b) => b # a /\ am[b] = an[b]
  BY <1>2, <1>4 DEF Started
<1>10. FramesOk(stk, am)
  BY <1>1, <1>9 DEF FramesOk, Started
<1>11. TimersOk(s.timers, am)
  BY <1>1, <1>3, <1>9 DEF TimersOk, Started
<1>12. AnimsOk(am)
  BY <1>1, <1>2 DEF AnimsOk
<1>13. QueueOk(s.queue, am)
  <2> SUFFICES ASSUME NEW d \in Elem PROVE AllWait(s.queue[d], 0, am, d)
    BY <1>1 DEF QueueOk
  <2>1. AllWait(s.queue[d], 0, an, d)
    BY <1>1 DEF QueueOk
  <2> QED BY <1>2, <1>5, <1>8, <2>1 DEF AllWait, Waits
<1>14. TodoOk(stk, s.queue, am)
  <2>1. \A k \in DOMAIN stk : AllWait(stk[k].todo, 1, am, stk[k].a)
    BY <1>1, <1>2, <1>6, <1>7 DEF TodoOk, AllWait, Waits
  <2> QED BY <1>1, <2>1 DEF TodoOk
<1>15. \A k \in DOMAIN stk : stk[k].at = "unqueue" => stk[k].a \in Anim /\ Started(an, stk[k].a)
  BY <1>1 DEF FramesOk, AnimFrames
<1>16. LeaveOk(stk, am)
  BY <1>1, <1>9, <1>15 DEF LeaveOk
<1>17. CountOk(stk, am, s.hooks)
  <2> SUFFICES ASSUME NEW d \in Elem PROVE s.hooks[d].unqueued >= Cardinality(Beside(stk, am, d))
    BY DEF CountOk
  <2>1. ~Leaving(stk, a)
    BY <1>4, <1>15 DEF Leaving, Started
  <2>2. Beside(stk, am, d) \subseteq Beside(stk, an, d)
    BY <1>2, <2>1 DEF Beside
  <2>3. /\ Cardinality(Beside(stk, am, d)) \in Nat /\ Cardinality(Beside(stk, an, d)) \in Nat
        /\ Cardinality(Beside(stk, am, d)) <= Cardinality(Beside(stk, an, d))
    BY <2>2, BesideFinite, FS_Subset, FS_CardinalityType
  <2>4. s.hooks[d].unqueued >= Cardinality(Beside(stk, an, d)) /\ s.hooks[d].unqueued \in Int
    BY <1>1, <1>3 DEF CountOk, HookVars
  <2> QED BY <2>3, <2>4
<1>18. Base(t)
  BY <1>1, <1>3, <1>10, <1>11, <1>12, <1>13, <1>14, <1>16, <1>17 DEF Base, am
<1> QED BY <1>5, <1>6, <1>18 DEF stk

\* An animation is put at the end of a queue.
LEMMA BaseLonger ==
    ASSUME NEW s, NEW a \in Anim, NEW e \in Elem, Base(s),
           s.anims[a].state = "queued", s.anims[a].queued, s.anims[a].of = e,
           \A j \in DOMAIN s.queue[e] : s.queue[e][j] # a,
           \A k \in DOMAIN s.stack : \A j \in DOMAIN s.stack[k].todo : j > 1 => s.stack[k].todo[j] # a,
           NEW q, q = Append(s.queue[e], a)
    PROVE  q \in Entries /\ Base(QueueSet(s, e, q))
<1> DEFINE p == s.queue[e] t == QueueSet(s, e, q) an == s.anims stk == s.stack
<1>1. /\ s \in FxVars /\ FramesOk(stk, an) /\ QueueOk(s.queue, an) /\ TodoOk(stk, s.queue, an)
      /\ p \in Entries
  BY FxIs DEF Base
<1>2. a # InProgress
  BY DEF Anim, InProgress
<1>3. /\ q \in Entries /\ Len(q) = Len(p) + 1 /\ Len(p) \in Nat
      /\ \A j \in DOMAIN q : j \in Nat /\ ((j \in DOMAIN p /\ q[j] = p[j]) \/ (j = Len(p) + 1 /\ q[j] = a))
  BY <1>1 DEF Entries
<1>4. Requeued(s, e, q, t)
  BY <1>1, <1>3, QueueSetIs
<1> HIDE DEF t
<1>5. /\ t \in FxVars /\ t.timers = s.timers /\ t.anims = an /\ t.stack = stk /\ t.hooks = s.hooks
      /\ t.queue[e] = q /\ \A d \in Elem : d # e => t.queue[d] = s.queue[d]
  BY <1>4 DEF Requeued, Rearranged
<1>6. Waits(an, a, e) /\ \A j \in DOMAIN p : p[j] # a
  BY DEF Waits
<1>7. \A k \in DOMAIN stk : \A j \in DOMAIN stk[k].todo : j > 1 => stk[k].todo[j] # a
  OBVIOUS
<1>8. Once(p, 0) /\ HeadOnly(p) /\ AllWait(p, 0, an, e)
  BY <1>1 DEF QueueOk
<1> HIDE DEF p, an, stk
<1>9. Once(q, 0) /\ HeadOnly(q) /\ AllWait(q, 0, an, e)
  <2>1. Once(q, 0)
    <3> SUFFICES ASSUME NEW j \in DOMAIN q, NEW k \in DOMAIN q, j > 0, k > 0, q[j] = q[k], q[j] # InProgress
                 PROVE  j = k
      BY DEF Once
    <3> QED BY <1>3, <1>6, <1>8 DEF Once
  <2>2. HeadOnly(q)
    BY <1>2, <1>3, <1>8 DEF HeadOnly
  <2>3. AllWait(q, 0, an, e)
    BY <1>3, <1>6, <1>8 DEF AllWait
  <2> QED BY <2>1, <2>2, <2>3
<1>10. QueueOk(t.queue, an)
  BY <1>1, <1>5, <1>9 DEF QueueOk
<1>11. TodoOk(stk, t.queue, an)
  <2> SUFFICES ASSUME NEW k \in DOMAIN stk, stk[k].at \in ElemFrames
               PROVE  Apart(stk[k].todo, 1, t.queue[stk[k].a], 0)
    BY <1>1 DEF TodoOk
  <2>1. Apart(stk[k].todo, 1, s.queue[stk[k].a], 0) /\ stk[k].a \in Elem
    BY <1>1 DEF TodoOk, FramesOk
  <2>2. CASE stk[k].a # e
    BY <1>5, <2>1, <2>2
  <2>3. CASE stk[k].a = e
    <3>1. Apart(stk[k].todo, 1, p, 0) /\ \A j \in DOMAIN p : j > 0
      BY <1>1, <2>1, <2>3 DEF p, Entries
    <3>2. Apart(stk[k].todo, 1, q, 0)
      BY <1>3, <1>7, <3>1 DEF Apart
    <3> QED BY <1>5, <2>3, <3>2
  <2> QED BY <2>2, <2>3
<1>12. Base(t)
  BY <1>5, <1>10, <1>11 DEF Base, an, stk
<1> QED BY <1>3, <1>12 DEF t

LEMMA BaseAnimate ==
    ASSUME NEW a \in Anim, NEW e \in Elem, NEW queued \in BOOLEAN, NEW zero \in BOOLEAN,
           Base(fx), Animate(a, e, queued, zero)
    PROVE  Base(fx')
<1> DEFINE made == NewOne(fx, a, e, queued, zero) q == Append(fx.queue[e], a)
<1>1. /\ fx.anims[a].state = "new"
      /\ \/ queued /\ \E kinds : Call(Queue(made, e, q), kinds)
         \/ \E kinds : Call(DoAnimation(made, a), kinds)
  <2>1. fx.anims[a].state = "new"
    BY DEF Animate, Anim
  <2>2. PICK kinds : Call(IF queued THEN Queue(made, e, q) ELSE DoAnimation(made, a), kinds)
    BY Zenon DEF Animate, NewOne, NewAnim
  <2> HIDE DEF made, q
  <2> QED BY <2>1, <2>2
<1>2. fx \in FxVars
  BY DEF Base
<1>3. /\ Base(made)
      /\ \A d \in Elem : \A j \in DOMAIN fx.queue[d] : fx.queue[d][j] # a
      /\ \A k \in DOMAIN fx.stack : \A j \in DOMAIN fx.stack[k].todo : j > 1 => fx.stack[k].todo[j] # a
  BY <1>1, BaseNew
<1>4. /\ made.queue = fx.queue /\ made.stack = fx.stack /\ made.anims[a].state = "queued"
      /\ made.anims[a].queued = queued /\ made.anims[a].of = e
  BY <1>2, NewIs DEF Animated
<1> HIDE DEF made
<1>5. Base(DoAnimation(made, a))
  BY <1>3, <1>4, BaseDoAnimation
<1>6. ASSUME queued PROVE Base(Queue(made, e, q))
  <2>1. q \in Entries /\ Base(QueueSet(made, e, q))
    BY ZenonT(30), <1>3, <1>4, <1>6, BaseLonger
  <2> HIDE DEF q
  <2> QED BY <2>1, BaseQueues
<1> HIDE DEF q
<1> QED BY <1>1, <1>5, <1>6, BaseCall
-----------------------------------------------------------------------------
\* The first state.
LEMMA NoHooksIs == NoHooks \in HookVars /\ NoHooks.unqueued = 0 /\ NoHooks.waiting = 0 /\ ~NoHooks.present
<1>1. PICK no, zero : no = FALSE /\ zero = 0
  OBVIOUS
<1>2. zero \in Int /\ zero \in Nat
  BY <1>1
<1>5. no \in BOOLEAN
  BY <1>1, Zenon
<1>3. NoHooks = [present |-> no, unqueued |-> zero, waiting |-> zero]
  BY <1>1, Zenon DEF NoHooks
<1>4. NoHooks \in HookVars /\ NoHooks.unqueued = zero /\ NoHooks.waiting = zero /\ NoHooks.present = no
  BY <1>2, <1>3, <1>5 DEF HookVars
<1> QED BY <1>1, <1>4

LEMMA InitIs ==
    ASSUME Init
    PROVE  /\ fx \in FxVars /\ fx.timers = <<>> /\ fx.stack = <<>> /\ ops = 0
           /\ \A a \in Anim : fx.anims[a] = NotMade
           /\ \A e \in Elem : fx.queue[e] = <<>> /\ fx.hooks[e] = NoHooks /\ ~fx.finish[e]
<1>1. PICK no, none : no = FALSE /\ none = <<>>
  OBVIOUS
<1> DEFINE an == [a \in Anim |-> NotMade] qu == [e \in Elem |-> none]
           hk == [e \in Elem |-> NoHooks] fi == [e \in Elem |-> no]
<1>2. none \in Seq(Anim) /\ none \in Entries /\ none \in Seq(FrameVars) /\ no \in BOOLEAN
  BY <1>1, EmptySeq DEF Entries
<1>3. an \in [Anim -> AnimVars] /\ \A a \in Anim : an[a] = NotMade
  BY NotMadeIs
<1>4. qu \in [Elem -> Entries] /\ \A e \in Elem : qu[e] = none
  BY <1>2
<1>5. hk \in [Elem -> HookVars] /\ \A e \in Elem : hk[e] = NoHooks
  BY NoHooksIs
<1>6. fi \in [Elem -> BOOLEAN] /\ \A e \in Elem : fi[e] = no
  BY <1>2
<1>7. fx = [timers |-> none, timerId |-> no, anims |-> an, queue |-> qu, hooks |-> hk,
            finish |-> fi, stack |-> none]
  BY <1>1, Zenon DEF Init
<1> HIDE DEF an, qu, hk, fi
<1>8. /\ fx \in FxVars /\ fx.timers = none /\ fx.stack = none /\ fx.anims = an /\ fx.queue = qu
      /\ fx.hooks = hk /\ fx.finish = fi
  BY <1>2, <1>3, <1>4, <1>5, <1>6, <1>7 DEF FxVars
<1> QED BY <1>1, <1>3, <1>4, <1>5, <1>6, <1>8 DEF Init

LEMMA InitBase == ASSUME Init PROVE Base(fx)
<1>1. /\ fx \in FxVars /\ fx.timers = <<>> /\ fx.stack = <<>>
      /\ \A a \in Anim : fx.anims[a] = NotMade
      /\ \A e \in Elem : fx.queue[e] = <<>> /\ fx.hooks[e] = NoHooks
  BY InitIs
<1>2. \A a \in Anim : /\ fx.anims[a].state = "new" /\ ~fx.anims[a].attached /\ ~fx.anims[a].stopped
  BY <1>1, NotMadeIs
<1>3. AnimsOk(fx.anims)
  BY <1>2 DEF AnimsOk
<1>4. QueueOk(fx.queue, fx.anims)
  BY <1>1 DEF QueueOk, Once, HeadOnly, AllWait
<1>5. CountOk(fx.stack, fx.anims, fx.hooks)
  <2> SUFFICES ASSUME NEW e \in Elem
               PROVE  fx.hooks[e].unqueued >= Cardinality(Beside(fx.stack, fx.anims, e))
    BY DEF CountOk
  <2>1. Beside(fx.stack, fx.anims, e) = {}
    BY <1>1, <1>2 DEF Beside, Leaving
  <2>2. Cardinality(Beside(fx.stack, fx.anims, e)) = 0
    BY <2>1, FS_EmptySet, Zenon
  <2> QED BY <1>1, <2>2, NoHooksIs
<1> QED BY <1>1, <1>3, <1>4, <1>5
    DEF Base, FramesOk, TimersOk, TodoOk, LeaveOk, CallerOk, BottomOk

LEMMA BaseNext == ASSUME Base(fx), Next PROVE Base(fx')
<1>1. CASE Return \/ DequeueNext \/ End \/ Unqueue \/ Ended \/ Timer \/ Made
  BY <1>1, BaseReturn, BaseDequeueNext, BaseEnd, BaseUnqueue, BaseEnded, BaseTimer, BaseMade
<1>2. CASE StopStart \/ StopLoop \/ Splice \/ StopEnds \/ FinishNext
  BY <1>2, BaseStopStart, BaseStopLoop, BaseSplice, BaseStopEnds, BaseFinishNext
<1>3. CASE FxTick \/ TickNext \/ Ticked \/ TickEnds
  BY <1>3, BaseFxTick, BaseTickNext, BaseTicked, BaseTickEnds
<1>4. CASE \E due \in BOOLEAN : StepDone(due)
  BY <1>4, BaseStepDone
<1>5. CASE Program
  <2>1. PICK e \in Elem :
          \/ \E a \in Anim, queued, zero \in BOOLEAN : Animate(a, e, queued, zero)
          \/ \E clear, end \in BOOLEAN : Stop(e, clear, end)
          \/ Finish(e) \/ ClearQueue(e) \/ Promise(e)
    BY <1>5 DEF Program
  <2>2. CASE \E a \in Anim, queued, zero \in BOOLEAN : Animate(a, e, queued, zero)
    BY <2>2, BaseAnimate
  <2>3. CASE \E clear, end \in BOOLEAN : Stop(e, clear, end)
    BY <2>3, BaseStop
  <2>4. CASE Finish(e) \/ ClearQueue(e) \/ Promise(e)
    BY <2>4, BaseFinish, BaseClearQueue, BasePromise
  <2> QED BY <2>1, <2>2, <2>3, <2>4
<1> QED BY <1>1, <1>2, <1>3, <1>4, <1>5 DEF Next, Continue

\* The program's calls are counted.
LEMMA OpsNext == ASSUME ops \in 0 .. MaxOps, Next PROVE ops' \in 0 .. MaxOps
<1>1. ops' = ops \/ (ops < MaxOps /\ ops' = ops + 1)
  BY ZenonT(30) DEF Next, Program, Continue, Return, DequeueNext, End, Unqueue, Ended, Timer, Made, StopStart,
         StopLoop, Splice, StopEnds, FinishNext, FxTick, TickNext, Ticked, TickEnds, StepDone, Goes,
         Animate, Stop, Finish, ClearQueue, Promise, Call
<1> QED BY <1>1, EffectsAssumption

LEMMA BaseTypes == ASSUME Base(fx), ops \in 0 .. MaxOps PROVE TypeOK
<1>1. fx \in FxVars /\ CountOk(fx.stack, fx.anims, fx.hooks)
  BY DEF Base
<1>2. /\ fx.timers \in Seq(Anim) /\ fx.anims \in [Anim -> AnimVars] /\ fx.queue \in [Elem -> Entries]
      /\ fx.hooks \in [Elem -> HookVars]
  BY <1>1, FxIs
<1>3. \A a \in Anim : fx.anims[a].state \in States
  BY <1>2, AnimIs
<1>4. ASSUME NEW e \in Elem PROVE fx.hooks[e].unqueued \in Nat
  <2>1. Cardinality(Beside(fx.stack, fx.anims, e)) \in Nat
    BY BesideFinite, FS_CardinalityType
  <2>2. fx.hooks[e].unqueued >= Cardinality(Beside(fx.stack, fx.anims, e)) /\ fx.hooks[e].unqueued \in Int
    BY <1>1, <1>2 DEF CountOk, HookVars
  <2> QED BY <2>1, <2>2
<1>5. \A e \in Elem : fx.queue[e] \in Seq(Anim \cup {InProgress})
  BY <1>2 DEF Entries
<1> QED BY <1>2, <1>3, <1>4, <1>5 DEF TypeOK, States

LEMMA EffectsBase == Spec => [](Base(fx) /\ ops \in 0 .. MaxOps)
<1>1. Init => Base(fx) /\ ops \in 0 .. MaxOps
  BY InitBase, InitIs, EffectsAssumption
<1>2. Base(fx) /\ ops \in 0 .. MaxOps /\ [Next]_vars => Base(fx)' /\ (ops \in 0 .. MaxOps)'
  <2> SUFFICES ASSUME Base(fx), ops \in 0 .. MaxOps, [Next]_vars
               PROVE  Base(fx)' /\ (ops \in 0 .. MaxOps)'
    OBVIOUS
  <2>1. CASE Next
    BY <2>1, BaseNext, OpsNext
  <2>2. CASE UNCHANGED vars
    BY <2>2 DEF vars
  <2> QED BY <2>1, <2>2
<1> QED BY <1>1, <1>2, PTL DEF Spec

\* The timers are animations, a queue holds animations and the sentinel, and no
\* animation beside a queue is subtracted twice, for any elements, animations and calls.
THEOREM EffectsTypeOK == Spec => []TypeOK
<1>1. Base(fx) /\ ops \in 0 .. MaxOps => TypeOK
  BY BaseTypes
<1> QED BY <1>1, EffectsBase, PTL
-----------------------------------------------------------------------------
\* What holds as long as the program makes only calls that jQuery is prepared for.
\* X, Y, Z: animations on their way to the end, while a step is half done.
Over(an, X, a) == a \in X \/ an[a].state # "pending"
Stops(stk, a) == \E k \in DOMAIN stk : stk[k].at = "end" /\ stk[k].a = a
Stepping(stk, k) == k + 1 \in DOMAIN stk /\ stk[k + 1].at = "step"
Starts(stk, an, k) == stk[k].at = "timer" /\ an[stk[k].a].zero
NoZero(stk, an) == \A k \in DOMAIN stk : ~Starts(stk, an, k)

\* stop and finish are not called from each other.
OneStop(stk) == \A k, l \in DOMAIN stk : stk[k].at \in ElemFrames /\ stk[l].at \in ElemFrames => k = l

\* fx.timer knows after the first tick whether the timer stays.  The first tick of an
\* animation without duration ends it, with nothing between but the end of it.
TimerOk(stk, an, X) ==
    \A k \in DOMAIN stk : stk[k].at = "timer" =>
        /\ Stepping(stk, k) => stk[k] = Of("timer", stk[k].a)
        /\ ~an[stk[k].a].zero => Stepping(stk, k) \/ stk[k].end
        /\ an[stk[k].a].zero =>
              /\ ~an[stk[k].a].attached /\ ~stk[k].end
              /\ Stepping(stk, k) \/ Over(an, X, stk[k].a)
              /\ \A j \in DOMAIN stk : j > k => stk[j].at \in {"step", "ended", "unqueue", "user"}

\* The timer that fx.timer pops is its own.
LastOk(stk, an, tm) ==
    \A k \in DOMAIN stk : Starts(stk, an, k) => tm # <<>> /\ tm[Len(tm)] = stk[k].a

\* A timer is removed by the loop of fx.tick only when its animation is over.
TickOk(stk, an, X) ==
    \A k \in DOMAIN stk :
        /\ stk[k].at = "fxticked" => Stepping(stk, k) \/ stk[k].end \/ Over(an, X, stk[k].a)
        /\ stk[k].at = "ended" =>
             Over(an, X, stk[k].a) /\ (k > 1 /\ stk[k - 1].at = "timer" => an[stk[k].a].zero)

\* An animation that is not over is being ended by stop or finish, or has its timer.
RunningOk(stk, an, tm, Z) ==
    \A a \in Anim : \/ Over(an, Z, a)
                    \/ Stops(stk, a)
                    \/ ~an[a].stopped /\ \E j \in DOMAIN tm : tm[j] = a

\* The timer that the loop of stop or finish removes is that of an animation it has stopped.
SpliceOk(stk, an, tm, Y) ==
    \A k \in DOMAIN stk : stk[k].at = "splice" =>
        /\ stk[k].i <= Len(tm)
        /\ Over(an, Y, tm[stk[k].i]) \/ Stops(stk, tm[stk[k].i])
        /\ (\E l \in DOMAIN stk : Starts(stk, an, l)) => stk[k].i < Len(tm)

\* The interval runs, or is about to, or the only timer is about to go.
IntervalOk(stk, an, tm, id) ==
    \/ id
    \/ tm = <<>>
    \/ \E k \in DOMAIN stk : stk[k].at = "timer" /\ ~an[stk[k].a].zero
    \/ Len(tm) = 1 /\ \E k \in DOMAIN stk : Starts(stk, an, k)

Snd(s, X, Y, Z) ==
    /\ OneStop(s.stack)
    /\ TimerOk(s.stack, s.anims, X)
    /\ LastOk(s.stack, s.anims, s.timers)
    /\ TickOk(s.stack, s.anims, X)
    /\ RunningOk(s.stack, s.anims, s.timers, Z)
    /\ SpliceOk(s.stack, s.anims, s.timers, Y)
    /\ IntervalOk(s.stack, s.anims, s.timers, s.timerId)
-----------------------------------------------------------------------------
LEMMA SndRearranged ==
    ASSUME NEW s, NEW t, NEW X, NEW Y, NEW Z, Snd(s, X, Y, Z),
           t.timers = s.timers, t.timerId = s.timerId, t.anims = s.anims, t.stack = s.stack
    PROVE  Snd(t, X, Y, Z)
BY DEF Snd

\* A stack that has grown by calls that no timer or loop waits for.
LEMMA SndGrows ==
    ASSUME NEW s, NEW t, NEW X, NEW Y, NEW Z, Snd(s, X, Y, Z), NEW A,
           t.timers = s.timers, t.timerId = s.timerId, t.anims = s.anims,
           s.stack \in Seq(FrameVars), t.stack \in Seq(FrameVars),
           \A k \in DOMAIN s.stack : k \in DOMAIN t.stack /\ t.stack[k] = s.stack[k],
           \A k \in DOMAIN t.stack : k \notin DOMAIN s.stack => t.stack[k].at \in A,
           \/ A = {"user", "unqueue"}
           \/ A = {"user", "unqueue", "end", "complete", "stop"} /\ NoZero(s.stack, s.anims),
           OneStop(t.stack)
    PROVE  Snd(t, X, Y, Z)
<1> DEFINE stk == s.stack st == t.stack an == s.anims tm == s.timers
<1>1. \A k \in DOMAIN stk : k \in DOMAIN st /\ st[k] = stk[k] /\ k \in Nat
  OBVIOUS
<1>2. \A k \in DOMAIN st : /\ k \in Nat
                           /\ \/ k \in DOMAIN stk /\ st[k] = stk[k]
                              \/ st[k].at \in {"user", "unqueue", "end", "complete", "stop"}
                           /\ \/ k \in DOMAIN stk
                              \/ st[k].at \in {"user", "unqueue"}
                              \/ NoZero(stk, an)
  OBVIOUS
<1>3. /\ TimerOk(stk, an, X) /\ LastOk(stk, an, tm) /\ TickOk(stk, an, X) /\ RunningOk(stk, an, tm, Z)
      /\ SpliceOk(stk, an, tm, Y) /\ IntervalOk(stk, an, tm, s.timerId)
  BY DEF Snd
<1>4. DOMAIN stk = 1 .. Len(stk) /\ Len(stk) \in Nat
  OBVIOUS
<1>5. t.timers = tm /\ t.timerId = s.timerId /\ t.anims = an /\ OneStop(st)
  OBVIOUS
<1> HIDE DEF stk, st, an, tm
<1>6. \A k \in DOMAIN stk : Stepping(st, k) <=> Stepping(stk, k)
  BY <1>1, <1>2 DEF Stepping
<1>7. \A a : Stops(stk, a) => Stops(st, a)
  BY <1>1 DEF Stops
<1>8. \A k \in DOMAIN st : st[k].at \in {"timer", "fxticked", "ended", "splice"} => k \in DOMAIN stk /\ st[k] = stk[k]
  BY <1>2
<1>9. \A k \in DOMAIN st : Starts(st, an, k) => k \in DOMAIN stk /\ Starts(stk, an, k) /\ st[k] = stk[k]
  BY <1>8 DEF Starts
<1>10. TimerOk(st, an, X)
  <2> SUFFICES ASSUME NEW k \in DOMAIN st, st[k].at = "timer"
               PROVE  /\ Stepping(st, k) => st[k] = Of("timer", st[k].a)
                      /\ ~an[st[k].a].zero => Stepping(st, k) \/ st[k].end
                      /\ an[st[k].a].zero =>
                            /\ ~an[st[k].a].attached /\ ~st[k].end
                            /\ Stepping(st, k) \/ Over(an, X, st[k].a)
                            /\ \A j \in DOMAIN st : j > k => st[j].at \in {"step", "ended", "unqueue", "user"}
    BY DEF TimerOk
  <2>1. k \in DOMAIN stk /\ st[k] = stk[k] /\ (Stepping(st, k) <=> Stepping(stk, k))
    BY <1>6, <1>8
  <2>2. /\ Stepping(stk, k) => stk[k] = Of("timer", stk[k].a)
        /\ ~an[stk[k].a].zero => Stepping(stk, k) \/ stk[k].end
        /\ an[stk[k].a].zero =>
              /\ ~an[stk[k].a].attached /\ ~stk[k].end
              /\ Stepping(stk, k) \/ Over(an, X, stk[k].a)
              /\ \A j \in DOMAIN stk : j > k => stk[j].at \in {"step", "ended", "unqueue", "user"}
    BY <1>3, <2>1 DEF TimerOk
  <2>3. an[st[k].a].zero => \A j \in DOMAIN st : j > k => st[j].at \in {"step", "ended", "unqueue", "user"}
    <3> SUFFICES ASSUME an[st[k].a].zero, NEW j \in DOMAIN st, j > k
                 PROVE  st[j].at \in {"step", "ended", "unqueue", "user"}
      OBVIOUS
    <3>1. ~NoZero(stk, an)
      BY <2>1 DEF NoZero, Starts
    <3>2. CASE j \in DOMAIN stk
      BY <1>1, <2>1, <2>2, <3>2
    <3>3. CASE j \notin DOMAIN stk
      BY <1>2, <3>1, <3>3
    <3> QED BY <3>2, <3>3
  <2> QED BY <2>1, <2>2, <2>3
<1>11. LastOk(st, an, tm)
  BY <1>3, <1>9 DEF LastOk
<1>12. TickOk(st, an, X)
  <2> SUFFICES ASSUME NEW k \in DOMAIN st, st[k].at \in {"fxticked", "ended"}
               PROVE  /\ st[k].at = "fxticked" => Stepping(st, k) \/ st[k].end \/ Over(an, X, st[k].a)
                      /\ st[k].at = "ended" =>
                           Over(an, X, st[k].a) /\ (k > 1 /\ st[k - 1].at = "timer" => an[st[k].a].zero)
    BY DEF TickOk
  <2>1. k \in DOMAIN stk /\ st[k] = stk[k] /\ (Stepping(st, k) <=> Stepping(stk, k))
    BY <1>6, <1>8
  <2>2. /\ stk[k].at = "fxticked" => Stepping(stk, k) \/ stk[k].end \/ Over(an, X, stk[k].a)
        /\ stk[k].at = "ended" =>
             Over(an, X, stk[k].a) /\ (k > 1 /\ stk[k - 1].at = "timer" => an[stk[k].a].zero)
    BY <1>3, <2>1 DEF TickOk
  <2>3. st[k].at = "ended" => (k > 1 /\ st[k - 1].at = "timer" => an[st[k].a].zero)
    <3> SUFFICES ASSUME st[k].at = "ended", k > 1, st[k - 1].at = "timer" PROVE an[st[k].a].zero
      OBVIOUS
    <3>1. k - 1 \in DOMAIN stk
      BY <1>4, <2>1
    <3> QED BY <1>1, <2>1, <2>2, <3>1
  <2> QED BY <2>1, <2>2, <2>3
<1>13. RunningOk(st, an, tm, Z)
  BY <1>3, <1>7 DEF RunningOk
<1>14. SpliceOk(st, an, tm, Y)
  BY <1>3, <1>7, <1>8, <1>9 DEF SpliceOk
<1>15. IntervalOk(st, an, tm, s.timerId)
  <2>1. \A k \in DOMAIN stk : Starts(stk, an, k) => k \in DOMAIN st /\ Starts(st, an, k)
    BY <1>1 DEF Starts
  <2> QED BY <1>1, <1>3, <2>1 DEF IntervalOk
<1> QED BY <1>5, <1>10, <1>11, <1>12, <1>13, <1>14, <1>15 DEF Snd, st

\* The animations change: none that is over comes back.
LEMMA SndAges ==
    ASSUME NEW s, NEW t, NEW X, NEW Y, NEW Z, NEW V, NEW W, NEW U, Base(s), Snd(s, X, Y, Z), Animated(s, t),
           \A k \in DOMAIN s.stack : s.stack[k].at \in {"timer", "ended"} =>
             /\ t.anims[s.stack[k].a].zero = s.anims[s.stack[k].a].zero
             /\ t.anims[s.stack[k].a].attached = s.anims[s.stack[k].a].attached,
           \A a \in Anim : Over(s.anims, X, a) => Over(t.anims, V, a),
           \A a \in Anim : Over(s.anims, Y, a) => Over(t.anims, W, a),
           RunningOk(s.stack, t.anims, s.timers, U)
    PROVE  Snd(t, V, W, U)
<1> DEFINE stk == s.stack am == t.anims an == s.anims tm == s.timers
<1>1. /\ TimerOk(stk, an, X) /\ LastOk(stk, an, tm) /\ TickOk(stk, an, X) /\ OneStop(stk)
      /\ SpliceOk(stk, an, tm, Y) /\ IntervalOk(stk, an, tm, s.timerId)
  BY DEF Snd
<1>2. /\ t.stack = stk /\ t.timers = tm /\ t.timerId = s.timerId /\ RunningOk(stk, am, tm, U)
      /\ tm \in Seq(Anim) /\ FramesOk(stk, an)
  BY FxIs DEF Animated, Base
<1>3. \A k \in DOMAIN stk : stk[k].at \in {"timer", "ended"} =>
        am[stk[k].a].zero = an[stk[k].a].zero /\ am[stk[k].a].attached = an[stk[k].a].attached
  OBVIOUS
<1>4. /\ \A a \in Anim : Over(an, X, a) => Over(am, V, a)
      /\ \A a \in Anim : Over(an, Y, a) => Over(am, W, a)
  OBVIOUS
<1>5. \A k \in DOMAIN stk : stk[k].at \in {"timer", "ended", "fxticked"} => stk[k].a \in Anim
  BY <1>2 DEF FramesOk, AnimFrames
<1>6. FramesOk(stk, an)
  BY <1>2
<1>7. \A k \in DOMAIN stk : stk[k].at = "splice" => stk[k].i >= 1 /\ stk[k].i \in Nat
  <2>1. stk \in Seq(FrameVars)
    BY FxIs DEF Base
  <2>2. \A k \in DOMAIN stk : stk[k].i \in Nat
    BY <2>1, FrameIs
  <2> QED BY <1>6, <2>2 DEF FramesOk
<1> HIDE DEF stk, am, an, tm
<1>8. \A k \in DOMAIN stk : Starts(stk, am, k) <=> Starts(stk, an, k)
  BY <1>3 DEF Starts
<1>9. TimerOk(stk, am, V)
  BY <1>1, <1>3, <1>4, <1>5 DEF TimerOk
<1>10. LastOk(stk, am, tm)
  BY <1>1, <1>8 DEF LastOk
<1>11. TickOk(stk, am, V)
  BY <1>1, <1>3, <1>4, <1>5 DEF TickOk
<1>12. SpliceOk(stk, am, tm, W)
  <2> SUFFICES ASSUME NEW k \in DOMAIN stk, stk[k].at = "splice"
               PROVE  /\ stk[k].i <= Len(tm)
                      /\ Over(am, W, tm[stk[k].i]) \/ Stops(stk, tm[stk[k].i])
                      /\ (\E l \in DOMAIN stk : Starts(stk, am, l)) => stk[k].i < Len(tm)
    BY DEF SpliceOk
  <2>1. /\ stk[k].i <= Len(tm)
        /\ Over(an, Y, tm[stk[k].i]) \/ Stops(stk, tm[stk[k].i])
        /\ (\E l \in DOMAIN stk : Starts(stk, an, l)) => stk[k].i < Len(tm)
    BY <1>1 DEF SpliceOk
  <2>2. tm[stk[k].i] \in Anim
    BY <1>2, <1>7, <2>1
  <2> QED BY <1>4, <1>8, <2>1, <2>2
<1>13. IntervalOk(stk, am, tm, s.timerId)
  BY <1>1, <1>3, <1>8 DEF IntervalOk
<1> QED BY <1>1, <1>2, <1>9, <1>10, <1>11, <1>12, <1>13 DEF Snd, am

LEMMA SndSweeps ==
    ASSUME NEW s, NEW t, Base(s), Snd(s, {}, {}, {}), Sweeps(s, t)
    PROVE  Snd(t, {}, {}, {})
<1>1. Animated(s, t)
  BY DEF Sweeps
<1>2. \A k \in DOMAIN s.stack : s.stack[k].at \in {"timer", "ended"} =>
        t.anims[s.stack[k].a] = s.anims[s.stack[k].a]
  <2>1. FramesOk(s.stack, s.anims)
    BY DEF Base
  <2> QED BY <2>1 DEF Sweeps, FramesOk, AnimFrames
<1>3. \A a \in Anim : Over(s.anims, {}, a) => Over(t.anims, {}, a)
  BY DEF Sweeps, Over
<1>4. RunningOk(s.stack, t.anims, s.timers, {})
  <2>1. RunningOk(s.stack, s.anims, s.timers, {})
    BY DEF Snd
  <2> SUFFICES ASSUME NEW a \in Anim
               PROVE  \/ Over(t.anims, {}, a)
                      \/ Stops(s.stack, a)
                      \/ ~t.anims[a].stopped /\ \E j \in DOMAIN s.timers : s.timers[j] = a
    BY DEF RunningOk
  <2>2. CASE t.anims[a] = s.anims[a]
    BY <2>1, <2>2 DEF RunningOk, Over
  <2>3. CASE t.anims[a].state = "gone"
    BY <2>3 DEF Over
  <2> QED BY <2>2, <2>3 DEF Sweeps
<1> QED BY <1>1, <1>2, <1>3, <1>4, SndAges

\* The innermost call returns.
LEMMA SndDrops ==
    ASSUME NEW s, NEW t, NEW X, NEW Y, NEW Z, NEW V, NEW W, Base(s), Snd(s, X, Y, Z),
           Stacked(s, t), Drops(s.stack, t.stack),
           s.stack[Len(s.stack)].at \notin {"timer", "step"},
           Y \subseteq V, Z \subseteq W,
           s.stack[Len(s.stack)].at = "end" =>
             s.stack[Len(s.stack)].a \in V /\ s.stack[Len(s.stack)].a \in W
    PROVE  Snd(t, X, V, W)
<1> DEFINE stk == s.stack st == t.stack an == s.anims tm == s.timers n == Len(stk) f == stk[n]
<1>1. /\ OneStop(stk) /\ TimerOk(stk, an, X) /\ LastOk(stk, an, tm) /\ TickOk(stk, an, X)
      /\ RunningOk(stk, an, tm, Z) /\ SpliceOk(stk, an, tm, Y) /\ IntervalOk(stk, an, tm, s.timerId)
  BY DEF Snd
<1>2. /\ t.timers = tm /\ t.timerId = s.timerId /\ t.anims = an
      /\ stk \in Seq(FrameVars) /\ st \in Seq(FrameVars) /\ n \in Nat \ {0} /\ Len(st) = n - 1
      /\ DOMAIN stk = 1 .. n /\ DOMAIN st = 1 .. n - 1
      /\ \A k \in 1 .. n - 1 : st[k] = stk[k]
  BY TopIs, FxIs DEF Stacked, Drops, Base
<1>3. /\ f.at \notin {"timer", "step"} /\ Y \subseteq V /\ Z \subseteq W
      /\ f.at = "end" => f.a \in V /\ f.a \in W
      /\ f = stk[n]
  OBVIOUS
<1> HIDE DEF stk, st, an, tm, n, f
<1>4. \A k \in DOMAIN st : /\ k \in DOMAIN stk /\ st[k] = stk[k] /\ k \in Nat
                           /\ (k > 1 => k - 1 \in DOMAIN st /\ st[k - 1] = stk[k - 1])
  BY <1>2
<1>5. \A k \in DOMAIN stk : k \in DOMAIN st \/ k = n
  BY <1>2
<1>6. \A k \in DOMAIN st : Stepping(st, k) <=> Stepping(stk, k)
  <2> SUFFICES ASSUME NEW k \in DOMAIN st PROVE Stepping(st, k) <=> Stepping(stk, k)
    OBVIOUS
  <2>1. CASE k + 1 \in DOMAIN st
    BY <1>4, <2>1 DEF Stepping
  <2>2. CASE k + 1 \notin DOMAIN st
    <3>1. k + 1 = n
      BY <1>2, <2>2
    <3> QED BY <1>3, <2>2, <3>1 DEF Stepping
  <2> QED BY <2>1, <2>2
<1>7. \A a : Stops(stk, a) => Stops(st, a) \/ (a \in V /\ a \in W)
  BY <1>3, <1>4, <1>5 DEF Stops
<1>8. \A k \in DOMAIN st : Starts(st, an, k) <=> Starts(stk, an, k)
  BY <1>4 DEF Starts
<1>9. \A k \in DOMAIN stk : stk[k].at = "timer" => k \in DOMAIN st
  BY <1>3, <1>5
<1>10. OneStop(st)
  BY <1>1, <1>4 DEF OneStop
<1>11. TimerOk(st, an, X)
  BY <1>1, <1>4, <1>6 DEF TimerOk
<1>12. LastOk(st, an, tm)
  BY <1>1, <1>4, <1>8 DEF LastOk
<1>13. TickOk(st, an, X)
  BY <1>1, <1>4, <1>6 DEF TickOk
<1>14. RunningOk(st, an, tm, W)
  BY <1>1, <1>3, <1>7 DEF RunningOk, Over
<1>15. SpliceOk(st, an, tm, V)
  <2> SUFFICES ASSUME NEW k \in DOMAIN st, st[k].at = "splice"
               PROVE  /\ st[k].i <= Len(tm)
                      /\ Over(an, V, tm[st[k].i]) \/ Stops(st, tm[st[k].i])
                      /\ (\E l \in DOMAIN st : Starts(st, an, l)) => st[k].i < Len(tm)
    BY DEF SpliceOk
  <2>1. /\ st[k].i <= Len(tm)
        /\ Over(an, Y, tm[st[k].i]) \/ Stops(stk, tm[st[k].i])
        /\ (\E l \in DOMAIN stk : Starts(stk, an, l)) => st[k].i < Len(tm)
    BY <1>1, <1>4 DEF SpliceOk
  <2> QED BY <1>3, <1>4, <1>7, <1>8, <2>1 DEF Over
<1>16. IntervalOk(st, an, tm, s.timerId)
  BY <1>1, <1>4, <1>8, <1>9 DEF IntervalOk, Starts
<1> QED BY <1>2, <1>10, <1>11, <1>12, <1>13, <1>14, <1>15, <1>16 DEF Snd, st

\* Functions of the program are called, or the end of an animation.
LEMMA SndTells ==
    ASSUME NEW s, NEW t, NEW X, NEW Y, NEW Z, Base(s), Snd(s, X, Y, Z),
           t.timers = s.timers, t.timerId = s.timerId, t.anims = s.anims, Tells(s.stack, t.stack)
    PROVE  Snd(t, X, Y, Z)
<1> DEFINE stk == s.stack st == t.stack
<1>1. /\ t.timers = s.timers /\ t.timerId = s.timerId /\ t.anims = s.anims
      /\ stk \in Seq(FrameVars) /\ st \in Seq(FrameVars) /\ OneStop(stk)
  BY FxIs DEF Base, Tells, Snd
<1>2. \A k \in DOMAIN stk : k \in DOMAIN st /\ st[k] = stk[k]
  BY <1>1 DEF Tells
<1>3. \A k \in DOMAIN st : k \notin DOMAIN stk => st[k].at = "user"
  BY <1>1, UserIs DEF Tells
<1> HIDE DEF stk, st
<1>4. OneStop(st)
  BY <1>1, <1>2, <1>3 DEF OneStop, ElemFrames
<1> DEFINE A == {"user", "unqueue"}
<1>5. \A k \in DOMAIN st : k \notin DOMAIN stk => st[k].at \in A
  BY <1>3
<1> QED BY <1>1, <1>2, <1>4, <1>5, SndGrows DEF stk, st

LEMMA SndAdds ==
    ASSUME NEW s, NEW t, NEW f, NEW X, NEW Y, NEW Z, Base(s), Snd(s, X, Y, Z),
           Stacked(s, t), Adds(s.stack, f, t.stack),
           \/ f.at \in {"user", "unqueue"}
           \/ f.at \in {"end", "complete"} /\ NoZero(s.stack, s.anims)
           \/ f.at = "stop" /\ NoZero(s.stack, s.anims) /\ \A k \in DOMAIN s.stack : s.stack[k].at \notin ElemFrames
    PROVE  Snd(t, X, Y, Z)
<1> DEFINE stk == s.stack st == t.stack an == s.anims
<1>1. /\ t.timers = s.timers /\ t.timerId = s.timerId /\ t.anims = s.anims
      /\ stk \in Seq(FrameVars) /\ st \in Seq(FrameVars) /\ OneStop(stk)
  BY FxIs DEF Stacked, Base, Adds, Snd
<1>2. \A k \in DOMAIN stk : k \in DOMAIN st /\ st[k] = stk[k]
  BY <1>1 DEF Adds
<1>3. \A k \in DOMAIN st : k \notin DOMAIN stk => st[k] = f /\ k = Len(stk) + 1
  BY <1>1 DEF Adds
<1>4. \/ f.at \in {"user", "unqueue"}
      \/ f.at \in {"end", "complete"} /\ NoZero(stk, an)
      \/ f.at = "stop" /\ NoZero(stk, an) /\ \A k \in DOMAIN stk : stk[k].at \notin ElemFrames
  OBVIOUS
<1> HIDE DEF stk, st, an
<1>5. OneStop(st)
  BY <1>1, <1>2, <1>3, <1>4 DEF OneStop, ElemFrames
<1>6. CASE f.at \in {"user", "unqueue"}
  <2> DEFINE A == {"user", "unqueue"}
  <2>1. \A k \in DOMAIN st : k \notin DOMAIN stk => st[k].at \in A
    BY <1>3, <1>6
  <2> QED BY <1>1, <1>2, <1>5, <2>1, SndGrows DEF stk, st
<1>7. CASE f.at \in {"end", "complete", "stop"} /\ NoZero(stk, an)
  <2> DEFINE A == {"user", "unqueue", "end", "complete", "stop"}
  <2>1. \A k \in DOMAIN st : k \notin DOMAIN stk => st[k].at \in A
    BY <1>3, <1>7
  <2> QED BY <1>1, <1>2, <1>5, <1>7, <2>1, SndGrows DEF stk, st, an
<1> QED BY <1>4, <1>6, <1>7

\* Nothing but the end of it happens during the first tick of an animation without duration.
LEMMA TopNoZero ==
    ASSUME NEW s, NEW X, Base(s), s.stack # <<>>, TimerOk(s.stack, s.anims, X),
           s.stack[Len(s.stack)].at \notin {"timer", "step", "ended", "unqueue", "user"}
    PROVE  NoZero(s.stack, s.anims)
<1> SUFFICES ASSUME NEW k \in DOMAIN s.stack, s.stack[k].at = "timer", s.anims[s.stack[k].a].zero
             PROVE  FALSE
  BY DEF NoZero, Starts
<1> DEFINE n == Len(s.stack)
<1>1. n \in DOMAIN s.stack /\ DOMAIN s.stack = 1 .. n /\ n \in Nat
  BY TopIs
<1>2. n # k
  OBVIOUS
<1>3. \A j \in DOMAIN s.stack : j > k => s.stack[j].at \in {"step", "ended", "unqueue", "user"}
  BY DEF TimerOk
<1> HIDE DEF n
<1>4. n > k
  BY <1>1, <1>2
<1> QED BY <1>1, <1>3, <1>4 DEF n

LEMMA SndComplete ==
    ASSUME NEW s, NEW a \in Anim, NEW X, NEW Y, NEW Z, Base(s), Snd(s, X, Y, Z), Started(s.anims, a),
           NoZero(s.stack, s.anims)
    PROVE  Snd(Complete(s, a), X, Y, Z)
<1> DEFINE c == Of("complete", a) t == Push(s, c) u == Push(s, User)
<1>1. s \in FxVars
  BY DEF Base
<1>2. Complete(s, a) = t \/ Complete(s, a) = u
  BY DEF Complete
<1>3. c \in FrameVars /\ c.at = "complete"
  <2>1. "complete" \in AnimFrames
    BY DEF AnimFrames
  <2> QED BY <2>1, OfAnim
<1> HIDE DEF c
<1>4. Stacked(s, t) /\ Adds(s.stack, c, t.stack) /\ Stacked(s, u) /\ Adds(s.stack, User, u.stack)
  BY <1>1, <1>3, UserIs, PushIs
<1> HIDE DEF t, u
<1>5. Snd(t, X, Y, Z)
  BY <1>3, <1>4, SndAdds
<1>6. Snd(u, X, Y, Z)
  BY <1>4, UserIs, SndAdds
<1> QED BY <1>2, <1>5, <1>6

\* An animation on its way to the end is over when its Deferred is settled.
LEMMA SndSettles ==
    ASSUME NEW s, NEW a \in Anim, NEW st \in {"resolved", "rejected"}, Base(s), Snd(s, {a}, {a}, {a}),
           NoZero(s.stack, s.anims) \/ ~s.anims[a].attached
    PROVE  Snd(Settle(s, a, st), {}, {}, {})
<1>1. RunningOk(s.stack, s.anims, s.timers, {a}) /\ s \in FxVars
  BY DEF Snd, Base
<1>2. CASE s.anims[a].state # "pending"
  <2>1. \A b \in Anim : Over(s.anims, {a}, b) => Over(s.anims, {}, b)
    BY <1>2 DEF Over
  <2>2. RunningOk(s.stack, s.anims, s.timers, {})
    BY <1>1, <2>1 DEF RunningOk
  <2>3. Animated(s, s)
    BY <1>1 DEF Animated
  <2>4. Snd(s, {}, {}, {})
    BY <2>1, <2>2, <2>3, SndAges
  <2> QED BY <1>2, <2>4 DEF Settle
<1>3. CASE s.anims[a].state = "pending"
  <2> DEFINE u == SettledOne(s, a, st)
             c == IF s.anims[a].queued THEN u ELSE Push(u, Of("unqueue", a))
  <2>1. st \in States /\ s.anims \in [Anim -> AnimVars]
    BY <1>1, FxIs DEF States
  <2>2. /\ Animated(s, u) /\ u.anims[a].state = st
        /\ \A b \in Anim : b # a => u.anims[b] = s.anims[b]
        /\ \A b \in Anim : /\ u.anims[b].of = s.anims[b].of /\ u.anims[b].queued = s.anims[b].queued
                           /\ u.anims[b].zero = s.anims[b].zero
                           /\ u.anims[b].stopped = s.anims[b].stopped
                           /\ u.anims[b].attached = s.anims[b].attached
    BY <1>1, <2>1, SettledIs
  <2>3. Settle(s, a, st) = IF st = "resolved" /\ s.anims[a].attached THEN Complete(c, a) ELSE c
    BY <1>3 DEF Settle, SettledOne
  <2> HIDE DEF u
  <2>4. u \in FxVars /\ u.anims \in [Anim -> AnimVars] /\ u.stack = s.stack
    BY <2>2, FxIs DEF Animated
  <2>5. Ages(s.anims, u.anims) /\ Started(u.anims, a) /\ u.anims[a].state # "pending"
    BY <1>3, <2>2, <2>4 DEF Ages, Started
  <2>6. Base(u)
    BY <2>2, <2>5, BaseAges
  <2>7. \A b \in Anim : Over(s.anims, {a}, b) => Over(u.anims, {}, b)
    BY <2>2, <2>5 DEF Over
  <2>8. RunningOk(s.stack, u.anims, s.timers, {})
    BY <1>1, <2>2, <2>7 DEF RunningOk
  <2>9. FramesOk(s.stack, s.anims)
    BY DEF Base
  <2>10. \A k \in DOMAIN s.stack : s.stack[k].at \in {"timer", "ended"} => s.stack[k].a \in Anim
    BY <2>9 DEF FramesOk, AnimFrames
  <2>11. Snd(u, {}, {}, {})
    BY SMTT(30), <2>2, <2>7, <2>8, <2>10, SndAges
  <2>12. s.anims[a].attached => NoZero(u.stack, u.anims)
    BY <2>2, <2>4, <2>10 DEF NoZero, Starts
  <2>13. Base(c) /\ Snd(c, {}, {}, {}) /\ Started(c.anims, a)
         /\ (s.anims[a].attached => NoZero(c.stack, c.anims))
    <3>1. CASE s.anims[a].queued
      BY <2>5, <2>6, <2>11, <2>12, <3>1
    <3>2. CASE ~s.anims[a].queued
      <4> DEFINE f == Of("unqueue", a)
      <4>1. f \in FrameVars /\ f.at = "unqueue" /\ f.a = a
        <5>1. "unqueue" \in AnimFrames
          BY DEF AnimFrames
        <5> QED BY <5>1, OfAnim
      <4>2. c = Push(u, f)
        BY <3>2
      <4>3. Stacked(u, c) /\ Adds(u.stack, f, c.stack)
        BY <2>4, <4>1, <4>2, PushIs
      <4>4. ~u.anims[a].queued
        BY <2>2, <3>2
      <4> HIDE DEF c
      <4>5. Base(c)
        BY <1>3, <2>2, <2>5, <2>6, <4>3, <4>4, BaseLeaves
      <4> HIDE DEF f
      <4>6. Snd(c, {}, {}, {})
        BY <2>6, <2>11, <4>1, <4>3, SndAdds
      <4>7. Started(c.anims, a) /\ c.anims = u.anims
        BY <2>5, <4>3 DEF Stacked
      <4>8. NoZero(u.stack, u.anims) => NoZero(c.stack, c.anims)
        <5>1. u.stack \in Seq(FrameVars) /\ c.stack \in Seq(FrameVars)
          BY <2>4, <4>3, FxIs DEF Adds
        <5>2. \A k \in DOMAIN c.stack : \/ k \in DOMAIN u.stack /\ c.stack[k] = u.stack[k]
                                        \/ c.stack[k] = f
          BY <4>3, <5>1 DEF Adds
        <5> QED BY <4>1, <4>7, <5>2 DEF NoZero, Starts
      <4> QED BY <2>12, <4>5, <4>6, <4>7, <4>8
    <3> QED BY <2>1, <3>1, <3>2 DEF AnimVars
  <2> HIDE DEF c
  <2>14. s.anims[a].attached => Snd(Complete(c, a), {}, {}, {})
    BY <2>13, SndComplete
  <2> QED BY <2>3, <2>13, <2>14
<1> QED BY <1>2, <1>3

LEMMA SndStopAnim ==
    ASSUME NEW s, NEW a \in Anim, NEW end \in BOOLEAN, Base(s), Snd(s, {}, {a}, {}), Started(s.anims, a),
           NoZero(s.stack, s.anims)
    PROVE  Snd(StopAnim(s, a, end), {}, {}, {})
<1> DEFINE u == StoppedOne(s, a)
<1>1. s \in FxVars /\ s.anims \in [Anim -> AnimVars]
  BY FxIs DEF Base
<1>2. /\ Animated(s, u) /\ u.anims[a].stopped
      /\ \A b \in Anim : b # a => u.anims[b] = s.anims[b]
      /\ \A b \in Anim : /\ u.anims[b].of = s.anims[b].of /\ u.anims[b].queued = s.anims[b].queued
                         /\ u.anims[b].zero = s.anims[b].zero /\ u.anims[b].state = s.anims[b].state
                         /\ u.anims[b].attached = s.anims[b].attached
  BY <1>1, StopIs
<1>3. StopAnim(s, a, end) = IF s.anims[a].stopped THEN s
                            ELSE IF end THEN Push(u, Of("end", a)) ELSE Settle(u, a, "rejected")
  BY DEF StopAnim, StoppedOne
<1>4. /\ OneStop(s.stack) /\ TimerOk(s.stack, s.anims, {}) /\ LastOk(s.stack, s.anims, s.timers)
      /\ TickOk(s.stack, s.anims, {}) /\ RunningOk(s.stack, s.anims, s.timers, {})
      /\ SpliceOk(s.stack, s.anims, s.timers, {a})
      /\ IntervalOk(s.stack, s.anims, s.timers, s.timerId)
  BY DEF Snd
<1> HIDE DEF u
<1>5. CASE s.anims[a].stopped
  <2>1. Over(s.anims, {}, a) \/ Stops(s.stack, a)
    BY <1>4, <1>5 DEF RunningOk
  <2>2. SpliceOk(s.stack, s.anims, s.timers, {})
    BY <1>4, <2>1 DEF SpliceOk, Over
  <2>3. Snd(s, {}, {}, {})
    BY <1>4, <2>2 DEF Snd
  <2> QED BY <1>3, <1>5, <2>3
<1>6. u \in FxVars /\ u.anims \in [Anim -> AnimVars] /\ u.stack = s.stack /\ u.timers = s.timers
  BY <1>2, FxIs DEF Animated
<1>7. Ages(s.anims, u.anims) /\ Started(u.anims, a)
  BY <1>2, <1>6 DEF Ages, Started
<1>8. Base(u)
  BY <1>2, <1>7, BaseAges
<1>9. FramesOk(s.stack, s.anims)
  BY DEF Base
<1>10. \A k \in DOMAIN s.stack : s.stack[k].at \in {"timer", "ended"} => s.stack[k].a \in Anim
  BY <1>9 DEF FramesOk, AnimFrames
<1>11. NoZero(u.stack, u.anims)
  BY <1>2, <1>6, <1>10 DEF NoZero, Starts
<1>12. RunningOk(s.stack, u.anims, s.timers, {a})
  BY <1>2, <1>4 DEF RunningOk, Over
<1>13. /\ \A b \in Anim : Over(s.anims, {}, b) => Over(u.anims, {}, b) /\ Over(u.anims, {a}, b)
       /\ \A b \in Anim : Over(s.anims, {a}, b) => Over(u.anims, {a}, b)
  BY <1>2 DEF Over
<1>14. \A k \in DOMAIN s.stack : s.stack[k].at \in {"timer", "ended"} =>
         /\ u.anims[s.stack[k].a].zero = s.anims[s.stack[k].a].zero
         /\ u.anims[s.stack[k].a].attached = s.anims[s.stack[k].a].attached
  BY <1>2, <1>10
<1>15. CASE ~s.anims[a].stopped /\ ~end
  <2>1. Snd(u, {a}, {a}, {a})
    BY <1>2, <1>12, <1>13, <1>14, SndAges
  <2>2. Snd(Settle(u, a, "rejected"), {}, {}, {})
    BY <1>8, <1>11, <2>1, SndSettles
  <2> QED BY <1>3, <1>15, <2>2
<1>16. CASE ~s.anims[a].stopped /\ end
  <2> DEFINE f == Of("end", a) t == Push(u, f)
  <2>1. Snd(u, {}, {a}, {a})
    BY <1>2, <1>12, <1>13, <1>14, SndAges
  <2>2. f \in FrameVars /\ f.at = "end" /\ f.a = a
    <3>1. "end" \in AnimFrames
      BY DEF AnimFrames
    <3> QED BY <3>1, OfAnim
  <2> HIDE DEF f
  <2>3. Stacked(u, t) /\ Adds(u.stack, f, t.stack)
    BY <1>6, <2>2, PushIs
  <2> HIDE DEF t
  <2>4. Snd(t, {}, {a}, {a})
    BY <1>8, <1>11, <2>1, <2>2, <2>3, SndAdds
  <2>5. Stops(t.stack, a)
    <3>1. u.stack \in Seq(FrameVars) /\ t.stack \in Seq(FrameVars)
      BY <1>6, <2>3, FxIs DEF Adds
    <3>2. Len(u.stack) + 1 \in DOMAIN t.stack /\ t.stack[Len(u.stack) + 1] = f
      BY <2>3, <3>1 DEF Adds
    <3> QED BY <2>2, <3>2 DEF Stops
  <2>6. RunningOk(t.stack, t.anims, t.timers, {}) /\ SpliceOk(t.stack, t.anims, t.timers, {})
    <3>1. RunningOk(t.stack, t.anims, t.timers, {a}) /\ SpliceOk(t.stack, t.anims, t.timers, {a})
      BY <2>4 DEF Snd
    <3>2. RunningOk(t.stack, t.anims, t.timers, {})
      BY <2>5, <3>1 DEF RunningOk, Over
    <3>3. SpliceOk(t.stack, t.anims, t.timers, {})
      BY <2>5, <3>1 DEF SpliceOk, Over
    <3> QED BY <3>2, <3>3
  <2>7. Snd(t, {}, {}, {})
    BY <2>4, <2>6 DEF Snd
  <2>8. StopAnim(s, a, end) = t
    BY <1>3, <1>16 DEF t, f
  <2> QED BY <2>7, <2>8
<1> QED BY <1>5, <1>15, <1>16

\* An animation starts, with its first tick.
LEMMA SndDoAnimation ==
    ASSUME NEW s, NEW a \in Anim, Base(s), Snd(s, {}, {}, {}), s.anims[a].state = "queued",
           NoZero(s.stack, s.anims)
    PROVE  Snd(DoAnimation(s, a), {}, {}, {})
<1> DEFINE b == BegunOne(s, a) f == Of("timer", a) g == Of("step", a)
           u == Push(b, f) t == Push(u, g)
           stk == s.stack st == t.stack an == s.anims am == t.anims tm == s.timers tn == t.timers n == Len(stk)
<1>1. s \in FxVars /\ an[a].of \in Elem /\ ~an[a].attached /\ ~an[a].stopped
  BY DEF Base, AnimsOk
<1>2. Begins(s, a, b) /\ DoAnimation(s, a) = t
  BY <1>1, DoAnimationIs
<1>3. b \in FxVars
  BY <1>2 DEF Begins
<1>4. /\ f \in FrameVars /\ f.at = "timer" /\ f.a = a /\ f.end = FALSE
      /\ g \in FrameVars /\ g.at = "step" /\ g.a = a
      /\ Stacked(b, u) /\ Adds(b.stack, f, u.stack)
      /\ Stacked(u, t) /\ Adds(u.stack, g, t.stack)
  BY <1>3, TwoPushes
<1>5. f = Of("timer", f.a)
  BY <1>4
<1> HIDE DEF b, u, t, f, g
<1>6. /\ tn = Append(tm, a) /\ t.timerId = s.timerId
      /\ am[a].state = "pending" /\ ~am[a].attached /\ ~am[a].stopped
      /\ \A c \in Anim : c # a => am[c] = an[c]
      /\ \A c \in Anim : am[c].zero = an[c].zero /\ am[c].attached = an[c].attached
      /\ b.stack = stk
  BY <1>1, <1>2, <1>4 DEF Begins, Stacked
<1>7. tm \in Seq(Anim) /\ stk \in Seq(FrameVars) /\ u.stack \in Seq(FrameVars) /\ st \in Seq(FrameVars)
  BY <1>1, <1>4, FxIs DEF Stacked
<1>8. FramesOk(stk, an) /\ TimersOk(tm, an) /\ NoZero(stk, an)
  BY DEF Base
<1>9. /\ TimerOk(stk, an, {}) /\ TickOk(stk, an, {}) /\ OneStop(stk) /\ RunningOk(stk, an, tm, {})
      /\ SpliceOk(stk, an, tm, {}) /\ IntervalOk(stk, an, tm, s.timerId)
  BY DEF Snd
<1>10. an[a].state = "queued" /\ n \in Nat /\ DOMAIN stk = 1 .. n /\ n = Len(stk)
  BY <1>7
<1>11. /\ Len(st) = n + 2 /\ DOMAIN st = 1 .. n + 2 /\ st[n + 1] = f /\ st[n + 2] = g
       /\ \A k \in 1 .. n : st[k] = stk[k]
  <2>1. /\ Len(u.stack) = n + 1 /\ u.stack[n + 1] = f /\ \A k \in 1 .. n : u.stack[k] = stk[k]
    BY <1>4, <1>6 DEF Adds
  <2>2. /\ Len(st) = Len(u.stack) + 1 /\ st[Len(u.stack) + 1] = g /\ \A k \in 1 .. Len(u.stack) : st[k] = u.stack[k]
    BY <1>4 DEF Adds
  <2>3. Len(st) = n + 2 /\ st[n + 2] = g /\ \A k \in 1 .. n + 1 : st[k] = u.stack[k]
    BY <1>10, <2>1, <2>2
  <2> QED BY SMTT(30), <1>7, <1>10, <2>1, <2>3
<1>12. /\ Len(tn) = Len(tm) + 1 /\ Len(tm) \in Nat /\ tn[Len(tm) + 1] = a /\ tn # <<>>
       /\ DOMAIN tm = 1 .. Len(tm) /\ DOMAIN tn = 1 .. Len(tm) + 1
       /\ \A j \in DOMAIN tm : j \in DOMAIN tn /\ tn[j] = tm[j] /\ tn[j] # a /\ tm[j] \in Anim
  <2>1. \A j \in DOMAIN tm : tm[j] # a
    BY <1>8, <1>10 DEF TimersOk, Started
  <2> QED BY <1>6, <1>7, <2>1
<1> HIDE DEF stk, st, an, am, tm, tn, n
<1>13. \A k \in DOMAIN stk : k \in DOMAIN st /\ st[k] = stk[k] /\ k \in Nat
  BY <1>10, <1>11
<1>14. \A k \in DOMAIN st : (k \in DOMAIN stk /\ st[k] = stk[k]) \/ (k = n + 1 /\ st[k] = f) \/ (k = n + 2 /\ st[k] = g)
  BY <1>10, <1>11
<1>15. \A k \in DOMAIN stk : stk[k].at \in AnimFrames => stk[k].a \in Anim /\ stk[k].a # a
  BY <1>8, <1>10 DEF FramesOk, Started
<1>16. \A c \in Anim : c # a => (Over(am, {}, c) <=> Over(an, {}, c))
  BY <1>6 DEF Over
<1>17. \A k \in DOMAIN stk : Stepping(st, k) <=> Stepping(stk, k)
  <2> SUFFICES ASSUME NEW k \in DOMAIN stk PROVE Stepping(st, k) <=> Stepping(stk, k)
    OBVIOUS
  <2>1. CASE k + 1 \in DOMAIN stk
    BY <1>13, <2>1 DEF Stepping
  <2>2. CASE k + 1 \notin DOMAIN stk
    <3>1. k + 1 = n + 1
      BY <1>10, <2>2
    <3> QED BY <1>4, <1>11, <2>2, <3>1 DEF Stepping
  <2> QED BY <2>1, <2>2
<1>18. \A k \in DOMAIN st : st[k].at \in {"fxticked", "ended", "splice", "stop", "loop", "end"}
                              => k \in DOMAIN stk /\ st[k] = stk[k]
  BY <1>4, <1>14
<1>19. Stepping(st, n + 1)
  <2>1. (n + 1) + 1 = n + 2 /\ n + 2 \in DOMAIN st
    BY <1>10, <1>11
  <2> QED BY <1>4, <1>11, <2>1 DEF Stepping
<1>20. \A k \in DOMAIN st : Starts(st, am, k) => k = n + 1
  <2> SUFFICES ASSUME NEW k \in DOMAIN st, Starts(st, am, k), k # n + 1 PROVE FALSE
    OBVIOUS
  <2>1. k \in DOMAIN stk /\ stk[k].at = "timer" /\ am[stk[k].a].zero
    BY <1>4, <1>14 DEF Starts
  <2>2. an[stk[k].a].zero
    BY <1>6, <1>15, <2>1 DEF AnimFrames
  <2> QED BY <1>8, <2>1, <2>2 DEF NoZero, Starts
<1>21. OneStop(st)
  BY <1>9, <1>18 DEF OneStop, ElemFrames
<1>22. TimerOk(st, am, {})
  <2> SUFFICES ASSUME NEW k \in DOMAIN st, st[k].at = "timer"
               PROVE  /\ Stepping(st, k) => st[k] = Of("timer", st[k].a)
                      /\ ~am[st[k].a].zero => Stepping(st, k) \/ st[k].end
                      /\ am[st[k].a].zero =>
                            /\ ~am[st[k].a].attached /\ ~st[k].end
                            /\ Stepping(st, k) \/ Over(am, {}, st[k].a)
                            /\ \A j \in DOMAIN st : j > k => st[j].at \in {"step", "ended", "unqueue", "user"}
    BY DEF TimerOk
  <2>1. CASE k = n + 1
    <3>1. \A j \in DOMAIN st : j > k => j = n + 2
      BY <1>10, <1>11, <2>1
    <3> QED BY <1>4, <1>5, <1>6, <1>11, <1>19, <2>1, <3>1
  <2>2. CASE k # n + 1
    <3>1. k \in DOMAIN stk /\ st[k] = stk[k]
      BY <1>4, <1>14, <2>2
    <3>2. ~am[st[k].a].zero /\ ~an[st[k].a].zero
      BY <1>6, <1>8, <1>15, <3>1 DEF AnimFrames, NoZero, Starts
    <3>3. /\ Stepping(stk, k) => stk[k] = Of("timer", stk[k].a)
          /\ ~an[stk[k].a].zero => Stepping(stk, k) \/ stk[k].end
      BY <1>9, <3>1 DEF TimerOk
    <3> QED BY <1>17, <3>1, <3>2, <3>3
  <2> QED BY <2>1, <2>2
<1>23. LastOk(st, am, tn)
  BY <1>4, <1>11, <1>12, <1>20 DEF LastOk
<1>24. TickOk(st, am, {})
  <2> SUFFICES ASSUME NEW k \in DOMAIN stk, stk[k].at \in {"fxticked", "ended"}
               PROVE  /\ stk[k].at = "fxticked" => Stepping(stk, k) \/ stk[k].end \/ Over(am, {}, stk[k].a)
                      /\ stk[k].at = "ended" =>
                           Over(am, {}, stk[k].a) /\ (k > 1 /\ st[k - 1].at = "timer" => am[stk[k].a].zero)
    BY <1>17, <1>18 DEF TickOk
  <2>1. /\ stk[k].at = "fxticked" => Stepping(stk, k) \/ stk[k].end \/ Over(an, {}, stk[k].a)
        /\ stk[k].at = "ended" =>
             Over(an, {}, stk[k].a) /\ (k > 1 /\ stk[k - 1].at = "timer" => an[stk[k].a].zero)
    BY <1>9 DEF TickOk
  <2>2. stk[k].a \in Anim /\ stk[k].a # a
    BY <1>15 DEF AnimFrames
  <2>3. k > 1 => k - 1 \in DOMAIN stk /\ st[k - 1] = stk[k - 1]
    BY <1>10, <1>13
  <2> QED BY <1>6, <1>16, <2>1, <2>2, <2>3
<1>25. RunningOk(st, am, tn, {})
  <2> SUFFICES ASSUME NEW c \in Anim
               PROVE  \/ Over(am, {}, c) \/ Stops(st, c)
                      \/ ~am[c].stopped /\ \E j \in DOMAIN tn : tn[j] = c
    BY DEF RunningOk
  <2>1. CASE c = a
    <3>1. Len(tm) + 1 \in DOMAIN tn
      BY <1>12
    <3> QED BY <1>6, <1>12, <2>1, <3>1
  <2>2. CASE c # a
    <3>1. Over(an, {}, c) \/ Stops(stk, c) \/ (~an[c].stopped /\ \E j \in DOMAIN tm : tm[j] = c)
      BY <1>9 DEF RunningOk
    <3>2. Stops(stk, c) => Stops(st, c)
      BY <1>13 DEF Stops
    <3> QED BY <1>6, <1>12, <1>16, <2>2, <3>1, <3>2
  <2> QED BY <2>1, <2>2
<1>26. SpliceOk(st, am, tn, {})
  <2> SUFFICES ASSUME NEW k \in DOMAIN stk, stk[k].at = "splice"
               PROVE  /\ stk[k].i <= Len(tn)
                      /\ Over(am, {}, tn[stk[k].i]) \/ Stops(st, tn[stk[k].i])
                      /\ (\E l \in DOMAIN st : Starts(st, am, l)) => stk[k].i < Len(tn)
    BY <1>18 DEF SpliceOk
  <2>1. /\ stk[k].i <= Len(tm)
        /\ Over(an, {}, tm[stk[k].i]) \/ Stops(stk, tm[stk[k].i])
    BY <1>9 DEF SpliceOk
  <2>2. stk[k].i \in Nat /\ stk[k].i >= 1
    <3>1. stk[k].i \in Nat
      BY <1>7, FrameIs DEF stk
    <3> QED BY <1>8, <3>1 DEF FramesOk
  <2>3. stk[k].i \in DOMAIN tm
    BY <1>12, <2>1, <2>2
  <2>4. Stops(stk, tm[stk[k].i]) => Stops(st, tm[stk[k].i])
    BY <1>13 DEF Stops
  <2> QED BY <1>12, <1>16, <2>1, <2>2, <2>3, <2>4
<1>27. IntervalOk(st, am, tn, s.timerId)
  <2>1. CASE s.timerId
    BY <2>1 DEF IntervalOk
  <2>2. CASE tm = <<>>
    <3>1. Len(tn) = 1 /\ n + 1 \in DOMAIN st
      BY <1>10, <1>11, <1>12, <2>2
    <3> QED BY <1>4, <1>11, <3>1 DEF IntervalOk, Starts
  <2>3. CASE \E k \in DOMAIN stk : stk[k].at = "timer" /\ ~an[stk[k].a].zero
    <3>1. \E k \in DOMAIN st : st[k].at = "timer" /\ ~am[st[k].a].zero
      BY <1>6, <1>13, <1>15, <2>3 DEF AnimFrames
    <3> QED BY <3>1 DEF IntervalOk
  <2> QED BY <1>8, <1>9, <2>1, <2>2, <2>3 DEF IntervalOk, NoZero
<1>28. Snd(t, {}, {}, {})
  BY <1>6, <1>21, <1>22, <1>23, <1>24, <1>25, <1>26, <1>27 DEF Snd, st, am, tn
<1> QED BY <1>2, <1>28

LEMMA SndWeakens ==
    ASSUME NEW s, NEW X, NEW Y, NEW Z, NEW U, NEW V, NEW W, Base(s), Snd(s, X, Y, Z),
           X \subseteq U, Y \subseteq V, Z \subseteq W
    PROVE  Snd(s, U, V, W)
<1>1. Animated(s, s)
  BY DEF Base, Animated
<1>2. RunningOk(s.stack, s.anims, s.timers, W)
  BY DEF Snd, RunningOk, Over
<1>3. /\ \A a \in Anim : Over(s.anims, X, a) => Over(s.anims, U, a)
      /\ \A a \in Anim : Over(s.anims, Y, a) => Over(s.anims, V, a)
  BY DEF Over
<1> QED BY <1>1, <1>2, <1>3, SndAges
-----------------------------------------------------------------------------
\* Queues.
LEMMA SndEmptyFire ==
    ASSUME NEW s, NEW e \in Elem, NEW X, NEW Y, NEW Z, Base(s), Snd(s, X, Y, Z)
    PROVE  Snd(EmptyFire(s, e), X, Y, Z)
<1> DEFINE t == EmptyFire(s, e)
<1>1. t = s \/ Fires(s, e, t)
  BY EmptyFireIs DEF Base
<1> HIDE DEF t
<1>2. ASSUME Fires(s, e, t) PROVE Snd(t, X, Y, Z)
  BY <1>2, SndTells DEF Fires
<1>3. Snd(t, X, Y, Z)
  BY <1>1, <1>2
<1> QED BY <1>3 DEF t

LEMMA SndDequeue ==
    ASSUME NEW s, NEW e \in Elem, Base(s), Snd(s, {}, {}, {}), NoZero(s.stack, s.anims)
    PROVE  Snd(Dequeue(s, e), {}, {}, {})
<1>1. PICK u : /\ Base(u) /\ Rearranged(s, u)
               /\ \/ Dequeue(s, e) = EmptyFire(u, e)
                  \/ \E a : Fresh(u, a) /\ Dequeue(s, e) = DoAnimation(u, a)
  BY DequeueTakes
<1>2. Snd(u, {}, {}, {}) /\ NoZero(u.stack, u.anims)
  BY <1>1, SndRearranged DEF Rearranged
<1>3. CASE Dequeue(s, e) = EmptyFire(u, e)
  BY <1>1, <1>2, <1>3, SndEmptyFire
<1>4. ASSUME NEW a, Fresh(u, a), Dequeue(s, e) = DoAnimation(u, a) PROVE Snd(Dequeue(s, e), {}, {}, {})
  BY <1>1, <1>2, <1>4, SndDoAnimation DEF Fresh
<1> QED BY <1>1, <1>3, <1>4

LEMMA SndQueue ==
    ASSUME NEW s, NEW e \in Elem, NEW q \in Entries, Base(s), Base(QueueSet(s, e, q)),
           Snd(s, {}, {}, {}), NoZero(s.stack, s.anims)
    PROVE  Snd(Queue(s, e, q), {}, {}, {})
<1> DEFINE u == QueueSet(s, e, q) h == QueueHooks(u, e)
<1>1. Rearranged(s, u) /\ Base(u)
  BY QueueSetIs DEF Base, Requeued
<1>2. Queue(s, e, q) = IF q # <<>> /\ Head(q) = InProgress THEN h ELSE Dequeue(h, e)
  BY DEF Queue, QueueSet
<1> HIDE DEF u
<1>3. Hooked(u, h)
  BY <1>1, QueueHooksIs DEF Base
<1>4. Base(h)
  BY <1>1, <1>3, BaseHooked
<1> HIDE DEF h
<1>5. Rearranged(u, h)
  BY <1>3 DEF Hooked
<1>6. Snd(h, {}, {}, {}) /\ NoZero(h.stack, h.anims)
  BY <1>1, <1>5, SndRearranged DEF Rearranged
<1>7. Snd(Dequeue(h, e), {}, {}, {})
  BY <1>4, <1>6, SndDequeue
<1> QED BY <1>2, <1>6, <1>7

LEMMA SndGoes == ASSUME NEW s, Base(s), Snd(s, {}, {}, {}), Goes(s) PROVE Snd(fx', {}, {}, {})
BY SweepIs, SndSweeps DEF Goes, Base

\* The innermost call is over, and no timer waits for it.
LEMMA SndPop ==
    ASSUME NEW s, Base(s), Snd(s, {}, {}, {}), s.stack # <<>>,
           s.stack[Len(s.stack)].at \notin {"timer", "step", "end"}
    PROVE  /\ Base(Pop(s)) /\ Snd(Pop(s), {}, {}, {}) /\ Pop(s).anims = s.anims
           /\ s.stack[Len(s.stack)].at \notin {"ended", "unqueue", "user"} => NoZero(Pop(s).stack, Pop(s).anims)
<1>1. Base(Pop(s)) /\ Stacked(s, Pop(s)) /\ Drops(s.stack, Pop(s).stack)
  BY BasePop, PopIs DEF Base
<1>2. Pop(s).anims = s.anims
  BY <1>1 DEF Stacked
<1>3. Snd(Pop(s), {}, {}, {})
  <2> DEFINE none == {}
  <2>1. none \subseteq none /\ Snd(s, none, none, none)
    OBVIOUS
  <2> HIDE DEF none
  <2>2. Snd(Pop(s), none, none, none)
    BY <1>1, <2>1, SndDrops
  <2> QED BY <2>2 DEF none
<1>4. ASSUME NoZero(s.stack, s.anims) PROVE NoZero(Pop(s).stack, Pop(s).anims)
  <2>1. s.stack \in Seq(FrameVars)
    BY FxIs DEF Base
  <2>2. \A k \in DOMAIN Pop(s).stack : k \in DOMAIN s.stack /\ Pop(s).stack[k] = s.stack[k]
    BY <1>1, <2>1 DEF Drops
  <2> QED BY <1>2, <1>4, <2>2 DEF NoZero, Starts
<1>5. s.stack[Len(s.stack)].at \notin {"ended", "unqueue", "user"} => NoZero(s.stack, s.anims)
  BY TopNoZero DEF Snd
<1> QED BY <1>1, <1>2, <1>3, <1>4, <1>5
-----------------------------------------------------------------------------
\* What jQuery does when a function returns.
LEMMA SndReturn == ASSUME Base(fx), Snd(fx, {}, {}, {}), Return PROVE Snd(fx', {}, {}, {})
<1>1. fx.stack # <<>> /\ fx.stack[Len(fx.stack)].at = "user" /\ Goes(Pop(fx))
  BY DEF Return, At, Top
<1> QED BY <1>1, SndPop, SndGoes

LEMMA SndDequeueNext == ASSUME Base(fx), Snd(fx, {}, {}, {}), DequeueNext PROVE Snd(fx', {}, {}, {})
<1>1. /\ fx.stack # <<>> /\ Top.at = "complete" /\ fx.stack[Len(fx.stack)].at = "complete"
      /\ Goes(Dequeue(Pop(fx), fx.anims[Top.a].of))
  BY DEF DequeueNext, At, Top
<1>2. fx.anims[Top.a].of \in Elem
  BY <1>1, TopIs DEF Top, AnimFrames
<1>3. Base(Pop(fx)) /\ Snd(Pop(fx), {}, {}, {}) /\ NoZero(Pop(fx).stack, Pop(fx).anims)
  BY <1>1, SndPop
<1> DEFINE s == Pop(fx) e == fx.anims[Top.a].of t == Dequeue(s, e)
<1> HIDE DEF s, e
<1>4. Base(t) /\ Snd(t, {}, {}, {})
  BY <1>2, <1>3, BaseDequeues, SndDequeue DEF s, e
<1>5. Goes(t)
  BY <1>1 DEF s, e
<1> HIDE DEF t
<1> QED BY <1>4, <1>5, SndGoes

LEMMA SndEnd == ASSUME Base(fx), Snd(fx, {}, {}, {}), End PROVE Snd(fx', {}, {}, {})
<1> DEFINE a == Top.a s == Pop(fx) t == Settle(s, a, "resolved")
<1>1. fx.stack # <<>> /\ Top.at = "end" /\ fx.stack[Len(fx.stack)].at = "end" /\ Goes(t)
  BY DEF End, At, Top
<1>2. a \in Anim /\ fx.stack[Len(fx.stack)].a = a
  BY <1>1, TopIs DEF Top, AnimFrames
<1>3. Base(s) /\ Stacked(fx, s) /\ Drops(fx.stack, s.stack)
  BY <1>1, BasePop, PopIs DEF Base
<1> HIDE DEF s, a
<1>4. NoZero(s.stack, s.anims)
  <2>1. NoZero(fx.stack, fx.anims)
    BY <1>1, TopNoZero DEF Snd
  <2>2. fx.stack \in Seq(FrameVars)
    BY FxIs DEF Base
  <2>3. \A k \in DOMAIN s.stack : k \in DOMAIN fx.stack /\ s.stack[k] = fx.stack[k]
    BY <1>3, <2>2 DEF Drops
  <2> QED BY <1>3, <2>1, <2>3 DEF NoZero, Starts, Stacked
<1> DEFINE none == {} one == {a}
<1>5. none \subseteq one /\ one \subseteq one /\ a \in one /\ Snd(fx, none, none, none)
  OBVIOUS
<1> HIDE DEF none, one
<1>6. Snd(s, none, one, one)
  BY <1>1, <1>2, <1>3, <1>5, SndDrops
<1>7. Snd(s, one, one, one)
  BY <1>3, <1>5, <1>6, SndWeakens
<1>8. Snd(t, {}, {}, {}) /\ Base(t)
  BY <1>2, <1>3, <1>4, <1>7, SndSettles, BaseSettles DEF one
<1> HIDE DEF t
<1> QED BY <1>1, <1>8, SndGoes

LEMMA SndUnqueue == ASSUME Base(fx), Snd(fx, {}, {}, {}), Unqueue PROVE Snd(fx', {}, {}, {})
<1> DEFINE a == Top.a e == fx.anims[a].of p == Pop(fx) l == LessOne(p, e) t == EmptyFire(l, e)
<1>1. fx.stack # <<>> /\ Top.at = "unqueue" /\ fx.stack[Len(fx.stack)].at = "unqueue"
      /\ Goes(IF fx.queue[e] = <<>> THEN t ELSE l)
  BY DEF Unqueue, At, LessOne, Top
<1>2. e \in Elem
  BY <1>1, TopIs DEF Top, AnimFrames
<1>3. Base(p) /\ Snd(p, {}, {}, {})
  BY <1>1, SndPop
<1> HIDE DEF p, e, a
<1>4. Rearranged(p, l)
  BY <1>2, <1>3, LessIs DEF Base
<1> HIDE DEF l
<1>5. Snd(l, {}, {}, {})
  BY <1>3, <1>4, SndRearranged DEF Rearranged
<1>6. Base(l)
  BY <1>1, BaseLess DEF At, l, p, e, a
<1>7. Base(t) /\ Snd(t, {}, {}, {})
  BY <1>2, <1>5, <1>6, BaseEmptyFire, SndEmptyFire
<1> HIDE DEF t
<1> QED BY <1>1, <1>5, <1>6, <1>7, SndGoes

LEMMA SndMade == ASSUME Base(fx), Snd(fx, {}, {}, {}), Made PROVE Snd(fx', {}, {}, {})
<1> DEFINE a == Top.a s == Pop(fx) yes == TRUE t == StopAnim(s, a, yes)
<1>1. /\ fx.stack # <<>> /\ Top.at = "made" /\ fx.stack[Len(fx.stack)].at = "made"
      /\ Goes(t) \/ Goes(s)
  BY DEF Made, At, Top
<1>2. a \in Anim /\ Started(fx.anims, a) /\ yes \in BOOLEAN
  BY <1>1, TopIs DEF Top, AnimFrames
<1>3. Base(s) /\ Snd(s, {}, {}, {}) /\ NoZero(s.stack, s.anims) /\ s.anims = fx.anims
  BY <1>1, SndPop
<1> HIDE DEF s, a, yes
<1>4. Snd(s, {}, {a}, {})
  <2> DEFINE none == {} one == {a}
  <2>1. none \subseteq none /\ none \subseteq one /\ Snd(s, none, none, none)
    BY <1>3
  <2> HIDE DEF none, one
  <2>2. Snd(s, none, one, none)
    BY <1>3, <2>1, SndWeakens
  <2> QED BY <2>2 DEF none, one
<1>5. Snd(t, {}, {}, {}) /\ Base(t)
  BY <1>2, <1>3, <1>4, SndStopAnim, BaseStopAnim
<1> HIDE DEF t
<1> QED BY <1>1, <1>3, <1>5, SndGoes
-----------------------------------------------------------------------------
\* The position of a timer that the loop has stopped.
SpliceFits(f, tm, W) == f.at = "splice" => f.i <= Len(tm) /\ tm[f.i] \in W

\* The loops of stop and finish.  A call of an element goes on; a timer of an
\* animation that is over, or being ended, may go.
LEMMA SndPuts ==
    ASSUME NEW s, NEW t, NEW f, NEW X, NEW Y, NEW Z, NEW W, Base(s), Snd(s, X, Y, Z),
           s.stack # <<>>, s.stack[Len(s.stack)].at \in ElemFrames,
           t.timerId = s.timerId, t.anims = s.anims, Puts(s.stack, f, t.stack),
           f.at \in ElemFrames, Y \subseteq W,
           SpliceFits(f, t.timers, W),
           s.timers = <<>> => t.timers = <<>>,
           \A a \in Anim : \/ Over(s.anims, Z, a) \/ Stops(s.stack, a)
                           \/ (\E j \in DOMAIN s.timers : s.timers[j] = a) => \E j \in DOMAIN t.timers : t.timers[j] = a
    PROVE  Snd(t, X, W, Z) /\ NoZero(t.stack, t.anims)
<1> DEFINE stk == s.stack st == t.stack an == s.anims tm == s.timers tn == t.timers n == Len(stk) g == stk[n]
<1>1. /\ OneStop(stk) /\ TimerOk(stk, an, X) /\ TickOk(stk, an, X)
      /\ RunningOk(stk, an, tm, Z) /\ IntervalOk(stk, an, tm, s.timerId)
  BY DEF Snd
<1>2. /\ t.timerId = s.timerId /\ t.anims = an
      /\ stk \in Seq(FrameVars) /\ st \in Seq(FrameVars) /\ n \in Nat \ {0}
      /\ DOMAIN stk = 1 .. n /\ DOMAIN st = 1 .. n
      /\ st[n] = f /\ \A k \in 1 .. n : k # n => st[k] = stk[k]
  <2>1. stk \in Seq(FrameVars) /\ n \in Nat \ {0} /\ DOMAIN stk = 1 .. n
    BY TopIs
  <2>2. /\ st \in Seq(FrameVars) /\ Len(st) = n /\ st[n] = f /\ \A k \in 1 .. n - 1 : st[k] = stk[k]
    BY DEF Puts
  <2> HIDE DEF stk, st, n
  <2>3. \A k \in 1 .. n : k # n => k \in 1 .. n - 1
    BY <2>1
  <2> QED BY <2>1, <2>2, <2>3
<1>3. NoZero(stk, an)
  BY <1>1, TopNoZero DEF ElemFrames
<1>4. /\ g.at \in ElemFrames /\ f.at \in ElemFrames /\ Y \subseteq W /\ g = stk[n]
      /\ SpliceFits(f, tn, W)
      /\ tm = <<>> => tn = <<>>
      /\ \A a \in Anim : \/ Over(an, Z, a) \/ Stops(stk, a)
                         \/ (\E j \in DOMAIN tm : tm[j] = a) => \E j \in DOMAIN tn : tn[j] = a
  OBVIOUS
<1> HIDE DEF stk, st, an, tm, tn, n, g
<1>5. \A k \in DOMAIN st : k \in DOMAIN stk /\ k \in Nat /\ (k = n \/ st[k] = stk[k])
  BY <1>2
<1>6. n \in DOMAIN stk /\ n \in DOMAIN st /\ DOMAIN st = DOMAIN stk
  BY <1>2
<1>7. \A k \in DOMAIN st : (st[k].at = "step" <=> stk[k].at = "step") /\ (st[k].at = "timer" <=> stk[k].at = "timer")
  BY <1>2, <1>4, <1>5 DEF ElemFrames
<1>8. \A k \in DOMAIN st : Stepping(st, k) <=> Stepping(stk, k)
  BY <1>6, <1>7 DEF Stepping
<1>9. \A k \in DOMAIN st : st[k].at \notin ElemFrames => st[k] = stk[k] /\ k # n
  BY <1>2, <1>4, <1>5
<1>10. \A k \in DOMAIN stk : stk[k].at \in ElemFrames => k = n
  BY <1>1, <1>4, <1>6 DEF OneStop
<1>11. NoZero(st, an)
  BY <1>3, <1>5, <1>6, <1>9 DEF NoZero, Starts, ElemFrames
<1>12. OneStop(st)
  BY <1>5, <1>10 DEF OneStop
<1>13. TimerOk(st, an, X)
  <2> SUFFICES ASSUME NEW k \in DOMAIN st, st[k].at = "timer"
               PROVE  /\ Stepping(st, k) => st[k] = Of("timer", st[k].a)
                      /\ ~an[st[k].a].zero
                      /\ ~an[st[k].a].zero => Stepping(st, k) \/ st[k].end
    BY DEF TimerOk
  <2>1. st[k] = stk[k] /\ k \in DOMAIN stk
    BY <1>5, <1>9 DEF ElemFrames
  <2> QED BY <1>1, <1>3, <1>8, <2>1 DEF TimerOk, NoZero, Starts
<1>14. LastOk(st, an, tn)
  BY <1>11 DEF LastOk, NoZero
<1>15. TickOk(st, an, X)
  <2> SUFFICES ASSUME NEW k \in DOMAIN st, st[k].at \in {"fxticked", "ended"}
               PROVE  /\ st[k].at = "fxticked" => Stepping(st, k) \/ st[k].end \/ Over(an, X, st[k].a)
                      /\ st[k].at = "ended" =>
                           Over(an, X, st[k].a) /\ (k > 1 /\ st[k - 1].at = "timer" => an[st[k].a].zero)
    BY DEF TickOk
  <2>1. k \in DOMAIN stk /\ st[k] = stk[k]
    BY <1>5, <1>9 DEF ElemFrames
  <2>2. k > 1 /\ st[k - 1].at = "timer" => stk[k - 1].at = "timer"
    <3>1. k > 1 => k - 1 \in DOMAIN st
      BY <1>2, <1>5
    <3> QED BY <1>7, <3>1
  <2> QED BY <1>1, <1>8, <2>1, <2>2 DEF TickOk
<1>16. \A a : Stops(stk, a) => Stops(st, a)
  <2> SUFFICES ASSUME NEW k \in DOMAIN stk, stk[k].at = "end" PROVE k \in DOMAIN st /\ st[k] = stk[k]
    BY DEF Stops
  <2>1. k # n
    BY <1>4 DEF ElemFrames
  <2> QED BY <1>5, <1>6, <2>1
<1>17. RunningOk(st, an, tn, Z)
  BY <1>1, <1>4, <1>16 DEF RunningOk
<1>18. SpliceOk(st, an, tn, W)
  <2> SUFFICES ASSUME NEW k \in DOMAIN st, st[k].at = "splice"
               PROVE  /\ st[k].i <= Len(tn)
                      /\ Over(an, W, tn[st[k].i])
    BY <1>11 DEF SpliceOk, NoZero
  <2>1. k = n
    BY <1>5, <1>10 DEF ElemFrames
  <2> QED BY <1>2, <1>4, <2>1 DEF Over, SpliceFits
<1>19. IntervalOk(st, an, tn, s.timerId)
  <2>1. ASSUME NEW k \in DOMAIN stk, stk[k].at = "timer", ~an[stk[k].a].zero
        PROVE  k \in DOMAIN st /\ st[k].at = "timer" /\ ~an[st[k].a].zero
    <3>1. k # n
      BY <1>4, <2>1 DEF ElemFrames
    <3> QED BY <1>5, <1>6, <2>1, <3>1
  <2> QED BY <1>1, <1>3, <1>4, <2>1 DEF IntervalOk, NoZero
<1> QED BY <1>2, <1>11, <1>12, <1>13, <1>14, <1>15, <1>17, <1>18, <1>19 DEF Snd, st, tn, an

\* The same, with the timers as they are.
LEMMA SndGoesOn ==
    ASSUME NEW s, NEW f \in FrameVars, Base(s), Snd(s, {}, {}, {}), s.stack # <<>>,
           s.stack[Len(s.stack)].at \in ElemFrames, f.at \in {"stop", "loop"}
    PROVE  Snd(GoTo(s, f), {}, {}, {}) /\ NoZero(GoTo(s, f).stack, GoTo(s, f).anims)
<1> DEFINE t == GoTo(s, f)
<1>1. Stacked(s, t) /\ Puts(s.stack, f, t.stack)
  BY GoToIs DEF Base
<1> HIDE DEF t
<1>2. t.timers = s.timers /\ t.timerId = s.timerId /\ t.anims = s.anims
  BY <1>1 DEF Stacked
<1> DEFINE none == {}
<1>3. f.at \in ElemFrames /\ SpliceFits(f, t.timers, none)
  BY DEF ElemFrames, SpliceFits
<1>4. none \subseteq none /\ Snd(s, none, none, none)
  OBVIOUS
<1> HIDE DEF none
<1>5. Snd(t, none, none, none) /\ NoZero(t.stack, t.anims)
  BY <1>1, <1>2, <1>3, <1>4, SndPuts
<1> QED BY <1>5 DEF none, t

\* The loop is about to remove the timer of a, which it stops.
LEMMA SndSplices ==
    ASSUME NEW s, NEW f \in FrameVars, Base(s), Snd(s, {}, {}, {}), s.stack # <<>>,
           s.stack[Len(s.stack)].at \in ElemFrames, f.at = "splice", f.i <= Len(s.timers)
    PROVE  Snd(GoTo(s, f), {}, {s.timers[f.i]}, {}) /\ NoZero(GoTo(s, f).stack, GoTo(s, f).anims)
<1> DEFINE t == GoTo(s, f)
<1>1. Stacked(s, t) /\ Puts(s.stack, f, t.stack)
  BY GoToIs DEF Base
<1> HIDE DEF t
<1>2. t.timers = s.timers /\ t.timerId = s.timerId /\ t.anims = s.anims
  BY <1>1 DEF Stacked
<1> DEFINE none == {} one == {s.timers[f.i]}
<1>3. f.at \in ElemFrames /\ SpliceFits(f, t.timers, one)
  BY <1>2 DEF ElemFrames, SpliceFits
<1>4. none \subseteq one /\ Snd(s, none, none, none)
  OBVIOUS
<1> HIDE DEF none, one
<1>5. Snd(t, none, one, none) /\ NoZero(t.stack, t.anims)
  <2>1. /\ s.timers = <<>> => t.timers = <<>>
        /\ \A a \in Anim : \/ Over(s.anims, none, a) \/ Stops(s.stack, a)
                           \/ (\E j \in DOMAIN s.timers : s.timers[j] = a) => \E j \in DOMAIN t.timers : t.timers[j] = a
    BY <1>2
  <2>2. Puts(s.stack, f, t.stack) /\ t.timerId = s.timerId /\ t.anims = s.anims
    BY <1>1, <1>2
  <2> QED BY SMTT(60), <1>3, <1>4, <2>1, <2>2, SndPuts
<1> QED BY <1>5 DEF none, one, t

LEMMA SndStopStart == ASSUME Base(fx), Snd(fx, {}, {}, {}), StopStart PROVE Snd(fx', {}, {}, {})
<1> DEFINE n == Len(fx.timers) f == [Top EXCEPT !.at = "loop", !.i = n] t == GoTo(fx, f)
<1>1. fx.stack # <<>> /\ fx.stack[Len(fx.stack)].at = "stop" /\ Goes(t) /\ Top.at = "stop"
  BY DEF StopStart, At, Top
<1>2. Top \in FrameVars /\ n \in Nat
  <2>1. fx.timers \in Seq(Anim)
    BY FxIs DEF Base
  <2> QED BY <1>1, <2>1, TopIs DEF Top, ElemFrames
<1> HIDE DEF n
<1>3. f \in FrameVars /\ f.at = "loop" /\ f.a = Top.a /\ f.todo = Top.todo
  BY <1>2 DEF FrameVars, Places
<1>e. Top.a \in Elem
  BY <1>1, TopIs DEF Top, ElemFrames
<1> HIDE DEF f
<1>4. FrameGoesOn(fx.anims, Top, f)
  BY <1>1, <1>2, <1>3, <1>e, ElemGoesOn DEF ElemFrames
<1>5. Base(t)
  BY <1>1, <1>4, BaseGoTo DEF Top
<1>6. Snd(t, {}, {}, {})
  BY <1>1, <1>3, SndGoesOn DEF ElemFrames
<1> HIDE DEF t
<1> QED BY <1>1, <1>5, <1>6, SndGoes

LEMMA SndStopLoop == ASSUME Base(fx), Snd(fx, {}, {}, {}), StopLoop, odd' = {} PROVE Snd(fx', {}, {}, {})
<1>1. fx.stack # <<>> /\ Top.at = "loop" /\ Top.i > 0 /\ fx.stack[Len(fx.stack)].at = "loop"
  BY DEF StopLoop, At, Top
<1>2. Top \in FrameVars /\ Top.i \in Nat /\ Top.end \in BOOLEAN
  BY <1>1, TopIs, FrameIs DEF Top
<1>3. CASE /\ Top.i <= Len(fx.timers)
           /\ Goes(StopAnim(GoTo(fx, [Top EXCEPT !.at = "splice", !.dequeue = FALSE]),
                            fx.timers[Top.i], Top.end))
  <2>1. PICK no : no = FALSE
    OBVIOUS
  <2> DEFINE f == [Top EXCEPT !.at = "splice", !.dequeue = no] a == fx.timers[Top.i]
             t == GoTo(fx, f) u == StopAnim(t, a, Top.end)
  <2>2. no \in BOOLEAN
    BY <2>1
  <2>3. f \in FrameVars /\ f.at = "splice" /\ f.a = Top.a /\ f.todo = Top.todo /\ f.i = Top.i
    BY <1>2, <2>2 DEF FrameVars, Places
  <2>4. Goes(u)
    BY <1>3, <2>1
  <2> HIDE DEF f
  <2>5. FrameGoesOn(fx.anims, Top, f)
    BY <1>1, <1>2, <2>3, ElemGoesOn DEF ElemFrames
  <2>6. Base(t) /\ Stacked(fx, t) /\ Puts(fx.stack, f, t.stack)
    BY <1>1, <2>5, BaseGoTo DEF Top
  <2> HIDE DEF t
  <2>7. a \in Anim /\ Started(fx.anims, a)
    <3>1. fx.timers \in Seq(Anim) /\ Top.i \in DOMAIN fx.timers
      BY <1>1, <1>2, <1>3, FxIs DEF Base
    <3> QED BY <3>1 DEF Base, TimersOk
  <2>8. t.timers = fx.timers /\ t.timerId = fx.timerId /\ t.anims = fx.anims /\ Started(t.anims, a)
    BY <2>6, <2>7 DEF Stacked
  <2>11. Snd(t, {}, {a}, {}) /\ NoZero(t.stack, t.anims)
    BY <1>1, <1>3, <2>3, SndSplices DEF ElemFrames, t
  <2> HIDE DEF a
  <2>13. Base(u) /\ Snd(u, {}, {}, {})
    BY <1>2, <2>6, <2>7, <2>8, <2>11, BaseStopAnim, SndStopAnim
  <2>14. Goes(u)
    BY <2>4 DEF t, a
  <2> HIDE DEF u
  <2> QED BY <2>13, <2>14, SndGoes
<1>4. CASE Goes(GoTo(fx, [Top EXCEPT !.i = @ - 1]))
  <2> DEFINE n == Top.i - 1 f == [Top EXCEPT !.i = n] t == GoTo(fx, f)
  <2>1. n \in Nat /\ Goes(t)
    BY <1>1, <1>2, <1>4
  <2> HIDE DEF n
  <2>2. f \in FrameVars /\ f.at = "loop" /\ f.a = Top.a /\ f.todo = Top.todo
    BY <1>1, <1>2, <2>1 DEF FrameVars
  <2> HIDE DEF f
  <2>3. FrameGoesOn(fx.anims, Top, f)
    BY <1>1, <1>2, <2>2, ElemGoesOn DEF ElemFrames
  <2>4. Base(t)
    BY <1>1, <2>3, BaseGoTo DEF Top
  <2>5. Snd(t, {}, {}, {})
    BY <1>1, <2>2, SndGoesOn DEF ElemFrames
  <2> HIDE DEF t
  <2> QED BY <2>1, <2>4, <2>5, SndGoes
<1>5. ~(odd' = odd \cup {"thrown"})
  OBVIOUS
<1> QED BY <1>3, <1>4, <1>5 DEF StopLoop

LEMMA SndStopEnds == ASSUME Base(fx), Snd(fx, {}, {}, {}), StopEnds PROVE Snd(fx', {}, {}, {})
<1> DEFINE s == Pop(fx) e == Top.a t == Dequeue(s, e)
<1>1. fx.stack # <<>> /\ Top.at = "loop" /\ fx.stack[Len(fx.stack)].at = "loop" /\ (Goes(t) \/ Goes(s))
  BY DEF StopEnds, At, Top
<1>2. e \in Elem
  BY <1>1, TopIs DEF Top, ElemFrames
<1>3. Base(s) /\ Snd(s, {}, {}, {}) /\ NoZero(s.stack, s.anims)
  BY <1>1, SndPop
<1> HIDE DEF s, e
<1>4. Base(t) /\ Snd(t, {}, {}, {})
  BY <1>2, <1>3, BaseDequeues, SndDequeue
<1> HIDE DEF t
<1> QED BY <1>1, <1>3, <1>4, SndGoes

LEMMA SndSplice == ASSUME Base(fx), Snd(fx, {}, {}, {}), Splice PROVE Snd(fx', {}, {}, {})
<1> DEFINE n == Top.i - 1 f == [Top EXCEPT !.at = "loop", !.i = n]
           tm == SplicedTimers u == [fx EXCEPT !.timers = tm] t == GoTo(u, f)
<1>1. fx.stack # <<>> /\ Top.at = "splice" /\ Goes(t) /\ fx.stack[Len(fx.stack)] = Top
  BY Zenon DEF Splice, At, SplicedTimers, Top
<1>2. Top \in FrameVars /\ Top.a \in Elem /\ Len(fx.stack) \in DOMAIN fx.stack
  BY <1>1, TopIs DEF ElemFrames
<1>3. /\ fx.timers \in Seq(Anim) /\ Top.i \in Nat /\ n \in Nat /\ tm \in Seq(Anim) /\ Top.i >= 1
      /\ \A j \in DOMAIN tm : \E i \in DOMAIN fx.timers : tm[j] = fx.timers[i]
  BY <1>1, SplicedAre
<1>4. /\ Top.i <= Len(fx.timers)
      /\ Over(fx.anims, {}, fx.timers[Top.i]) \/ Stops(fx.stack, fx.timers[Top.i])
  BY <1>1, <1>2 DEF Snd, SpliceOk
<1>5. \A b \in Anim : \/ Over(fx.anims, {}, b) \/ Stops(fx.stack, b)
                      \/ (\E j \in DOMAIN fx.timers : fx.timers[j] = b) => \E j \in DOMAIN tm : tm[j] = b
  <2> SUFFICES ASSUME NEW b \in Anim, ~Over(fx.anims, {}, b), ~Stops(fx.stack, b),
                      NEW j \in DOMAIN fx.timers, fx.timers[j] = b
               PROVE  \E k \in DOMAIN tm : tm[k] = b
    OBVIOUS
  <2>1. j # Top.i /\ Top.i \in 1 .. Len(fx.timers)
    BY <1>3, <1>4
  <2>2. tm = RemoveAt(fx.timers, Top.i)
    BY <1>4 DEF SplicedTimers
  <2>3. /\ Len(tm) = Len(fx.timers) - 1
        /\ \A k \in 1 .. Len(fx.timers) - 1 : tm[k] = IF k < Top.i THEN fx.timers[k] ELSE fx.timers[k + 1]
    BY <1>3, <2>1, <2>2, RemoveAtIs
  <2> HIDE DEF tm
  <2>4. DOMAIN tm = 1 .. Len(fx.timers) - 1 /\ j \in 1 .. Len(fx.timers) /\ Len(fx.timers) \in Nat
    BY <1>3, <2>3
  <2>5. CASE j < Top.i
    <3>1. j \in DOMAIN tm /\ tm[j] = b
      BY <2>1, <2>3, <2>4, <2>5
    <3> QED BY <3>1
  <2>6. CASE ~(j < Top.i)
    <3> DEFINE k == j - 1
    <3>1. k \in 1 .. Len(fx.timers) - 1 /\ ~(k < Top.i) /\ k + 1 = j
      BY <2>1, <2>4, <2>6
    <3>2. k \in DOMAIN tm /\ tm[k] = b
      BY <2>3, <2>4, <3>1
    <3> QED BY <3>2
  <2> QED BY <2>5, <2>6
<1>6. fx.timers # <<>>
  BY <1>3, <1>4
<1> HIDE DEF n, tm
<1>7. f \in FrameVars /\ f.at = "loop" /\ f.a = Top.a /\ f.todo = Top.todo
  BY <1>2, <1>3 DEF FrameVars, Places
<1>8. Timed(fx, u) /\ u.timers = tm /\ u.timerId = fx.timerId
  BY <1>3, TimersAre DEF Base
<1> HIDE DEF u, f
<1>9. Base(u)
  BY <1>3, <1>8, BaseTimed
<1>10. u.stack = fx.stack /\ u.anims = fx.anims
  BY <1>8 DEF Timed
<1>11. FrameGoesOn(u.anims, u.stack[Len(u.stack)], f)
  BY <1>1, <1>2, <1>7, <1>10, ElemGoesOn DEF ElemFrames
<1>12. Base(t) /\ Stacked(u, t) /\ Puts(fx.stack, f, t.stack)
  BY <1>1, <1>9, <1>10, <1>11, BaseGoTo
<1> HIDE DEF t
<1>13. t.timers = tm /\ t.timerId = fx.timerId /\ t.anims = fx.anims
  BY <1>8, <1>10, <1>12 DEF Stacked
<1> DEFINE none == {}
<1>14. /\ f.at \in ElemFrames /\ SpliceFits(f, t.timers, none) /\ none \subseteq none
       /\ fx.stack[Len(fx.stack)].at \in ElemFrames /\ Snd(fx, none, none, none)
  BY <1>1, <1>7 DEF ElemFrames, SpliceFits
<1>15. \A b \in Anim : \/ Over(fx.anims, none, b) \/ Stops(fx.stack, b)
                       \/ (\E j \in DOMAIN fx.timers : fx.timers[j] = b) => \E j \in DOMAIN t.timers : t.timers[j] = b
  BY <1>5, <1>13
<1>16. fx.timers = <<>> => t.timers = <<>>
  BY <1>6
<1> HIDE DEF none
<1>17. Snd(t, none, none, none)
  BY <1>1, <1>12, <1>13, <1>14, <1>15, <1>16, SndPuts
<1>18. Snd(t, {}, {}, {})
  BY <1>17 DEF none
<1> QED BY <1>1, <1>12, <1>18, SndGoes DEF t

LEMMA SndFinishNext == ASSUME Base(fx), Snd(fx, {}, {}, {}), FinishNext PROVE Snd(fx', {}, {}, {})
<1> DEFINE q == Top.todo r == Tail(q) f == FinishFrame p == FinishSet(Pop(fx), Top.a, FALSE)
           t == GoTo(fx, f) u == DoAnimation(t, Head(r))
<1>1. /\ fx.stack # <<>> /\ Top.at = "loop" /\ q # <<>> /\ fx.stack[Len(fx.stack)].at = "loop"
      /\ Goes(IF r = <<>> THEN p ELSE IF Head(r) = InProgress THEN t ELSE u)
  BY DEF FinishNext, At, FinishSet, FinishFrame, Top
<1>2. /\ Top \in FrameVars /\ Top.a \in Elem /\ f \in FrameVars /\ f.at = "loop"
      /\ Base(t) /\ Stacked(fx, t) /\ Puts(fx.stack, f, t.stack)
      /\ r # <<>> => Head(r) = q[2] /\ 2 \in DOMAIN q
  BY <1>1, FinishIs
<1>3. Base(p) /\ Snd(p, {}, {}, {})
  <2>1. Base(Pop(fx)) /\ Snd(Pop(fx), {}, {}, {}) /\ Pop(fx) \in FxVars
    BY <1>1, SndPop DEF Base
  <2> DEFINE s == Pop(fx)
  <2> HIDE DEF s
  <2>2. Flagged(s, FinishSet(s, Top.a, FALSE))
    <3>1. PICK no \in BOOLEAN : no = FALSE
      OBVIOUS
    <3> QED BY <1>2, <2>1, <3>1, FinishSetIs DEF s
  <2> DEFINE v == FinishSet(s, Top.a, FALSE)
  <2> HIDE DEF v
  <2>3. Base(v) /\ Snd(v, {}, {}, {})
    BY <2>1, <2>2, BaseFlagged, SndRearranged DEF Flagged, s, v
  <2> QED BY <2>3 DEF v, s
<1>4. Snd(t, {}, {}, {}) /\ NoZero(t.stack, t.anims)
  BY <1>1, <1>2, SndGoesOn DEF ElemFrames
<1>5. ASSUME r # <<>>, Head(r) # InProgress PROVE Snd(u, {}, {}, {}) /\ Base(u)
  <2> DEFINE a == Head(r)
  <2>1. 2 \in DOMAIN q /\ a = q[2] /\ a # InProgress
    BY <1>2, <1>5
  <2> HIDE DEF a, t
  <2>2. a \in Anim /\ fx.anims[a].state = "queued"
    <3>1. Top = fx.stack[Len(fx.stack)]
      BY DEF Top
    <3>2. Top.at = "loop" /\ 2 \in DOMAIN Top.todo /\ a = Top.todo[2]
      BY <1>1, <2>1
    <3> HIDE DEF q
    <3> QED BY <1>1, <2>1, <3>1, <3>2, NextIs
  <2>3. t.anims = fx.anims
    BY <1>2 DEF Stacked
  <2>4. Snd(DoAnimation(t, a), {}, {}, {})
    BY <1>2, <1>4, <2>2, <2>3, SndDoAnimation
  <2>5. Base(u)
    BY <1>1, <1>5, BaseFinishes DEF t, a
  <2> QED BY <2>4, <2>5 DEF a, t
<1> HIDE DEF q, r, f, t, u, p
<1> QED BY <1>1, <1>2, <1>3, <1>4, <1>5, SndGoes
-----------------------------------------------------------------------------
\* The last step of an animation: its Deferred is about to be settled.
LEMMA SndEndsStep ==
    ASSUME Base(fx), Snd(fx, {}, {}, {}), At("step"), NEW X, X = {Top.a},
           fx.anims[Top.a].zero \/ \A i \in DOMAIN fx.stack : fx.stack[i] # Of("timer", Top.a)
    PROVE  /\ Snd(GoTo(fx, EndedFrame), X, {}, {})
           /\ NoZero(GoTo(fx, EndedFrame).stack, fx.anims) \/ ~fx.anims[Top.a].attached
<1> DEFINE t == GoTo(fx, EndedFrame) stk == fx.stack st == t.stack an == fx.anims tm == fx.timers
           n == Len(stk) a == Top.a
<1>1. /\ OneStop(stk) /\ TimerOk(stk, an, {}) /\ LastOk(stk, an, tm) /\ TickOk(stk, an, {})
      /\ RunningOk(stk, an, tm, {}) /\ SpliceOk(stk, an, tm, {}) /\ IntervalOk(stk, an, tm, fx.timerId)
  BY DEF Snd
<1>2. /\ t.timers = tm /\ t.timerId = fx.timerId /\ t.anims = an
      /\ stk # <<>> /\ Puts(stk, EndedFrame, st) /\ EndedFrame.at = "ended" /\ EndedFrame.a = a
  BY EndedIs DEF Stacked
<1>3. /\ stk \in Seq(FrameVars) /\ n \in Nat \ {0} /\ DOMAIN stk = 1 .. n /\ stk[n] = Top /\ Top.at = "step"
      /\ n > 1 /\ stk[n - 1].at \in {"timer", "fxticked"} /\ stk[n - 1].a = a
  BY <1>2, TopIs DEF At, Top
<1>4. /\ st \in Seq(FrameVars) /\ DOMAIN st = 1 .. n /\ st[n].at = "ended" /\ st[n].a = a
      /\ \A k \in 1 .. n : k # n => st[k] = stk[k]
  <2>1. Len(st) = n /\ st \in Seq(FrameVars) /\ st[n] = EndedFrame /\ \A k \in 1 .. n - 1 : st[k] = stk[k]
    BY <1>2 DEF Puts
  <2> HIDE DEF st, n
  <2>2. \A k \in 1 .. n : k # n => k \in 1 .. n - 1
    BY <1>3
  <2> QED BY <1>2, <2>1, <2>2
<1>5. an[a].zero \/ \A k \in DOMAIN stk : stk[k] # Of("timer", a)
  OBVIOUS
<1> HIDE DEF t, stk, st, an, tm, n, a
<1>6. n \in DOMAIN stk /\ n - 1 \in DOMAIN stk /\ n - 1 # n /\ DOMAIN st = DOMAIN stk
      /\ \A k \in DOMAIN stk : k \in Int /\ (k = n \/ (k < n /\ st[k] = stk[k]))
  BY <1>3, <1>4
<1>7. Stepping(stk, n - 1) /\ ~Stepping(st, n - 1)
  <2>1. (n - 1) + 1 = n
    BY <1>3
  <2> QED BY <1>3, <1>4, <1>6, <2>1 DEF Stepping
<1>8. \A k \in DOMAIN st : k # n - 1 => (Stepping(st, k) <=> Stepping(stk, k))
  <2> SUFFICES ASSUME NEW k \in DOMAIN st, k # n - 1 PROVE Stepping(st, k) <=> Stepping(stk, k)
    OBVIOUS
  <2>1. k + 1 # n
    BY <1>3, <1>6
  <2> QED BY <1>6, <2>1 DEF Stepping
<1>9. stk[n - 1].at = "timer" => an[a].zero
  <2> SUFFICES ASSUME stk[n - 1].at = "timer" PROVE an[a].zero
    OBVIOUS
  <2>1. stk[n - 1] = Of("timer", a)
    BY <1>1, <1>3, <1>6, <1>7 DEF TimerOk
  <2> QED BY <1>5, <1>6, <2>1
<1>10. \A k \in DOMAIN st : st[k].at \notin {"step", "ended"} => k # n /\ st[k] = stk[k]
  BY <1>4, <1>6
<1>11. \A k \in DOMAIN stk : stk[k].at # "step" => k # n /\ st[k] = stk[k]
  BY <1>3, <1>6
<1>12. \A k \in DOMAIN st : Starts(st, an, k) <=> Starts(stk, an, k)
  BY <1>6, <1>10, <1>11 DEF Starts
<1>13. \A b : Stops(stk, b) <=> Stops(st, b)
  BY <1>6, <1>10, <1>11 DEF Stops
<1>14. OneStop(st)
  BY <1>1, <1>6, <1>10 DEF OneStop, ElemFrames
<1>15. TimerOk(st, an, X)
  <2> SUFFICES ASSUME NEW k \in DOMAIN st, st[k].at = "timer"
               PROVE  /\ Stepping(st, k) => st[k] = Of("timer", st[k].a)
                      /\ ~an[st[k].a].zero => Stepping(st, k) \/ st[k].end
                      /\ an[st[k].a].zero =>
                            /\ ~an[st[k].a].attached /\ ~st[k].end
                            /\ Stepping(st, k) \/ Over(an, X, st[k].a)
                            /\ \A j \in DOMAIN st : j > k => st[j].at \in {"step", "ended", "unqueue", "user"}
    BY DEF TimerOk
  <2>1. st[k] = stk[k] /\ k \in DOMAIN stk /\ k # n
    BY <1>6, <1>10
  <2>2. /\ Stepping(stk, k) => stk[k] = Of("timer", stk[k].a)
        /\ ~an[stk[k].a].zero => Stepping(stk, k) \/ stk[k].end
        /\ an[stk[k].a].zero =>
              /\ ~an[stk[k].a].attached /\ ~stk[k].end
              /\ Stepping(stk, k) \/ Over(an, {}, stk[k].a)
              /\ \A j \in DOMAIN stk : j > k => stk[j].at \in {"step", "ended", "unqueue", "user"}
    BY <1>1, <2>1 DEF TimerOk
  <2>3. an[st[k].a].zero => \A j \in DOMAIN st : j > k => st[j].at \in {"step", "ended", "unqueue", "user"}
    BY <1>4, <1>6, <2>1, <2>2
  <2>4. CASE k = n - 1
    <3>1. st[k].a = a /\ an[a].zero /\ ~Stepping(st, k)
      BY <1>3, <1>7, <1>9, <2>1, <2>4
    <3>2. Over(an, X, a)
      BY DEF Over, a
    <3> QED BY <2>1, <2>2, <2>3, <3>1, <3>2
  <2>5. CASE k # n - 1
    BY <1>8, <2>1, <2>2, <2>3, <2>5 DEF Over
  <2> QED BY <2>4, <2>5
<1>16. LastOk(st, an, tm)
  BY <1>1, <1>6, <1>10, <1>12 DEF LastOk, Starts
<1>17. TickOk(st, an, X)
  <2> SUFFICES ASSUME NEW k \in DOMAIN st
               PROVE  /\ st[k].at = "fxticked" => Stepping(st, k) \/ st[k].end \/ Over(an, X, st[k].a)
                      /\ st[k].at = "ended" =>
                           Over(an, X, st[k].a) /\ (k > 1 /\ st[k - 1].at = "timer" => an[st[k].a].zero)
    BY DEF TickOk
  <2>1. Over(an, X, a)
    BY DEF Over, a
  <2>2. CASE k = n
    <3>1. st[n - 1] = stk[n - 1]
      BY <1>6
    <3> QED BY <1>4, <1>9, <2>1, <2>2, <3>1
  <2>3. CASE k = n - 1
    <3>1. st[k] = stk[k]
      BY <1>6, <2>3
    <3> QED BY <1>3, <2>1, <2>3, <3>1
  <2>4. CASE k # n /\ k # n - 1
    <3>1. st[k] = stk[k] /\ k \in DOMAIN stk /\ (Stepping(st, k) <=> Stepping(stk, k))
      BY <1>6, <1>8, <2>4
    <3>2. k > 1 => st[k - 1] = stk[k - 1]
      <4>1. k > 1 => k - 1 \in 1 .. n /\ k - 1 # n
        BY <1>3, <1>6, <2>4
      <4> QED BY <1>4, <4>1
    <3> QED BY <1>1, <3>1, <3>2 DEF TickOk, Over
  <2> QED BY <2>2, <2>3, <2>4
<1>18. RunningOk(st, an, tm, {})
  BY <1>1, <1>13 DEF RunningOk
<1>19. SpliceOk(st, an, tm, {})
  BY <1>1, <1>6, <1>10, <1>12, <1>13 DEF SpliceOk
<1>20. IntervalOk(st, an, tm, fx.timerId)
  <2>1. \A k \in DOMAIN stk : stk[k].at = "timer" => k \in DOMAIN st /\ st[k] = stk[k]
    BY <1>6, <1>11
  <2> QED BY <1>1, <1>12, <2>1 DEF IntervalOk, Starts
<1>21. NoZero(st, an) \/ ~an[a].attached
  <2> SUFFICES ASSUME NEW k \in DOMAIN st, Starts(st, an, k) PROVE ~an[a].attached
    BY DEF NoZero
  <2>1. /\ k \in DOMAIN stk /\ stk[k].at = "timer" /\ an[stk[k].a].zero
        /\ ~an[stk[k].a].attached
        /\ \A j \in DOMAIN stk : j > k => stk[j].at \in {"step", "ended", "unqueue", "user"}
    BY <1>1, <1>6, <1>12 DEF Starts, TimerOk
  <2>2. k # n /\ ~(n - 1 > k)
    BY <1>3, <1>6, <2>1
  <2>3. k = n - 1
    BY <1>3, <1>6, <2>1, <2>2
  <2> QED BY <1>3, <2>1, <2>3
<1>22. Snd(t, X, {}, {})
  BY <1>2, <1>14, <1>15, <1>16, <1>17, <1>18, <1>19, <1>20 DEF Snd, st
<1> QED BY <1>21, <1>22 DEF st, an, a, t

\* A tick tells fx.timer, or the loop of fx.tick, whether time is left.
LEMMA SndAnswers ==
    ASSUME NEW v \in BOOLEAN, Base(fx), Snd(fx, {}, {}, {}),
           \/ At("step") /\ v /\ ~fx.anims[Top.a].zero
           \/ At("ended") /\ ~v
    PROVE  Snd([Pop(fx) EXCEPT !.stack[Len(fx.stack) - 1].end = v], {}, {}, {})
<1> DEFINE n == Len(fx.stack) p == Pop(fx) t == [p EXCEPT !.stack[n - 1].end = v]
           f == [p.stack[Len(p.stack)] EXCEPT !.end = v]
           stk == fx.stack st == t.stack an == fx.anims tm == fx.timers a == Top.a
<1>1. /\ OneStop(stk) /\ TimerOk(stk, an, {}) /\ LastOk(stk, an, tm) /\ TickOk(stk, an, {})
      /\ RunningOk(stk, an, tm, {}) /\ SpliceOk(stk, an, tm, {}) /\ IntervalOk(stk, an, tm, fx.timerId)
  BY DEF Snd
<1>2. /\ stk # <<>> /\ Top.at \in {"step", "ended"}
      /\ \/ Top.at = "step" /\ v = TRUE /\ ~an[a].zero
         \/ Top.at = "ended" /\ v = FALSE
  BY DEF At
<1>3. /\ stk \in Seq(FrameVars) /\ n \in Nat \ {0} /\ DOMAIN stk = 1 .. n /\ stk[n] = Top /\ stk[n].a = a
      /\ n > 1 /\ stk[n - 1].at \in {"timer", "fxticked"} /\ stk[n - 1].a = a
  BY <1>2, TopIs DEF Top
<1>4. /\ Stacked(p, t) /\ Puts(p.stack, f, t.stack) /\ f.at = p.stack[Len(p.stack)].at
      /\ f.a = p.stack[Len(p.stack)].a /\ f.end = v
  BY BaseAnswers
<1>5. Stacked(fx, p) /\ Drops(stk, p.stack)
  BY <1>2, PopIs DEF Base
<1>6. /\ t.timers = tm /\ t.timerId = fx.timerId /\ t.anims = an
  BY <1>4, <1>5 DEF Stacked
<1> HIDE DEF t, p, f
<1>7. Len(p.stack) = n - 1 /\ \A k \in 1 .. n - 1 : p.stack[k] = stk[k]
  BY <1>5 DEF Drops
<1>8. /\ st \in Seq(FrameVars) /\ DOMAIN st = 1 .. n - 1
      /\ st[n - 1].at = stk[n - 1].at /\ st[n - 1].a = a /\ st[n - 1].end = v
      /\ \A k \in 1 .. n - 1 : k # n - 1 => st[k] = stk[k]
  <2>1. /\ st \in Seq(FrameVars) /\ Len(st) = Len(p.stack) /\ st[Len(p.stack)] = f
        /\ \A k \in 1 .. Len(p.stack) - 1 : st[k] = p.stack[k]
    BY <1>4 DEF Puts
  <2> DEFINE m == n - 1
  <2>2. m \in Nat /\ m \in 1 .. m /\ stk[m].a = a /\ m = n - 1
    BY <1>3
  <2> HIDE DEF m, st, n
  <2>3. Len(p.stack) = m /\ \A k \in 1 .. m : p.stack[k] = stk[k]
    BY <1>7, <2>2
  <2>4. st[m].at = stk[m].at /\ st[m].a = a /\ st[m].end = v /\ DOMAIN st = 1 .. m
    BY <1>4, <2>1, <2>2, <2>3
  <2>5. \A k \in 1 .. m : k # m => st[k] = stk[k]
    BY <2>1, <2>2, <2>3
  <2> QED BY <2>1, <2>2, <2>4, <2>5
<1> HIDE DEF stk, st, an, tm, n, a
<1>9. /\ n \in DOMAIN stk /\ n - 1 \in DOMAIN stk /\ n - 1 \in DOMAIN st /\ n - 1 # n
      /\ \A k \in DOMAIN st : /\ k \in Int /\ k < n /\ k \in DOMAIN stk
                              /\ st[k].at = stk[k].at /\ st[k].a = stk[k].a
                              /\ k # n - 1 => st[k] = stk[k]
      /\ \A k \in DOMAIN stk : k = n \/ k \in DOMAIN st
  BY <1>3, <1>8
<1>10. ~Stepping(st, n - 1)
  <2>1. (n - 1) + 1 \notin DOMAIN st
    BY <1>3, <1>8
  <2> QED BY <2>1 DEF Stepping
<1>11. \A k \in DOMAIN st : k # n - 1 => (Stepping(st, k) <=> Stepping(stk, k))
  <2> SUFFICES ASSUME NEW k \in DOMAIN st, k # n - 1 PROVE Stepping(st, k) <=> Stepping(stk, k)
    OBVIOUS
  <2>1. k + 1 \in DOMAIN st
    BY <1>3, <1>8
  <2> QED BY <1>9, <2>1 DEF Stepping
<1>12. v = FALSE => Over(an, {}, a) /\ (stk[n - 1].at = "timer" => an[a].zero)
  BY <1>1, <1>2, <1>3, <1>9 DEF TickOk
<1>13. v = TRUE => ~an[a].zero
  BY <1>2
<1>14. \A k \in DOMAIN st : Starts(st, an, k) <=> Starts(stk, an, k)
  BY <1>9 DEF Starts
<1>15. \A b : Stops(stk, b) <=> Stops(st, b)
  BY <1>2, <1>3, <1>9 DEF Stops
<1>16. OneStop(st)
  BY <1>1, <1>9 DEF OneStop
<1>17. TimerOk(st, an, {})
  <2> SUFFICES ASSUME NEW k \in DOMAIN st, st[k].at = "timer"
               PROVE  /\ Stepping(st, k) => st[k] = Of("timer", st[k].a)
                      /\ ~an[st[k].a].zero => Stepping(st, k) \/ st[k].end
                      /\ an[st[k].a].zero =>
                            /\ ~an[st[k].a].attached /\ ~st[k].end
                            /\ Stepping(st, k) \/ Over(an, {}, st[k].a)
                            /\ \A j \in DOMAIN st : j > k => st[j].at \in {"step", "ended", "unqueue", "user"}
    BY DEF TimerOk
  <2>1. stk[k].at = "timer" /\ st[k].a = stk[k].a /\ k \in DOMAIN stk
    BY <1>9
  <2>2. /\ Stepping(stk, k) => stk[k] = Of("timer", stk[k].a)
        /\ ~an[stk[k].a].zero => Stepping(stk, k) \/ stk[k].end
        /\ an[stk[k].a].zero =>
              /\ ~an[stk[k].a].attached /\ ~stk[k].end
              /\ Stepping(stk, k) \/ Over(an, {}, stk[k].a)
              /\ \A j \in DOMAIN stk : j > k => stk[j].at \in {"step", "ended", "unqueue", "user"}
    BY <1>1, <2>1 DEF TimerOk
  <2>3. an[st[k].a].zero => \A j \in DOMAIN st : j > k => st[j].at \in {"step", "ended", "unqueue", "user"}
    BY <1>9, <2>1, <2>2
  <2>4. CASE k = n - 1
    <3>1. st[k].a = a /\ st[k].end = v /\ ~Stepping(st, k) /\ stk[n - 1].at = "timer"
      BY <1>8, <1>10, <2>1, <2>4
    <3>2. v = TRUE \/ v = FALSE
      OBVIOUS
    <3> QED BY <1>12, <1>13, <2>1, <2>2, <2>3, <3>1, <3>2
  <2>5. CASE k # n - 1
    BY <1>9, <1>11, <2>1, <2>2, <2>3, <2>5
  <2> QED BY <2>4, <2>5
<1>18. LastOk(st, an, tm)
  BY <1>1, <1>9, <1>14 DEF LastOk
<1>19. TickOk(st, an, {})
  <2> SUFFICES ASSUME NEW k \in DOMAIN st
               PROVE  /\ st[k].at = "fxticked" => Stepping(st, k) \/ st[k].end \/ Over(an, {}, st[k].a)
                      /\ st[k].at = "ended" =>
                           Over(an, {}, st[k].a) /\ (k > 1 /\ st[k - 1].at = "timer" => an[st[k].a].zero)
    BY DEF TickOk
  <2>1. CASE k = n - 1
    <3>1. st[k].at \in {"timer", "fxticked"} /\ st[k].end = v /\ st[k].a = a
      BY <1>3, <1>8, <2>1
    <3> QED BY <1>12, <3>1
  <2>2. CASE k # n - 1
    <3>1. st[k] = stk[k] /\ k \in DOMAIN stk /\ (Stepping(st, k) <=> Stepping(stk, k))
      BY <1>9, <1>11, <2>2
    <3>2. k > 1 => st[k - 1] = stk[k - 1]
      <4>1. k > 1 => k - 1 \in 1 .. n - 1 /\ k - 1 # n - 1
        BY <1>3, <1>9
      <4> QED BY <1>8, <4>1
    <3> QED BY <1>1, <3>1, <3>2 DEF TickOk
  <2> QED BY <2>1, <2>2
<1>20. RunningOk(st, an, tm, {})
  BY <1>1, <1>15 DEF RunningOk
<1>21. SpliceOk(st, an, tm, {})
  <2> SUFFICES ASSUME NEW k \in DOMAIN st, st[k].at = "splice"
               PROVE  /\ st[k].i <= Len(tm)
                      /\ Over(an, {}, tm[st[k].i]) \/ Stops(st, tm[st[k].i])
                      /\ (\E l \in DOMAIN st : Starts(st, an, l)) => st[k].i < Len(tm)
    BY DEF SpliceOk
  <2>1. k # n - 1 /\ st[k] = stk[k] /\ k \in DOMAIN stk
    BY <1>3, <1>8, <1>9
  <2> QED BY <1>1, <1>9, <1>14, <1>15, <2>1 DEF SpliceOk
<1>22. IntervalOk(st, an, tm, fx.timerId)
  <2>1. \A k \in DOMAIN stk : stk[k].at = "timer" => k \in DOMAIN st /\ st[k].at = "timer" /\ st[k].a = stk[k].a
    BY <1>2, <1>3, <1>9
  <2> QED BY <1>1, <1>14, <2>1 DEF IntervalOk, Starts
<1>23. Snd(t, {}, {}, {})
  BY <1>6, <1>16, <1>17, <1>18, <1>19, <1>20, <1>21, <1>22 DEF Snd, st
<1> QED BY <1>23 DEF t, p, n

LEMMA SndStepDone ==
    ASSUME NEW due, Base(fx), Snd(fx, {}, {}, {}), StepDone(due)
    PROVE  Snd(fx', {}, {}, {})
<1> DEFINE t == GoTo(fx, EndedFrame) a == Top.a v == TRUE
           w == [Pop(fx) EXCEPT !.stack[Len(fx.stack) - 1].end = v]
<1>1. /\ At("step") /\ v \in BOOLEAN /\ v
      /\ \/ /\ fx.anims[a].zero \/ \A i \in DOMAIN fx.stack : fx.stack[i] # Of("timer", a)
            /\ Goes(Settle(t, a, "resolved"))
         \/ ~fx.anims[a].zero /\ Goes(w)
  BY DEF StepDone, EndedFrame
<1>2. CASE /\ fx.anims[a].zero \/ \A i \in DOMAIN fx.stack : fx.stack[i] # Of("timer", a)
           /\ Goes(Settle(t, a, "resolved"))
  <2> DEFINE none == {} one == {a} u == Settle(t, a, "resolved")
  <2>1. Base(t) /\ a \in Anim /\ t.anims = fx.anims
    BY <1>1, EndedIs DEF Stacked
  <2>2. Snd(t, one, {}, {}) /\ (NoZero(t.stack, fx.anims) \/ ~fx.anims[a].attached)
    BY <1>1, <1>2, SndEndsStep
  <2> HIDE DEF t
  <2>3. Snd(t, one, one, one)
    <3>1. Snd(t, one, none, none) /\ none \subseteq one /\ one \subseteq one
      BY <2>2
    <3> HIDE DEF none, one
    <3> QED BY <2>1, <3>1, SndWeakens
  <2> HIDE DEF a
  <2>4. Snd(u, {}, {}, {}) /\ Base(u)
    BY <2>1, <2>2, <2>3, SndSettles, BaseSettles
  <2>5. Goes(u)
    BY <1>2
  <2> HIDE DEF u
  <2> QED BY <2>4, <2>5, SndGoes
<1>3. CASE ~fx.anims[a].zero /\ Goes(w)
  <2> HIDE DEF v
  <2>1. Snd(w, {}, {}, {}) /\ Base(w)
    BY <1>1, <1>3, SndAnswers, BaseAnswers
  <2> HIDE DEF w
  <2> QED BY <1>3, <2>1, SndGoes
<1> QED BY <1>1, <1>2, <1>3

LEMMA SndEnded == ASSUME Base(fx), Snd(fx, {}, {}, {}), Ended PROVE Snd(fx', {}, {}, {})
<1> DEFINE v == FALSE w == [Pop(fx) EXCEPT !.stack[Len(fx.stack) - 1].end = v]
<1>1. At("ended") /\ v \in BOOLEAN /\ ~v /\ Goes(w)
  BY DEF Ended
<1> HIDE DEF v
<1>2. Snd(w, {}, {}, {}) /\ Base(w)
  BY <1>1, SndAnswers, BaseAnswers
<1> HIDE DEF w
<1> QED BY <1>1, <1>2, SndGoes

\* fx.timer goes on: only an animation without duration has been over at its first
\* tick, and the timer that is popped is its own.
LEMMA SndTimerMade ==
    ASSUME Base(fx), Snd(fx, {}, {}, {}), At("timer")
    PROVE  Snd(TimerMade, {}, {}, {}) /\ NoZero(TimerMade.stack, TimerMade.anims)
<1> DEFINE t == TimerMade stk == fx.stack st == t.stack an == fx.anims am == t.anims
           tm == fx.timers tn == t.timers n == Len(stk) a == Top.a
<1>1. /\ OneStop(stk) /\ TimerOk(stk, an, {}) /\ LastOk(stk, an, tm) /\ TickOk(stk, an, {})
      /\ RunningOk(stk, an, tm, {}) /\ SpliceOk(stk, an, tm, {}) /\ IntervalOk(stk, an, tm, fx.timerId)
  BY DEF Snd
<1>2. /\ stk # <<>> /\ a \in Anim
      /\ Top.end => tn = tm /\ t.timerId = TRUE
      /\ ~Top.end => tn = Front(tm) /\ t.timerId = fx.timerId
      /\ \A b \in Anim : am[b].zero = an[b].zero /\ am[b].state = an[b].state /\ am[b].stopped = an[b].stopped
      /\ Of("made", a).at = "made" /\ Puts(stk, Of("made", a), st)
  BY ZenonT(30), TimerIs DEF Stacked, Animated
<1>3. /\ stk \in Seq(FrameVars) /\ n \in Nat \ {0} /\ DOMAIN stk = 1 .. n /\ stk[n] = Top
      /\ stk[n].at = "timer" /\ stk[n].a = a /\ stk[n].end = Top.end
  BY <1>2, TopIs DEF At, Top
<1>4. /\ DOMAIN st = 1 .. n /\ st[n].at = "made" /\ \A k \in 1 .. n : k # n => st[k] = stk[k]
  <2>1. /\ Len(st) = n /\ st \in Seq(FrameVars) /\ st[n] = Of("made", a)
        /\ \A k \in 1 .. n - 1 : st[k] = stk[k]
    BY <1>2 DEF Puts
  <2> HIDE DEF st, n
  <2>2. \A k \in 1 .. n : k # n => k \in 1 .. n - 1
    BY <1>3
  <2> QED BY <1>2, <2>1, <2>2
<1>5. tm \in Seq(Anim) /\ FramesOk(stk, an)
  BY FxIs DEF Base
<1>6. \A k \in DOMAIN stk : stk[k].i \in Nat
  BY <1>3, FrameIs
<1> HIDE DEF t, stk, st, an, am, tm, tn, n, a
<1>7. /\ n \in DOMAIN stk /\ DOMAIN st = DOMAIN stk
      /\ \A k \in DOMAIN stk : k \in Int /\ (k = n \/ (k < n /\ st[k] = stk[k]))
  BY <1>3, <1>4
<1>8. \A k \in DOMAIN st : Stepping(st, k) <=> Stepping(stk, k)
  BY <1>3, <1>4, <1>7 DEF Stepping
<1>9. ~Stepping(stk, n)
  BY <1>3 DEF Stepping
<1>10. \A k \in DOMAIN st : st[k].at # "made" => k # n /\ st[k] = stk[k]
  BY <1>4, <1>7
<1>11. \A k \in DOMAIN stk : k # n => ~Starts(stk, an, k)
  <2> SUFFICES ASSUME NEW k \in DOMAIN stk, k # n, Starts(stk, an, k) PROVE FALSE
    OBVIOUS
  <2>1. \A j \in DOMAIN stk : j > k => stk[j].at \in {"step", "ended", "unqueue", "user"}
    BY <1>1 DEF Starts, TimerOk
  <2>2. n > k
    BY <1>3, <1>7
  <2> QED BY <1>3, <1>7, <2>1, <2>2
<1>12. \A k \in DOMAIN stk : stk[k].at \in AnimFrames => stk[k].a \in Anim
  BY <1>5 DEF FramesOk
<1>13. NoZero(st, am)
  <2> SUFFICES ASSUME NEW k \in DOMAIN st, st[k].at = "timer", am[st[k].a].zero PROVE FALSE
    BY DEF NoZero, Starts
  <2>1. k # n /\ st[k] = stk[k] /\ k \in DOMAIN stk
    BY <1>7, <1>10
  <2>2. stk[k].a \in Anim
    BY <1>12, <2>1 DEF AnimFrames
  <2> QED BY <1>2, <1>11, <2>1, <2>2 DEF Starts
<1>14. /\ an[a].zero => ~Top.end /\ Over(an, {}, a)
       /\ ~an[a].zero => Top.end
  BY <1>1, <1>3, <1>7, <1>9 DEF TimerOk
<1>15. ~Top.end => tm # <<>> /\ tm[Len(tm)] = a /\ Starts(stk, an, n)
  BY <1>1, <1>3, <1>7, <1>14 DEF LastOk, Starts
<1>16. ~Top.end => Len(tn) = Len(tm) - 1 /\ \A k \in 1 .. Len(tm) - 1 : tn[k] = tm[k]
  BY <1>2, <1>5, <1>15, FrontIs
<1>17. /\ Len(tm) \in Nat /\ DOMAIN tm = 1 .. Len(tm) /\ tn \in Seq(Anim) /\ DOMAIN tn = 1 .. Len(tn)
       /\ tn = <<>> <=> Len(tn) = 0
  <2>1. tn \in Seq(Anim)
    BY <1>2, <1>5, <1>15, FrontIs
  <2> QED BY <1>5, <2>1, EmptySeq
<1>18. \A b : Stops(stk, b) <=> Stops(st, b)
  BY <1>3, <1>4, <1>7 DEF Stops
<1>19. OneStop(st)
  BY <1>1, <1>4, <1>7 DEF OneStop, ElemFrames
<1>20. \A b \in Anim : Over(am, {}, b) <=> Over(an, {}, b)
  BY <1>2 DEF Over
<1>21. TimerOk(st, am, {})
  <2> SUFFICES ASSUME NEW k \in DOMAIN st, st[k].at = "timer"
               PROVE  /\ Stepping(st, k) => st[k] = Of("timer", st[k].a)
                      /\ ~am[st[k].a].zero
                      /\ ~am[st[k].a].zero => Stepping(st, k) \/ st[k].end
    BY DEF TimerOk
  <2>1. st[k] = stk[k] /\ k \in DOMAIN stk /\ k # n
    BY <1>7, <1>10
  <2>2. ~am[st[k].a].zero
    BY <1>13 DEF NoZero, Starts
  <2>3. ~an[stk[k].a].zero
    BY <1>11, <2>1 DEF Starts
  <2> QED BY <1>1, <1>8, <2>1, <2>2, <2>3 DEF TimerOk
<1>22. LastOk(st, am, tn)
  BY <1>13 DEF LastOk, NoZero
<1>23. TickOk(st, am, {})
  <2> SUFFICES ASSUME NEW k \in DOMAIN st, st[k].at \in {"fxticked", "ended"}
               PROVE  /\ st[k].at = "fxticked" => Stepping(st, k) \/ st[k].end \/ Over(am, {}, st[k].a)
                      /\ st[k].at = "ended" =>
                           Over(am, {}, st[k].a) /\ (k > 1 /\ st[k - 1].at = "timer" => am[st[k].a].zero)
    BY DEF TickOk
  <2>1. st[k] = stk[k] /\ k \in DOMAIN stk /\ k # n
    BY <1>7, <1>10
  <2>2. st[k].a \in Anim
    BY <1>12, <2>1 DEF AnimFrames
  <2>3. k > 1 => st[k - 1] = stk[k - 1]
    <3>1. k > 1 => k - 1 \in DOMAIN stk /\ k - 1 # n
      BY <1>3, <1>7, <2>1
    <3> QED BY <1>7, <3>1
  <2>4. /\ stk[k].at = "fxticked" => Stepping(stk, k) \/ stk[k].end \/ Over(an, {}, stk[k].a)
        /\ stk[k].at = "ended" =>
             Over(an, {}, stk[k].a) /\ (k > 1 /\ stk[k - 1].at = "timer" => an[stk[k].a].zero)
    BY <1>1, <2>1 DEF TickOk
  <2>5. am[st[k].a].zero = an[st[k].a].zero
    BY <1>2, <2>2
  <2> QED BY <1>8, <1>20, <2>1, <2>2, <2>3, <2>4, <2>5
<1>24. RunningOk(st, am, tn, {})
  <2> SUFFICES ASSUME NEW b \in Anim, ~Over(an, {}, b), ~Stops(st, b)
               PROVE  ~am[b].stopped /\ \E j \in DOMAIN tn : tn[j] = b
    BY <1>20 DEF RunningOk
  <2>1. ~an[b].stopped /\ \E j \in DOMAIN tm : tm[j] = b
    BY <1>1, <1>18 DEF RunningOk
  <2>2. PICK j \in DOMAIN tm : tm[j] = b
    BY <2>1
  <2>3. CASE Top.end
    BY <1>2, <2>1, <2>3
  <2>4. CASE ~Top.end
    <3>1. b # a
      BY <1>14, <2>4
    <3>2. j # Len(tm)
      BY <1>15, <2>2, <2>4, <3>1
    <3>3. j \in 1 .. Len(tm) - 1
      BY <1>17, <3>2
    <3>4. j \in DOMAIN tn /\ tn[j] = b
      BY <1>16, <1>17, <2>2, <2>4, <3>3
    <3> QED BY <1>2, <2>1, <3>4
  <2> QED BY <2>3, <2>4
<1>25. SpliceOk(st, am, tn, {})
  <2> SUFFICES ASSUME NEW k \in DOMAIN st, st[k].at = "splice"
               PROVE  /\ st[k].i <= Len(tn)
                      /\ Over(am, {}, tn[st[k].i]) \/ Stops(st, tn[st[k].i])
    BY <1>13 DEF SpliceOk, NoZero
  <2>1. st[k] = stk[k] /\ k \in DOMAIN stk /\ k # n
    BY <1>7, <1>10
  <2> DEFINE i == stk[k].i
  <2>2. i >= 1 /\ i \in Nat
    BY <1>5, <1>6, <2>1 DEF FramesOk
  <2>3. /\ i <= Len(tm)
        /\ Over(an, {}, tm[i]) \/ Stops(stk, tm[i])
        /\ (\E l \in DOMAIN stk : Starts(stk, an, l)) => i < Len(tm)
    BY <1>1, <2>1 DEF SpliceOk
  <2> HIDE DEF i
  <2>4. tm[i] \in Anim
    BY <1>5, <2>2, <2>3
  <2>5. i <= Len(tn) /\ tn[i] = tm[i]
    <3>1. CASE Top.end
      BY <1>2, <2>3, <3>1
    <3>2. CASE ~Top.end
      <4>1. i < Len(tm)
        BY <1>7, <1>15, <2>3, <3>2
      <4>2. i \in 1 .. Len(tm) - 1
        BY <1>17, <2>2, <4>1
      <4>3. tn[i] = tm[i] /\ Len(tn) = Len(tm) - 1
        BY <1>16, <3>2, <4>2
      <4> QED BY <1>17, <2>2, <4>1, <4>3
    <3> QED BY <3>1, <3>2
  <2> QED BY <1>18, <1>20, <2>1, <2>3, <2>4, <2>5 DEF i
<1>26. IntervalOk(st, am, tn, t.timerId)
  <2>1. CASE Top.end
    BY <1>2, <2>1 DEF IntervalOk
  <2>2. CASE ~Top.end /\ fx.timerId
    BY <1>2, <2>2 DEF IntervalOk
  <2>3. CASE \E k \in DOMAIN stk : stk[k].at = "timer" /\ ~an[stk[k].a].zero /\ ~Top.end
    <3>1. PICK k \in DOMAIN stk : stk[k].at = "timer" /\ ~an[stk[k].a].zero /\ ~Top.end
      BY <2>3
    <3>2. k # n /\ st[k] = stk[k] /\ k \in DOMAIN st
      BY <1>3, <1>7, <1>14, <3>1
    <3>3. stk[k].a \in Anim
      BY <1>12, <3>1 DEF AnimFrames
    <3>4. st[k].at = "timer" /\ ~am[st[k].a].zero
      BY <1>2, <3>1, <3>2, <3>3
    <3> QED BY <3>2, <3>4 DEF IntervalOk
  <2>4. CASE Len(tm) = 1 /\ ~Top.end
    <3>1. Len(tn) = 0
      BY <1>16, <2>4
    <3> QED BY <1>17, <3>1 DEF IntervalOk
  <2> QED BY <1>1, <1>15, <2>1, <2>2, <2>3, <2>4 DEF IntervalOk
<1>27. Snd(t, {}, {}, {})
  BY <1>19, <1>21, <1>22, <1>23, <1>24, <1>25, <1>26 DEF Snd, st, am, tn
<1> QED BY <1>13, <1>27 DEF t, st, am

LEMMA SndTimer == ASSUME Base(fx), Snd(fx, {}, {}, {}), Timer PROVE Snd(fx', {}, {}, {})
<1> DEFINE t == TimerMade a == Top.a u == Complete(t, a)
<1>1. At("timer") /\ (Goes(u) \/ Goes(t))
  BY DEF Timer, TimerMade, TimerAttached, TimerStarted, AttachedOne
<1>2. Base(t) /\ a \in Anim /\ Started(t.anims, a)
  <2>1. /\ Base(t) /\ a \in Anim /\ Started(fx.anims, a)
        /\ t.anims = TimerAttached.anims
        /\ TimerAttached.anims[a].state = fx.anims[a].state
    BY <1>1, TimerIs DEF Stacked
  <2> QED BY <2>1 DEF Started
<1>3. Snd(t, {}, {}, {}) /\ NoZero(t.stack, t.anims)
  BY <1>1, SndTimerMade
<1> HIDE DEF t, a
<1>4. Base(u) /\ Snd(u, {}, {}, {})
  BY <1>2, <1>3, BaseComplete, SndComplete
<1> HIDE DEF u
<1> QED BY <1>1, <1>2, <1>3, <1>4, SndGoes
-----------------------------------------------------------------------------
\* Between two timers of a tick no other call is under way.
Plain(stk) == \A k \in DOMAIN stk : stk[k].at \in {"fxtick", "fxticked", "step"}
Runs(an, tm) ==
    \A a \in Anim : Over(an, {}, a) \/ (~an[a].stopped /\ \E j \in DOMAIN tm : tm[j] = a)

LEMMA SndPlain ==
    ASSUME NEW s, Plain(s.stack), TickOk(s.stack, s.anims, {}), Runs(s.anims, s.timers),
           s.timerId \/ s.timers = <<>>
    PROVE  Snd(s, {}, {}, {})
<1>1. OneStop(s.stack) /\ TimerOk(s.stack, s.anims, {}) /\ LastOk(s.stack, s.anims, s.timers)
  BY DEF Plain, OneStop, ElemFrames, TimerOk, LastOk, Starts
<1>2. SpliceOk(s.stack, s.anims, s.timers, {})
  BY DEF Plain, SpliceOk
<1>3. RunningOk(s.stack, s.anims, s.timers, {})
  BY DEF Runs, RunningOk
<1> QED BY <1>1, <1>2, <1>3 DEF Snd, IntervalOk

LEMMA PlainIs ==
    ASSUME NEW s, Snd(s, {}, {}, {}), Plain(s.stack)
    PROVE  (s.timerId \/ s.timers = <<>>) /\ Runs(s.anims, s.timers) /\ NoZero(s.stack, s.anims)
<1>1. \A a : ~Stops(s.stack, a)
  BY DEF Plain, Stops
<1>2. Runs(s.anims, s.timers)
  BY <1>1 DEF Snd, RunningOk, Runs
<1>3. s.timerId \/ s.timers = <<>>
  BY DEF Plain, Snd, IntervalOk, Starts
<1> QED BY <1>2, <1>3 DEF Plain, NoZero, Starts

\* The call of the interval is alone.
LEMMA AloneIs ==
    ASSUME NEW s, Base(s), s.stack # <<>>, s.stack[Len(s.stack)].at \in {"fxtick", "fxticked"}
    PROVE  DOMAIN s.stack = {1} /\ Len(s.stack) = 1 /\ Plain(s.stack)
<1>1. Len(s.stack) = 1 /\ DOMAIN s.stack = 1 .. Len(s.stack)
  BY TopIs
<1> QED BY <1>1 DEF Plain

LEMMA SndFxTick == ASSUME Base(fx), Snd(fx, {}, {}, {}), FxTick PROVE Snd(fx', {}, {}, {})
<1> DEFINE t == Push(fx, TickStart)
<1>1. fx.stack = <<>> /\ Goes(t)
  BY DEF FxTick, TickStart
<1>2. Base(t) /\ Stacked(fx, t) /\ DOMAIN t.stack = {1} /\ t.stack[1].at = "fxtick"
  BY <1>1, FxTickIs
<1> HIDE DEF t
<1>3. Plain(fx.stack)
  BY <1>1 DEF Plain
<1>4. (fx.timerId \/ fx.timers = <<>>) /\ Runs(fx.anims, fx.timers)
  BY <1>3, PlainIs
<1>5. Plain(t.stack) /\ TickOk(t.stack, t.anims, {})
  BY <1>2 DEF Plain, TickOk
<1>6. t.timers = fx.timers /\ t.timerId = fx.timerId /\ t.anims = fx.anims
  BY <1>2 DEF Stacked
<1>7. Snd(t, {}, {}, {})
  BY <1>4, <1>5, <1>6, SndPlain
<1> QED BY <1>1, <1>2, <1>7, SndGoes

LEMMA SndTickNext == ASSUME Base(fx), Snd(fx, {}, {}, {}), TickNext PROVE Snd(fx', {}, {}, {})
<1> DEFINE called == GoTo(fx, TickFrame) left == GoTo(called, LeftFrame) a == fx.timers[Top.i]
           step == Of("step", a) ticks == Push(called, step)
<1>1. /\ fx.stack # <<>> /\ Top.at = "fxtick" /\ Top.i <= Len(fx.timers)
      /\ \/ fx.anims[a].stopped /\ Goes(left)
         \/ Goes(ticks)
  BY Zenon DEF TickNext, At, TickFrame, LeftFrame
<1>2. /\ Stacked(fx, called) /\ Puts(fx.stack, TickFrame, called.stack)
      /\ Base(left) /\ Stacked(called, left) /\ Puts(called.stack, LeftFrame, left.stack)
      /\ Base(ticks) /\ Stacked(called, ticks) /\ Adds(called.stack, step, ticks.stack)
      /\ step.at = "step"
  BY <1>1, TickNextIs
<1>3. /\ TickFrame.at = "fxticked" /\ TickFrame.a = a /\ a \in Anim
      /\ LeftFrame.at = "fxticked" /\ LeftFrame.a = a
  BY <1>1, TickFrameIs
<1>4. Len(fx.stack) = 1 /\ Plain(fx.stack)
  BY <1>1, AloneIs DEF Top
<1>5. (fx.timerId \/ fx.timers = <<>>) /\ Runs(fx.anims, fx.timers)
  BY <1>4, PlainIs
<1> HIDE DEF called, left, ticks, step, a
<1>6. CASE fx.anims[a].stopped /\ Goes(left)
  <2>1. left.timers = fx.timers /\ left.timerId = fx.timerId /\ left.anims = fx.anims
    BY <1>2 DEF Stacked
  <2>2. /\ left.stack \in Seq(FrameVars) /\ Len(left.stack) = 1 /\ left.stack[1] = LeftFrame
    BY <1>2, <1>4 DEF Puts
  <2>3. DOMAIN left.stack = {1}
    BY <2>2
  <2>4. Over(fx.anims, {}, a)
    BY <1>3, <1>5, <1>6 DEF Runs
  <2>5. Plain(left.stack) /\ TickOk(left.stack, left.anims, {})
    BY <1>3, <2>1, <2>2, <2>3, <2>4 DEF Plain, TickOk
  <2>6. Snd(left, {}, {}, {})
    BY <1>5, <2>1, <2>5, SndPlain
  <2> QED BY <1>2, <1>6, <2>6, SndGoes
<1>7. CASE Goes(ticks)
  <2>1. ticks.timers = fx.timers /\ ticks.timerId = fx.timerId /\ ticks.anims = fx.anims
    BY <1>2 DEF Stacked
  <2>2. Len(called.stack) = 1 /\ called.stack[1] = TickFrame
    BY <1>2, <1>4 DEF Puts
  <2>3. /\ ticks.stack \in Seq(FrameVars) /\ Len(ticks.stack) = 2 /\ ticks.stack[1] = TickFrame
        /\ ticks.stack[2] = step
    BY <1>2, <2>2 DEF Adds
  <2>4. DOMAIN ticks.stack = {1, 2}
    BY <2>3
  <2>5. Stepping(ticks.stack, 1)
    BY <1>2, <2>3, <2>4 DEF Stepping
  <2>6. Plain(ticks.stack) /\ TickOk(ticks.stack, ticks.anims, {})
    BY <1>2, <1>3, <2>3, <2>4, <2>5 DEF Plain, TickOk
  <2>7. Snd(ticks, {}, {}, {})
    BY <1>5, <2>1, <2>6, SndPlain
  <2> QED BY <1>2, <1>7, <2>7, SndGoes
<1> QED BY <1>1, <1>6, <1>7

LEMMA SndTicked == ASSUME Base(fx), Snd(fx, {}, {}, {}), Ticked PROVE Snd(fx', {}, {}, {})
<1> DEFINE on == GoTo(fx, NextFrame) off == GoTo(RemovedOne, SameFrame) tm == fx.timers
<1>1. /\ fx.stack # <<>> /\ Top.at = "fxticked"
      /\ \/ ~Top.end /\ Top.i <= Len(tm) /\ tm[Top.i] = Top.a /\ Goes(off)
         \/ Goes(on)
  BY Zenon DEF Ticked, At, RemovedOne, SameFrame, NextFrame
<1>2. /\ Base(on) /\ Stacked(fx, on) /\ Puts(fx.stack, NextFrame, on.stack)
      /\ Top.i \in Nat /\ Top.i >= 1
      /\ Top.i <= Len(tm) =>
           /\ Timed(fx, RemovedOne) /\ RemovedOne.timerId = fx.timerId
           /\ RemovedOne.timers = RemoveAt(tm, Top.i)
           /\ Base(off) /\ Stacked(RemovedOne, off) /\ Puts(fx.stack, SameFrame, off.stack)
  BY <1>1, TickedIs
<1>3. SameFrame.at = "fxtick" /\ NextFrame.at = "fxtick"
  BY <1>1, TickedFrames
<1>4. Len(fx.stack) = 1 /\ DOMAIN fx.stack = {1} /\ Plain(fx.stack) /\ fx.stack[1] = Top
  BY <1>1, AloneIs DEF Top
<1>5. (fx.timerId \/ tm = <<>>) /\ Runs(fx.anims, tm)
  BY <1>4, PlainIs
<1>6. tm \in Seq(Anim)
  BY FxIs DEF Base
<1> HIDE DEF on, off, tm
<1>7. CASE Goes(on)
  <2>1. on.timers = fx.timers /\ on.timerId = fx.timerId /\ on.anims = fx.anims
    BY <1>2 DEF Stacked
  <2>2. on.stack \in Seq(FrameVars) /\ Len(on.stack) = 1 /\ on.stack[1] = NextFrame
    BY <1>2, <1>4 DEF Puts
  <2>3. DOMAIN on.stack = {1}
    BY <2>2
  <2>4. Plain(on.stack) /\ TickOk(on.stack, on.anims, {})
    BY <1>3, <2>2, <2>3 DEF Plain, TickOk
  <2>5. Snd(on, {}, {}, {})
    BY <1>5, <2>1, <2>4, SndPlain DEF tm
  <2> QED BY <1>2, <1>7, <2>5, SndGoes
<1>8. CASE ~Top.end /\ Top.i <= Len(tm) /\ tm[Top.i] = Top.a /\ Goes(off)
  <2> DEFINE tn == RemoveAt(tm, Top.i) a == Top.a
  <2>1. off.timers = tn /\ off.timerId = fx.timerId /\ off.anims = fx.anims
    BY <1>2, <1>8 DEF Stacked, Timed
  <2>2. off.stack \in Seq(FrameVars) /\ Len(off.stack) = 1 /\ off.stack[1] = SameFrame
    BY <1>2, <1>4, <1>8 DEF Puts
  <2>3. DOMAIN off.stack = {1}
    BY <2>2
  <2>4. Plain(off.stack) /\ TickOk(off.stack, off.anims, {})
    BY <1>3, <2>2, <2>3 DEF Plain, TickOk
  <2>5. Over(fx.anims, {}, a)
    <3>1. ~Stepping(fx.stack, 1)
      BY <1>4 DEF Stepping
    <3>2. TickOk(fx.stack, fx.anims, {})
      BY DEF Snd
    <3> QED BY <1>1, <1>4, <1>8, <3>1, <3>2 DEF TickOk
  <2>6. Top.i \in 1 .. Len(tm) /\ Len(tm) \in Nat /\ DOMAIN tm = 1 .. Len(tm)
    BY <1>2, <1>6, <1>8
  <2>7. /\ tn \in Seq(Anim) /\ Len(tn) = Len(tm) - 1
        /\ \A k \in 1 .. Len(tm) - 1 : tn[k] = IF k < Top.i THEN tm[k] ELSE tm[k + 1]
    BY <1>6, <2>6, RemoveAtIs
  <2> HIDE DEF tn
  <2>8. DOMAIN tn = 1 .. Len(tm) - 1
    BY <2>6, <2>7
  <2>9. Runs(fx.anims, tn)
    <3> SUFFICES ASSUME NEW b \in Anim, ~Over(fx.anims, {}, b)
                 PROVE  ~fx.anims[b].stopped /\ \E j \in DOMAIN tn : tn[j] = b
      BY DEF Runs
    <3>1. ~fx.anims[b].stopped /\ \E j \in DOMAIN tm : tm[j] = b
      BY <1>5 DEF Runs
    <3>2. PICK j \in DOMAIN tm : tm[j] = b
      BY <3>1
    <3>3. j # Top.i /\ j \in 1 .. Len(tm)
      BY <1>8, <2>5, <2>6, <3>2
    <3>4. CASE j < Top.i
      <4>1. j \in 1 .. Len(tm) - 1
        BY <2>6, <3>3, <3>4
      <4> QED BY <2>7, <2>8, <3>1, <3>2, <3>4, <4>1
    <3>5. CASE ~(j < Top.i)
      <4> DEFINE k == j - 1
      <4>1. k \in 1 .. Len(tm) - 1 /\ ~(k < Top.i) /\ k + 1 = j
        BY <2>6, <3>3, <3>5
      <4>2. tn[k] = b
        BY <2>7, <3>2, <4>1
      <4> QED BY <2>8, <3>1, <4>1, <4>2
    <3> QED BY <3>4, <3>5
  <2>10. fx.timerId
    <3>1. tm # <<>>
      BY <2>6
    <3> QED BY <1>5, <3>1
  <2>11. Snd(off, {}, {}, {})
    BY <2>1, <2>4, <2>9, <2>10, SndPlain
  <2>12. Base(off)
    BY <1>2, <1>8
  <2> QED BY <1>8, <2>11, <2>12, SndGoes
<1> QED BY <1>1, <1>7, <1>8

LEMMA SndTickEnds == ASSUME Base(fx), Snd(fx, {}, {}, {}), TickEnds PROVE Snd(fx', {}, {}, {})
<1>1. PICK id \in BOOLEAN : id = (fx.timers # <<>>)
  OBVIOUS
<1> DEFINE s == Pop(fx) t == [s EXCEPT !.timerId = id]
<1>2. fx.stack # <<>> /\ Goes(t) /\ fx.stack[Len(fx.stack)].at = "fxtick"
  BY <1>1 DEF TickEnds, At, Top
<1>3. Base(s) /\ Stacked(fx, s) /\ Drops(fx.stack, s.stack)
  BY <1>2, BasePop, PopIs DEF Base
<1>4. Len(fx.stack) = 1 /\ Plain(fx.stack)
  BY <1>2, AloneIs
<1>5. Runs(fx.anims, fx.timers)
  BY <1>4, PlainIs
<1>6. s.timers = fx.timers /\ s.anims = fx.anims
  BY <1>3 DEF Stacked
<1>7. DOMAIN s.stack = {}
  BY <1>3, <1>4 DEF Drops
<1> HIDE DEF s
<1>8. Timed(s, t) /\ t.timers = s.timers /\ t.timerId = id
  BY <1>3, IntervalIs DEF Base
<1> HIDE DEF t
<1>9. Base(t)
  BY <1>3, <1>8, BaseTimed
<1>10. t.anims = fx.anims /\ t.timers = fx.timers /\ t.stack = s.stack
  BY <1>6, <1>8 DEF Timed
<1>11. Plain(t.stack) /\ TickOk(t.stack, t.anims, {})
  BY <1>7, <1>10 DEF Plain, TickOk
<1>12. Snd(t, {}, {}, {})
  BY <1>1, <1>5, <1>8, <1>10, <1>11, SndPlain
<1> QED BY <1>2, <1>9, <1>12, SndGoes
-----------------------------------------------------------------------------
\* The calls of the program that jQuery is prepared for.
LEMMA SndCall ==
    ASSUME NEW s, NEW kinds, Base(s), Snd(s, {}, {}, {}), Call(s, kinds)
    PROVE  Snd(fx', {}, {}, {})
BY SweepIs, SndSweeps DEF Call, Base

LEMMA CallIs == ASSUME NEW s, NEW kinds, Call(s, kinds), odd' = {} PROVE kinds = {}
BY DEF Call

\* None comes from a loop of stop or finish, nor from the first tick of an animation
\* without duration.
LEMMA OddEmpty ==
    ASSUME NEW es, Odd(es) = {}
    PROVE  /\ NoZero(fx.stack, fx.anims)
           /\ \A k \in DOMAIN fx.stack : fx.stack[k].at \in ElemFrames => fx.stack[k].a \notin es
<1>1. "nested" \notin Odd(es) /\ "within" \notin Odd(es)
  OBVIOUS
<1>2. ~Stopping(es) /\ ~Starting
  BY <1>1 DEF Odd
<1> QED BY <1>2 DEF Stopping, Starting, NoZero, Starts, ElemFrames

LEMMA SndNew ==
    ASSUME NEW s, NEW a \in Anim, NEW e \in Elem, NEW queued \in BOOLEAN, NEW zero \in BOOLEAN,
           Base(s), Snd(s, {}, {}, {}), NoZero(s.stack, s.anims), s.anims[a].state = "new",
           NEW t, t = NewOne(s, a, e, queued, zero)
    PROVE  Snd(t, {}, {}, {}) /\ NoZero(t.stack, t.anims)
<1>1. /\ Animated(s, t) /\ t.anims[a].state = "queued"
      /\ \A b \in Anim : b # a => t.anims[b] = s.anims[b]
  BY NewIs DEF Base
<1>2. \A k \in DOMAIN s.stack : s.stack[k].at \in {"timer", "ended"} =>
        t.anims[s.stack[k].a] = s.anims[s.stack[k].a]
  <2>1. FramesOk(s.stack, s.anims)
    BY DEF Base
  <2> QED BY <1>1, <2>1 DEF FramesOk, AnimFrames, Started
<1>3. \A b \in Anim : Over(s.anims, {}, b) => Over(t.anims, {}, b)
  BY <1>1 DEF Over
<1>4. RunningOk(s.stack, t.anims, s.timers, {})
  <2>1. RunningOk(s.stack, s.anims, s.timers, {})
    BY DEF Snd
  <2> SUFFICES ASSUME NEW b \in Anim
               PROVE  \/ Over(t.anims, {}, b)
                      \/ Stops(s.stack, b)
                      \/ ~t.anims[b].stopped /\ \E j \in DOMAIN s.timers : s.timers[j] = b
    BY DEF RunningOk
  <2>2. CASE b = a
    BY <1>1, <2>2 DEF Over
  <2>3. CASE b # a
    BY <1>1, <2>1, <2>3 DEF RunningOk, Over
  <2> QED BY <2>2, <2>3
<1>5. Snd(t, {}, {}, {})
  BY <1>1, <1>2, <1>3, <1>4, SndAges
<1>6. NoZero(t.stack, t.anims)
  BY <1>1, <1>2 DEF NoZero, Starts, Animated
<1> QED BY <1>5, <1>6

LEMMA SndAnimate ==
    ASSUME NEW a \in Anim, NEW e \in Elem, NEW queued \in BOOLEAN, NEW zero \in BOOLEAN,
           Base(fx), Snd(fx, {}, {}, {}), Animate(a, e, queued, zero), odd' = {}
    PROVE  Snd(fx', {}, {}, {})
<1> DEFINE made == NewOne(fx, a, e, queued, zero) q == Append(fx.queue[e], a)
           longer == Queue(made, e, q) begun == DoAnimation(made, a)
<1>1. /\ fx.anims[a].state = "new"
      /\ Call(IF queued THEN longer ELSE begun, Odd({e}))
  <2>1. fx.anims[a].state = "new"
    BY DEF Animate, Anim
  <2> QED BY <2>1, Zenon DEF Animate, NewOne, NewAnim
<1>2. NoZero(fx.stack, fx.anims)
  BY <1>1, CallIs, OddEmpty
<1>3. /\ Base(made)
      /\ \A d \in Elem : \A j \in DOMAIN fx.queue[d] : fx.queue[d][j] # a
      /\ \A k \in DOMAIN fx.stack : \A j \in DOMAIN fx.stack[k].todo : j > 1 => fx.stack[k].todo[j] # a
  BY <1>1, BaseNew
<1>4. /\ made.queue = fx.queue /\ made.stack = fx.stack /\ made.anims[a].state = "queued"
      /\ made.anims[a].queued = queued /\ made.anims[a].of = e
  BY NewIs DEF Animated, Base
<1>5. Snd(made, {}, {}, {}) /\ NoZero(made.stack, made.anims)
  BY <1>1, <1>2, SndNew
<1> HIDE DEF made
<1>6. Base(begun) /\ Snd(begun, {}, {}, {})
  BY <1>3, <1>4, <1>5, BaseDoAnimation, SndDoAnimation
<1>7. queued => Base(longer) /\ Snd(longer, {}, {}, {})
  <2> SUFFICES ASSUME queued PROVE Base(longer) /\ Snd(longer, {}, {}, {})
    OBVIOUS
  <2>1. q \in Entries /\ Base(QueueSet(made, e, q))
    BY ZenonT(30), <1>3, <1>4, BaseLonger
  <2> HIDE DEF q
  <2> QED BY <1>3, <1>5, <2>1, BaseQueues, SndQueue
<1> HIDE DEF longer, begun
<1>8. CASE queued
  BY <1>1, <1>7, <1>8, SndCall
<1>9. CASE ~queued
  BY <1>1, <1>6, <1>9, SndCall
<1> QED BY <1>8, <1>9

\* stop or finish is called.
LEMMA SndStopFrame ==
    ASSUME NEW s, NEW t, NEW f, Base(s), Snd(s, {}, {}, {}), s.stack = fx.stack, s.anims = fx.anims,
           Base(fx), Odd(Elem) = {}, Stacked(s, t), Adds(s.stack, f, t.stack), f.at = "stop"
    PROVE  Snd(t, {}, {}, {}) /\ NoZero(t.stack, t.anims)
<1>1. /\ NoZero(s.stack, s.anims)
      /\ \A k \in DOMAIN s.stack : s.stack[k].at \in ElemFrames => s.stack[k].a \notin Elem
  BY OddEmpty
<1>2. FramesOk(s.stack, s.anims)
  BY DEF Base
<1>3. \A k \in DOMAIN s.stack : s.stack[k].at \notin ElemFrames
  BY <1>1, <1>2 DEF FramesOk
<1>4. Snd(t, {}, {}, {})
  BY <1>1, <1>3, SndAdds
<1>5. s.stack \in Seq(FrameVars) /\ t.stack \in Seq(FrameVars) /\ t.anims = s.anims
  BY FxIs DEF Base, Stacked
<1>6. \A k \in DOMAIN t.stack : (k \in DOMAIN s.stack /\ t.stack[k] = s.stack[k]) \/ t.stack[k] = f
  BY <1>5 DEF Adds
<1>7. NoZero(t.stack, t.anims)
  BY <1>1, <1>5, <1>6 DEF NoZero, Starts
<1> QED BY <1>4, <1>7

LEMMA SndStop ==
    ASSUME NEW e \in Elem, NEW clear \in BOOLEAN, NEW end \in BOOLEAN,
           Base(fx), Snd(fx, {}, {}, {}), Stop(e, clear, end), odd' = {}
    PROVE  Snd(fx', {}, {}, {})
<1> DEFINE f == StopFrame(e, end) t == Push(fx, f) none == <<>> u == Queue(t, e, none)
           more == IF clear /\ fx.hooks[e].waiting > 0 THEN Odd(Elem) \cup OddStop(e) \cup {"early"}
                   ELSE Odd(Elem) \cup OddStop(e)
<1>1. Call(IF clear THEN u ELSE t, more)
  BY Zenon DEF Stop, StopFrame
<1>2. Odd(Elem) = {}
  BY <1>1, CallIs
<1>3. f \in FrameVars /\ f.at = "stop" /\ f.a = e /\ f.todo = <<>>
  BY StopFrameIs
<1> HIDE DEF f
<1>4. FrameFits(fx.stack, fx.anims, f)
  BY <1>3 DEF FrameFits, AnimFrames
<1>5. Stacked(fx, t) /\ Adds(fx.stack, f, t.stack) /\ Base(t)
  BY <1>3, <1>4, PushIs, BaseAdds DEF Base
<1> HIDE DEF t
<1>6. Snd(t, {}, {}, {}) /\ NoZero(t.stack, t.anims)
  BY <1>2, <1>3, <1>5, SndStopFrame
<1>7. none \in Entries /\ Base(QueueSet(t, e, none))
  BY <1>5, EmptySeq, BaseEmptied DEF Entries
<1> HIDE DEF none
<1>8. Base(u) /\ Snd(u, {}, {}, {})
  BY <1>5, <1>6, <1>7, BaseQueues, SndQueue
<1> HIDE DEF u, more
<1>9. Call(u, more) \/ Call(t, more)
  BY <1>1
<1> QED BY <1>5, <1>6, <1>8, <1>9, SndCall

LEMMA SndFinish ==
    ASSUME NEW e \in Elem, Base(fx), Snd(fx, {}, {}, {}), Finish(e), odd' = {}
    PROVE  Snd(fx', {}, {}, {})
<1> DEFINE v == FinishStart(e) f == FinishCall(e) t == Push(v, f)
<1>1. /\ Base(v) /\ v.anims = fx.anims /\ v.stack = fx.stack
      /\ v.timers = fx.timers /\ v.timerId = fx.timerId
      /\ Base(t) /\ Stacked(v, t) /\ Adds(fx.stack, f, t.stack) /\ f.at = "stop"
  BY FinishStarts
<1>2. Call(t, Odd(Elem) \cup OddStop(e))
  BY FinishIsCall
<1> HIDE DEF v, f, t
<1>3. Odd(Elem) = {}
  BY <1>2, CallIs
<1>4. Snd(v, {}, {}, {})
  BY <1>1, SndRearranged
<1>5. Snd(t, {}, {}, {})
  BY <1>1, <1>3, <1>4, SndStopFrame
<1> QED BY <1>1, <1>2, <1>5, SndCall

LEMMA SndPromise ==
    ASSUME NEW e \in Elem, Base(fx), Snd(fx, {}, {}, {}), Promise(e)
    PROVE  Snd(fx', {}, {}, {})
<1> DEFINE t == MoreWaiting(fx, e)
<1>1. PICK kinds : Call(t, kinds)
  BY Zenon DEF Promise, MoreWaiting
<1>2. /\ Rearranged(fx, t) /\ t.queue = fx.queue
      /\ \A d \in Elem : t.hooks[d].unqueued = fx.hooks[d].unqueued
  BY MoreIs DEF Base
<1> HIDE DEF t
<1>3. CountOk(fx.stack, fx.anims, t.hooks)
  BY <1>2 DEF Base, CountOk
<1>4. Base(t)
  BY <1>2, <1>3, BaseRearranged
<1>5. Snd(t, {}, {}, {})
  BY <1>2, SndRearranged DEF Rearranged
<1> QED BY <1>1, <1>4, <1>5, SndCall
-----------------------------------------------------------------------------
LEMMA InitSnd == ASSUME Init PROVE Snd(fx, {}, {}, {})
<1>1. /\ fx.stack = <<>> /\ fx.timers = <<>> /\ \A a \in Anim : fx.anims[a].state = "new"
  BY InitIs, NotMadeIs
<1>2. Plain(fx.stack) /\ TickOk(fx.stack, fx.anims, {})
  BY <1>1 DEF Plain, TickOk
<1>3. Runs(fx.anims, fx.timers)
  BY <1>1 DEF Runs, Over
<1> QED BY <1>1, <1>2, <1>3, SndPlain

\* The history only grows.
LEMMA OddGrows == ASSUME Next, odd' = {} PROVE odd = {}
<1>1. odd' = odd \/ \E kinds : odd' = odd \cup kinds
  BY DEF Next, Program, Continue, Return, DequeueNext, End, Unqueue, Ended, Timer, Made, StopStart,
         StopLoop, Splice, StopEnds, FinishNext, FxTick, TickNext, Ticked, TickEnds, StepDone, Goes,
         Animate, Stop, Finish, ClearQueue, Promise, Call
<1> QED BY <1>1

LEMMA SndNext == ASSUME Base(fx), Snd(fx, {}, {}, {}), Next, odd' = {} PROVE Snd(fx', {}, {}, {})
<1>1. CASE Return \/ DequeueNext \/ End \/ Unqueue \/ Ended \/ Timer \/ Made
  BY <1>1, SndReturn, SndDequeueNext, SndEnd, SndUnqueue, SndEnded, SndTimer, SndMade
<1>2. CASE StopStart \/ StopLoop \/ Splice \/ StopEnds \/ FinishNext
  BY <1>2, SndStopStart, SndStopLoop, SndSplice, SndStopEnds, SndFinishNext
<1>3. CASE FxTick \/ TickNext \/ Ticked \/ TickEnds
  BY <1>3, SndFxTick, SndTickNext, SndTicked, SndTickEnds
<1>4. CASE \E due \in BOOLEAN : StepDone(due)
  BY <1>4, SndStepDone
<1>5. CASE Program
  <2>1. PICK e \in Elem :
          \/ \E a \in Anim, queued, zero \in BOOLEAN : Animate(a, e, queued, zero)
          \/ \E clear, end \in BOOLEAN : Stop(e, clear, end)
          \/ Finish(e) \/ ClearQueue(e) \/ Promise(e)
    BY <1>5 DEF Program
  <2>2. CASE \E a \in Anim, queued, zero \in BOOLEAN : Animate(a, e, queued, zero)
    BY <2>2, SndAnimate
  <2>3. CASE \E clear, end \in BOOLEAN : Stop(e, clear, end)
    BY <2>3, SndStop
  <2>4. CASE Finish(e) \/ Promise(e)
    BY <2>4, SndFinish, SndPromise
  <2>5. CASE ClearQueue(e)
    BY <2>5, CallIs DEF ClearQueue
  <2> QED BY <2>1, <2>2, <2>3, <2>4, <2>5
<1> QED BY <1>1, <1>2, <1>3, <1>4, <1>5 DEF Next, Continue

\* What the stack says of the timers, as long as the program has made no odd call.
TimersIInv == Base(fx) /\ (odd = {} => Snd(fx, {}, {}, {}))

LEMMA TimersIInvNext == ASSUME TimersIInv, [Next]_vars PROVE TimersIInv'
<1>1. CASE Next
  <2>1. Base(fx')
    BY <1>1, BaseNext DEF TimersIInv
  <2>2. ASSUME odd' = {} PROVE Snd(fx', {}, {}, {})
    <3>1. odd = {}
      BY <1>1, <2>2, OddGrows
    <3> QED BY <1>1, <2>2, <3>1, SndNext DEF TimersIInv
  <2> QED BY <2>1, <2>2 DEF TimersIInv
<1>2. CASE UNCHANGED vars
  BY <1>2 DEF vars, TimersIInv
<1> QED BY <1>1, <1>2

LEMMA TimersIInvImplies == ASSUME TimersIInv PROVE TimersInv
<1> SUFFICES ASSUME Quiet, Sound PROVE NothingLost /\ IntervalRuns
  BY DEF TimersInv, NothingLost, IntervalRuns
<1>1. Snd(fx, {}, {}, {}) /\ Plain(fx.stack)
  BY DEF TimersIInv, Sound, Quiet, Plain
<1>2. (fx.timerId \/ fx.timers = <<>>) /\ Runs(fx.anims, fx.timers)
  BY <1>1, PlainIs
<1>3. \A e \in Elem : Pending(e) \subseteq {fx.timers[j] : j \in DOMAIN fx.timers}
  BY <1>2 DEF Pending, Runs, Over
<1> QED BY <1>2, <1>3 DEF NothingLost, IntervalRuns, ToSet

\* Every animation under way goes on, for any elements, any number of animations and
\* calls: outside the calls of jQuery it has its timer, and the interval runs.
THEOREM EffectsTimersInv == Spec => []TimersInv
<1>1. Init => TimersIInv
  BY InitBase, InitSnd DEF TimersIInv
<1>2. TimersIInv /\ [Next]_vars => TimersIInv'
  BY TimersIInvNext
<1>3. TimersIInv => TimersInv
  BY TimersIInvImplies
<1> QED BY <1>1, <1>2, <1>3, PTL DEF Spec
=============================================================================
