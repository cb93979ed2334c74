------------------------- MODULE EffectsTurnProofs -------------------------
(***************************************************************************)
(* A queue is served by one animation at a time, and a promise is kept     *)
(* when nothing moves, and not before: for any elements, any number of     *)
(* animations and calls, whatever the functions of the program call from   *)
(* within.                                                                 *)
(***************************************************************************)
EXTENDS EffectsProofs
-----------------------------------------------------------------------------
\* Who has the turn of a queue: the animation of it that is under way, or a call that
\* will take the next from it, or stop when it is done.
TurnFrames == {"end", "complete", "unqueue", "timer", "made", "stop", "loop", "splice"}

Serves(an, a, e) == an[a].of = e /\ an[a].queued /\ an[a].state = "pending"
Hands(an, f, e) ==
    \/ f.at = "complete" /\ an[f.a].of = e
    \/ f.at = "timer" /\ an[f.a].of = e /\ an[f.a].queued /\ an[f.a].state = "resolved"
StopsOf(f, e) == f.at \in ElemFrames /\ f.a = e
Will(f, e) == StopsOf(f, e) /\ f.todo = <<>> /\ ~f.end
May(f, e) == StopsOf(f, e) /\ f.todo = <<>> /\ (~f.end \/ f.dequeue)
HasTurn(stk, an, e) ==
    (\E a \in Anim : Serves(an, a, e)) \/ (\E k \in DOMAIN stk : Hands(an, stk[k], e))

\* W: the elements whose turn is in the hands of the step itself, while it is half done.
Unique(stk, an, W) ==
    \A e \in Elem :
        /\ \A a, b \in Anim : Serves(an, a, e) /\ Serves(an, b, e) => a = b
        /\ \A k, l \in DOMAIN stk : Hands(an, stk[k], e) /\ Hands(an, stk[l], e) => k = l
        /\ \A a \in Anim, k \in DOMAIN stk : ~(Serves(an, a, e) /\ Hands(an, stk[k], e))
        /\ e \in W => ~HasTurn(stk, an, e)

\* A queue that is not empty is served.
Served(stk, an, qu, W) ==
    \A e \in Elem : qu[e] # <<>> =>
        e \in W \/ HasTurn(stk, an, e) \/ \E k \in DOMAIN stk : Will(stk[k], e)

\* So is an element that has hooks, or an animation beside its queue will end.
Watched(stk, an, hk, W) ==
    \A e \in Elem : hk[e].present \/ hk[e].waiting > 0 =>
        \/ e \in W \/ HasTurn(stk, an, e)
        \/ \E k \in DOMAIN stk : May(stk[k], e)
        \/ Beside(stk, an, e) # {}

Exact(stk, an, hk) == \A e \in Elem : hk[e].unqueued = Cardinality(Beside(stk, an, e))

\* The loop of stop has still to reach the animation, or it is being ended, or it
\* was started by the one that the loop has ended.
\* X: animations on their way to the end, while a step is half done.
Reaches(stk, k, tm, a) == \E j \in DOMAIN tm : tm[j] = a /\ (stk[k].at = "stop" \/ j <= stk[k].i)
Above(stk, k, ats, a) == \E l \in DOMAIN stk : l > k /\ stk[l].at \in ats /\ stk[l].a = a
Follows(f, q) == f.end /\ f.todo = <<>> /\ ~f.dequeue /\ q # <<>>
DueOk(stk, an, tm, qu, X) ==
    \A k \in DOMAIN stk : stk[k].at \in ElemFrames =>
        \A a \in Anim : Serves(an, a, stk[k].a) =>
            \/ a \in X
            \/ Reaches(stk, k, tm, a)
            \/ Above(stk, k, {"end"}, a)
            \/ stk[k].todo # <<>> /\ Above(stk, k, {"timer", "made"}, a)
            \/ Follows(stk[k], qu[stk[k].a])

\* What ends an animation of an element within stop goes on with its queue: stop does not.
Ends(f) == f.end /\ (f.todo = <<>> => ~f.dequeue)
Within(stk, an) ==
    \A k, l \in DOMAIN stk :
        stk[l].at \in {"end", "complete", "timer"} /\ StopsOf(stk[k], an[stk[l].a].of) => l > k /\ Ends(stk[k])

\* finish has emptied the queue, and ends only animations of it.
Finishing(stk, an, qu, fin) ==
    /\ \A e \in Elem : fin[e] <=> \E k \in DOMAIN stk : StopsOf(stk[k], e) /\ stk[k].todo # <<>>
    /\ \A k \in DOMAIN stk : stk[k].at \in ElemFrames /\ stk[k].todo # <<>> =>
        /\ stk[k].end /\ qu[stk[k].a] = <<>>
        /\ \A l \in DOMAIN stk :
             l > k /\ stk[l].at \in {"end", "complete", "unqueue", "timer", "made"} /\ an[stk[l].a].of = stk[k].a
               => an[stk[l].a].queued

\* The functions of the options are attached once the first tick is over.
AttachOk(stk, an) ==
    /\ \A a \in Anim : an[a].state = "pending" <=> an[a].elem
    /\ \A a \in Anim : an[a].state = "pending" /\ ~an[a].attached
                         => \E k \in DOMAIN stk : stk[k].at = "timer" /\ stk[k].a = a
    /\ \A k \in DOMAIN stk : /\ stk[k].at \in {"end", "made"} => an[stk[k].a].attached
                             /\ stk[k].at = "timer" => ~an[stk[k].a].attached
    /\ \A k, l \in DOMAIN stk : stk[k].at = "timer" /\ stk[l].at = "timer" /\ stk[k].a = stk[l].a => k = l

\* An animation of a queue that is empty runs only within the stop or finish that has
\* emptied it, and with stop nobody waits.
EmptiedOk(stk, an, qu, hk) ==
    \A e \in Elem : qu[e] = <<>> /\ HasTurn(stk, an, e) =>
        \E k \in DOMAIN stk : StopsOf(stk[k], e) /\ (stk[k].todo # <<>> \/ hk[e].waiting = 0)

EndsOk(stk, an) ==
    \A l \in DOMAIN stk : stk[l].at = "end" => \E k \in DOMAIN stk : StopsOf(stk[k], an[stk[l].a].of)

HeadOk(qu) == \A e \in Elem : qu[e] # <<>> => Head(qu[e]) = InProgress

Turns(s, W, X) ==
    /\ Unique(s.stack, s.anims, W)
    /\ Served(s.stack, s.anims, s.queue, W)
    /\ Watched(s.stack, s.anims, s.hooks, W)
    /\ Exact(s.stack, s.anims, s.hooks)
    /\ DueOk(s.stack, s.anims, s.timers, s.queue, X)
    /\ Within(s.stack, s.anims)
    /\ Finishing(s.stack, s.anims, s.queue, s.finish)
    /\ AttachOk(s.stack, s.anims)
    /\ EmptiedOk(s.stack, s.anims, s.queue, s.hooks)
    /\ EndsOk(s.stack, s.anims)
    /\ HeadOk(s.queue)
-----------------------------------------------------------------------------
\* t differs from s in nothing that has to do with the turns.
SameRole(f, g) == g.at = f.at /\ g.a = f.a /\ (f.at \in ElemFrames => g = f)
Likewise(x, y) ==
    /\ y.state = "pending" <=> x.state = "pending"
    /\ y.elem <=> x.elem
    /\ x.state = "pending" => y.of = x.of /\ y.queued = x.queued /\ (x.attached => y.attached)
SameAnim(x, y) ==
    /\ y.of = x.of /\ y.queued = x.queued
    /\ y.state = "resolved" <=> x.state = "resolved"
    /\ y.attached <=> x.attached
Alike(stk, an, st, am) ==
    /\ \A k \in DOMAIN stk : stk[k].at \in TurnFrames => k \in DOMAIN st /\ SameRole(stk[k], st[k])
    /\ \A k \in DOMAIN st : st[k].at \in TurnFrames => k \in DOMAIN stk /\ SameRole(stk[k], st[k])
    /\ \A a \in Anim : Likewise(an[a], am[a])
    /\ \A k \in DOMAIN stk : stk[k].at \in TurnFrames \ ElemFrames => SameAnim(an[stk[k].a], am[stk[k].a])

LEMMA AlikeTurns ==
    ASSUME NEW stk, NEW an, NEW st, NEW am, Alike(stk, an, st, am)
    PROVE  /\ \A a \in Anim, e \in Elem : Serves(am, a, e) <=> Serves(an, a, e)
           /\ \A k \in DOMAIN stk, e \in Elem : Hands(an, stk[k], e) => k \in DOMAIN st /\ Hands(am, st[k], e)
           /\ \A k \in DOMAIN st, e \in Elem : Hands(am, st[k], e) => k \in DOMAIN stk /\ Hands(an, stk[k], e)
           /\ \A e \in Elem : HasTurn(st, am, e) <=> HasTurn(stk, an, e)
           /\ \A k \in DOMAIN stk : stk[k].at \in ElemFrames => k \in DOMAIN st /\ st[k] = stk[k]
           /\ \A k \in DOMAIN st : st[k].at \in ElemFrames => k \in DOMAIN stk /\ st[k] = stk[k]
<1>1. \A a \in Anim, e \in Elem : Serves(am, a, e) <=> Serves(an, a, e)
  BY DEF Alike, Likewise, Serves
<1>2. \A k \in DOMAIN stk, e \in Elem : Hands(an, stk[k], e) => k \in DOMAIN st /\ Hands(am, st[k], e)
  BY DEF Alike, SameRole, SameAnim, Hands, TurnFrames, ElemFrames
<1>3. \A k \in DOMAIN st, e \in Elem : Hands(am, st[k], e) => k \in DOMAIN stk /\ Hands(an, stk[k], e)
  BY DEF Alike, SameRole, SameAnim, Hands, TurnFrames, ElemFrames
<1>4. \A e \in Elem : HasTurn(st, am, e) <=> HasTurn(stk, an, e)
  BY <1>1, <1>2, <1>3 DEF HasTurn
<1>5. \A k \in DOMAIN stk : stk[k].at \in ElemFrames => k \in DOMAIN st /\ st[k] = stk[k]
  BY DEF Alike, SameRole, TurnFrames, ElemFrames
<1>6. \A k \in DOMAIN st : st[k].at \in ElemFrames => k \in DOMAIN stk /\ st[k] = stk[k]
  BY DEF Alike, SameRole, TurnFrames, ElemFrames
<1> QED BY <1>1, <1>2, <1>3, <1>4, <1>5, <1>6

LEMMA AlikeBeside ==
    ASSUME NEW stk, NEW an, NEW st, NEW am, Alike(stk, an, st, am), NEW e \in Elem
    PROVE  Beside(st, am, e) = Beside(stk, an, e)
<1>1. \A a \in Anim : Leaving(st, a) <=> Leaving(stk, a)
  BY DEF Alike, SameRole, Leaving, TurnFrames
<1>2. \A a \in Anim : Leaving(stk, a) => am[a].of = an[a].of /\ am[a].queued = an[a].queued
  BY DEF Alike, SameAnim, Leaving, TurnFrames, ElemFrames
<1>3. \A a \in Anim : a \in Beside(st, am, e) <=> a \in Beside(stk, an, e)
  BY <1>1, <1>2 DEF Alike, Likewise, Beside
<1> QED BY <1>3 DEF Beside

\* The hooks count the same, and nobody comes to wait on an element where nothing moves.
HooksKept(hk, hn) ==
    \A e \in Elem : /\ hn[e].unqueued = hk[e].unqueued
                    /\ hn[e].present => hk[e].present
                    /\ hn[e].waiting = hk[e].waiting

LEMMA TurnsSame ==
    ASSUME NEW s, NEW t, NEW W, NEW X, Base(s), Turns(s, W, X), Alike(s.stack, s.anims, t.stack, t.anims),
           t.queue = s.queue, t.finish = s.finish, HooksKept(s.hooks, t.hooks),
           \A k \in DOMAIN s.stack, a \in Anim :
             s.stack[k].at \in ElemFrames /\ Serves(s.anims, a, s.stack[k].a) /\ a \notin X
               /\ Reaches(s.stack, k, s.timers, a) => Reaches(s.stack, k, t.timers, a)
    PROVE  Turns(t, W, X)
<1> DEFINE stk == s.stack st == t.stack an == s.anims am == t.anims qu == s.queue tm == s.timers tn == t.timers
           hk == s.hooks hn == t.hooks fin == s.finish
<1>1. /\ Unique(stk, an, W) /\ Served(stk, an, qu, W) /\ Watched(stk, an, hk, W) /\ Exact(stk, an, hk)
      /\ DueOk(stk, an, tm, qu, X) /\ Within(stk, an) /\ Finishing(stk, an, qu, fin) /\ AttachOk(stk, an)
      /\ EmptiedOk(stk, an, qu, hk) /\ EndsOk(stk, an) /\ HeadOk(qu)
  BY DEF Turns
<1>2. /\ Alike(stk, an, st, am) /\ t.queue = qu /\ t.finish = fin /\ HooksKept(hk, hn)
      /\ \A k \in DOMAIN stk : stk[k].at \in ElemFrames => stk[k].a \in Elem
  BY DEF Base, FramesOk
<1>3. \A k \in DOMAIN stk, a \in Anim :
        stk[k].at \in ElemFrames /\ Serves(an, a, stk[k].a) /\ a \notin X /\ Reaches(stk, k, tm, a) => Reaches(stk, k, tn, a)
  OBVIOUS
<1>4. \A e \in Elem : Beside(st, am, e) = Beside(stk, an, e)
  BY <1>2, AlikeBeside
<1> HIDE DEF stk, st, an, am, qu, tm, tn, hk, hn, fin
<1>5. /\ \A a \in Anim, e \in Elem : Serves(am, a, e) <=> Serves(an, a, e)
      /\ \A k \in DOMAIN stk, e \in Elem : Hands(an, stk[k], e) => k \in DOMAIN st /\ Hands(am, st[k], e)
      /\ \A k \in DOMAIN st, e \in Elem : Hands(am, st[k], e) => k \in DOMAIN stk /\ Hands(an, stk[k], e)
      /\ \A e \in Elem : HasTurn(st, am, e) <=> HasTurn(stk, an, e)
      /\ \A k \in DOMAIN stk : stk[k].at \in ElemFrames => k \in DOMAIN st /\ st[k] = stk[k]
      /\ \A k \in DOMAIN st : st[k].at \in ElemFrames => k \in DOMAIN stk /\ st[k] = stk[k]
  BY <1>2, AlikeTurns
<1>6. \A k \in DOMAIN st : st[k].at \in {"end", "complete", "unqueue", "timer", "made"} =>
        /\ k \in DOMAIN stk /\ stk[k].at = st[k].at /\ stk[k].a = st[k].a
        /\ am[st[k].a].of = an[st[k].a].of /\ am[st[k].a].queued = an[st[k].a].queued
        /\ (an[st[k].a].attached <=> am[st[k].a].attached)
  BY <1>2 DEF Alike, SameRole, SameAnim, TurnFrames, ElemFrames
<1>7. \A k \in DOMAIN stk : stk[k].at \in {"end", "complete", "unqueue", "timer", "made"} =>
        k \in DOMAIN st /\ stk[k].at = st[k].at /\ stk[k].a = st[k].a
  BY <1>2 DEF Alike, SameRole, TurnFrames
<1>8. Unique(st, am, W)
  BY <1>1, <1>5 DEF Unique
<1>9. Served(st, am, qu, W)
  BY <1>1, <1>5 DEF Served, Will, StopsOf
<1>10. Watched(st, am, hn, W)
  BY <1>1, <1>2, <1>4, <1>5 DEF Watched, HooksKept, May, StopsOf
<1>11. Exact(st, am, hn)
  BY <1>1, <1>2, <1>4 DEF Exact, HooksKept
<1>12. DueOk(st, am, tn, qu, X)
  <2> SUFFICES ASSUME NEW k \in DOMAIN st, st[k].at \in ElemFrames, NEW a \in Anim, Serves(am, a, st[k].a), a \notin X
               PROVE  \/ Reaches(st, k, tn, a)
                      \/ Above(st, k, {"end"}, a)
                      \/ st[k].todo # <<>> /\ Above(st, k, {"timer", "made"}, a)
                      \/ Follows(st[k], qu[st[k].a])
    BY DEF DueOk
  <2>1. k \in DOMAIN stk /\ st[k] = stk[k] /\ Serves(an, a, stk[k].a)
    BY <1>2, <1>5
  <2>2. \/ Reaches(stk, k, tm, a)
        \/ Above(stk, k, {"end"}, a)
        \/ stk[k].todo # <<>> /\ Above(stk, k, {"timer", "made"}, a)
        \/ Follows(stk[k], qu[stk[k].a])
    BY <1>1, <2>1 DEF DueOk
  <2>3. Reaches(stk, k, tm, a) => Reaches(st, k, tn, a)
    BY <1>3, <2>1 DEF Reaches
  <2>4. Above(stk, k, {"end"}, a) => Above(st, k, {"end"}, a)
    BY <1>7 DEF Above
  <2>5. Above(stk, k, {"timer", "made"}, a) => Above(st, k, {"timer", "made"}, a)
    BY <1>7 DEF Above
  <2> QED BY <2>1, <2>2, <2>3, <2>4, <2>5
<1>13. Within(st, am)
  BY <1>1, <1>5, <1>6 DEF Within, StopsOf
<1>14. Finishing(st, am, qu, fin)
  <2>1. \A e \in Elem : fin[e] <=> \E k \in DOMAIN st : StopsOf(st[k], e) /\ st[k].todo # <<>>
    BY <1>1, <1>5 DEF Finishing, StopsOf
  <2> QED BY <1>1, <1>5, <1>6, <2>1 DEF Finishing
<1>15. AttachOk(st, am)
  <2>1. \A a \in Anim : am[a].state = "pending" <=> am[a].elem
    BY <1>1, <1>2 DEF AttachOk, Alike, Likewise
  <2>2. \A a \in Anim : am[a].state = "pending" /\ ~am[a].attached
                          => \E k \in DOMAIN st : st[k].at = "timer" /\ st[k].a = a
    BY <1>1, <1>2, <1>7 DEF AttachOk, Alike, Likewise
  <2> QED BY <1>1, <1>6, <2>1, <2>2 DEF AttachOk
<1>16. EmptiedOk(st, am, qu, hn)
  BY <1>1, <1>2, <1>5 DEF EmptiedOk, HooksKept, StopsOf
<1>17. EndsOk(st, am)
  BY <1>1, <1>5, <1>6 DEF EndsOk, StopsOf
<1> QED BY <1>1, <1>2, <1>8, <1>9, <1>10, <1>11, <1>12, <1>13, <1>14, <1>15, <1>16, <1>17 DEF Turns, st, am, tn, hn
-----------------------------------------------------------------------------
\* Steps that have nothing to do with the turns.
LEMMA SweptIs == ASSUME NEW s \in FxVars, NEW a \in Anim PROVE Sweep(s).anims[a] \in {s.anims[a], Gone}
<1> DEFINE kept == ToSet(s.timers) \cup {s.stack[i].a : i \in DOMAIN s.stack}
                     \cup (UNION {ToSet(s.queue[e]) : e \in Elem})
                     \cup (UNION {ToSet(s.stack[i].todo) : i \in DOMAIN s.stack})
           x == [b \in Anim |-> IF s.anims[b].state \notin {"new", "pending"} /\ b \notin kept
                                  THEN Gone ELSE s.anims[b]]
<1>1. Sweep(s) = [s EXCEPT !.anims = x]
  BY Zenon DEF Sweep
<1> HIDE DEF kept
<1>2. x[a] \in {s.anims[a], Gone}
  OBVIOUS
<1>3. Gone \in AnimVars /\ s.anims \in [Anim -> AnimVars]
  BY NotMadeIs, FxIs
<1>4. x \in [Anim -> AnimVars]
  BY <1>3
<1> HIDE DEF x
<1>5. [s EXCEPT !.anims = x].anims = x
  BY <1>4, AnimsIs
<1> QED BY <1>1, <1>2, <1>5

LEMMA TurnsSweeps ==
    ASSUME NEW s, Base(s), Turns(s, {}, {})
    PROVE  Turns(Sweep(s), {}, {})
<1> DEFINE t == Sweep(s)
<1>1. s \in FxVars /\ FramesOk(s.stack, s.anims) /\ AttachOk(s.stack, s.anims)
  BY DEF Base, Turns
<1>2. Sweeps(s, t) /\ \A a \in Anim : t.anims[a] \in {s.anims[a], Gone}
  BY <1>1, SweepIs, SweptIs
<1> HIDE DEF t
<1>3. /\ t.timers = s.timers /\ t.queue = s.queue /\ t.hooks = s.hooks /\ t.finish = s.finish /\ t.stack = s.stack
  BY <1>2 DEF Sweeps, Animated
<1>4. \A a \in Anim : Likewise(s.anims[a], t.anims[a])
  <2> TAKE a \in Anim
  <2>1. CASE t.anims[a] = s.anims[a]
    BY <2>1 DEF Likewise
  <2>2. CASE t.anims[a] # s.anims[a]
    <3>1. t.anims[a] = Gone /\ s.anims[a].state # "pending" /\ ~s.anims[a].elem
      BY <1>1, <1>2, <2>2 DEF Sweeps, AttachOk
    <3>2. Gone.state = "gone" /\ ~Gone.elem
      BY NotMadeIs
    <3> QED BY <3>1, <3>2 DEF Likewise
  <2> QED BY <2>1, <2>2
<1>5. \A k \in DOMAIN s.stack : s.stack[k].at \in TurnFrames \ ElemFrames => SameAnim(s.anims[s.stack[k].a], t.anims[s.stack[k].a])
  <2> SUFFICES ASSUME NEW k \in DOMAIN s.stack, s.stack[k].at \in TurnFrames \ ElemFrames
               PROVE  SameAnim(s.anims[s.stack[k].a], t.anims[s.stack[k].a])
    OBVIOUS
  <2>1. s.stack[k].a \in Anim
    BY <1>1 DEF FramesOk, TurnFrames, ElemFrames, AnimFrames
  <2>2. t.anims[s.stack[k].a] = s.anims[s.stack[k].a]
    BY <1>2, <2>1 DEF Sweeps
  <2> QED BY <2>2 DEF SameAnim
<1>6. Alike(s.stack, s.anims, t.stack, t.anims)
  BY <1>3, <1>4, <1>5 DEF Alike, SameRole
<1>7. HooksKept(s.hooks, t.hooks)
  BY <1>3 DEF HooksKept
<1>8. Turns(t, {}, {})
  BY <1>3, <1>6, <1>7, TurnsSame
<1> QED BY <1>8 DEF t

LEMMA TurnsGoes == ASSUME NEW s, Base(s), Turns(s, {}, {}), Goes(s) PROVE Turns(fx', {}, {})
BY TurnsSweeps DEF Goes

\* The stack changes, and no call on it that has or takes a turn.
Neutral(stk, st) ==
    /\ \A k \in DOMAIN stk : stk[k].at \in TurnFrames => k \in DOMAIN st /\ SameRole(stk[k], st[k])
    /\ \A k \in DOMAIN st : st[k].at \in TurnFrames => k \in DOMAIN stk /\ SameRole(stk[k], st[k])

LEMMA NeutralAlike == ASSUME NEW stk, NEW st, NEW an, Neutral(stk, st) PROVE Alike(stk, an, st, an)
BY DEF Neutral, Alike, Likewise, SameAnim

LEMMA TurnsNeutral ==
    ASSUME NEW s, NEW t, NEW W, NEW X, Base(s), Turns(s, W, X), Stacked(s, t), Neutral(s.stack, t.stack)
    PROVE  Turns(t, W, X)
<1>1. /\ t.anims = s.anims /\ t.queue = s.queue /\ t.finish = s.finish /\ t.hooks = s.hooks /\ t.timers = s.timers
  BY DEF Stacked
<1>2. Alike(s.stack, s.anims, t.stack, t.anims)
  BY <1>1, NeutralAlike
<1>3. HooksKept(s.hooks, t.hooks)
  BY <1>1 DEF HooksKept
<1> QED BY <1>1, <1>2, <1>3, TurnsSame

LEMMA TellsNeutral ==
    ASSUME NEW stk \in Seq(FrameVars), NEW st, Tells(stk, st)
    PROVE  Neutral(stk, st)
<1>1. st \in Seq(FrameVars) /\ Len(st) >= Len(stk)
  BY DEF Tells
<1>2. \A k \in DOMAIN st : \/ k \in DOMAIN stk /\ st[k] = stk[k]
                           \/ st[k].at = "user"
  BY SMTT(30), <1>1, UserIs DEF Tells
<1>3. \A k \in DOMAIN stk : k \in DOMAIN st /\ st[k] = stk[k]
  BY <1>1 DEF Tells
<1> QED BY <1>2, <1>3 DEF Neutral, SameRole, TurnFrames

LEMMA AddsNeutral ==
    ASSUME NEW stk \in Seq(FrameVars), NEW f, NEW st, Adds(stk, f, st), f.at \notin TurnFrames
    PROVE  Neutral(stk, st)
<1>1. \A k \in DOMAIN st : (k \in DOMAIN stk /\ st[k] = stk[k]) \/ st[k] = f
  BY DEF Adds
<1>2. \A k \in DOMAIN stk : k \in DOMAIN st /\ st[k] = stk[k]
  BY DEF Adds
<1> QED BY <1>1, <1>2 DEF Neutral, SameRole

LEMMA DropsNeutral ==
    ASSUME NEW stk \in Seq(FrameVars), NEW st, Drops(stk, st), stk[Len(stk)].at \notin TurnFrames
    PROVE  Neutral(stk, st)
<1>1. \A k \in DOMAIN stk : (k \in DOMAIN st /\ st[k] = stk[k]) \/ stk[k] = stk[Len(stk)]
  BY DEF Drops
<1>2. \A k \in DOMAIN st : k \in DOMAIN stk /\ st[k] = stk[k]
  BY DEF Drops
<1> QED BY <1>1, <1>2 DEF Neutral, SameRole

LEMMA PutsNeutral ==
    ASSUME NEW stk \in Seq(FrameVars), NEW f, NEW st, Puts(stk, f, st),
           \/ f.at \notin TurnFrames /\ stk[Len(stk)].at \notin TurnFrames
           \/ SameRole(stk[Len(stk)], f)
    PROVE  Neutral(stk, st)
<1>1. DOMAIN st = DOMAIN stk
  BY DEF Puts
<1>2. \A k \in DOMAIN stk : st[k] = stk[k] \/ (k = Len(stk) /\ st[k] = f)
  BY DEF Puts
<1> QED BY <1>1, <1>2 DEF Neutral, SameRole

LEMMA TurnsPop ==
    ASSUME NEW s, NEW W, NEW X, Base(s), Turns(s, W, X), s.stack # <<>>, s.stack[Len(s.stack)].at \notin TurnFrames
    PROVE  Turns(Pop(s), W, X)
<1>1. Stacked(s, Pop(s)) /\ Drops(s.stack, Pop(s).stack) /\ s.stack \in Seq(FrameVars)
  BY PopIs, FxIs DEF Base
<1> QED BY <1>1, DropsNeutral, TurnsNeutral

\* Between the ticks nothing stops.
LEMMA TurnsPlain ==
    ASSUME NEW s, NEW t, NEW W, NEW X, Base(s), Turns(s, W, X), Plain(s.stack), Plain(t.stack),
           t.anims = s.anims, t.queue = s.queue, t.finish = s.finish, t.hooks = s.hooks
    PROVE  Turns(t, W, X)
<1>1. Neutral(s.stack, t.stack)
  BY DEF Plain, Neutral, TurnFrames
<1>2. Alike(s.stack, s.anims, t.stack, t.anims)
  BY <1>1, NeutralAlike
<1>3. HooksKept(s.hooks, t.hooks)
  BY DEF HooksKept
<1>4. \A k \in DOMAIN s.stack : s.stack[k].at \notin ElemFrames
  BY DEF Plain, ElemFrames
<1> QED BY <1>2, <1>3, <1>4, TurnsSame

LEMMA TurnsReturn == ASSUME Base(fx), Turns(fx, {}, {}), Return PROVE Turns(fx', {}, {})
<1>1. fx.stack # <<>> /\ Top.at = "user" /\ Goes(Pop(fx))
  BY DEF Return, At
<1>2. Turns(Pop(fx), {}, {})
  BY <1>1, TurnsPop DEF Top, TurnFrames
<1> QED BY <1>1, <1>2, BasePop, TurnsGoes

LEMMA TurnsFxTick == ASSUME Base(fx), Turns(fx, {}, {}), FxTick PROVE Turns(fx', {}, {})
<1> DEFINE t == Push(fx, TickStart)
<1>1. fx.stack = <<>> /\ Goes(t)
  BY DEF FxTick, TickStart
<1>2. Base(t) /\ Stacked(fx, t) /\ DOMAIN t.stack = {1} /\ t.stack[1].at = "fxtick"
  BY <1>1, FxTickIs
<1> HIDE DEF t
<1>3. Plain(fx.stack) /\ Plain(t.stack)
  BY <1>1, <1>2 DEF Plain
<1>4. Turns(t, {}, {})
  BY <1>2, <1>3, TurnsPlain DEF Stacked
<1> QED BY <1>1, <1>2, <1>4, TurnsGoes

LEMMA TurnsTickNext == ASSUME Base(fx), Turns(fx, {}, {}), TickNext PROVE Turns(fx', {}, {})
<1> DEFINE called == GoTo(fx, TickFrame) left == GoTo(called, LeftFrame) a == fx.timers[Top.i]
           step == Of("step", a) ticks == Push(called, step)
<1>1. /\ fx.stack # <<>> /\ Top.at = "fxtick" /\ Top.i <= Len(fx.timers)
      /\ Goes(left) \/ Goes(ticks)
  BY Zenon DEF TickNext, At, TickFrame, LeftFrame
<1>2. /\ Stacked(fx, called) /\ Puts(fx.stack, TickFrame, called.stack)
      /\ Base(left) /\ Stacked(called, left) /\ Puts(called.stack, LeftFrame, left.stack)
      /\ Base(ticks) /\ Stacked(called, ticks) /\ Adds(called.stack, step, ticks.stack)
      /\ step.at = "step"
  BY <1>1, TickNextIs
<1>3. TickFrame.at = "fxticked" /\ LeftFrame.at = "fxticked"
  BY <1>1, TickFrameIs
<1>4. Len(fx.stack) = 1 /\ Plain(fx.stack)
  BY <1>1, AloneIs DEF Top
<1> HIDE DEF called, left, ticks, step, a
<1>5. Plain(left.stack)
  <2>1. left.stack \in Seq(FrameVars) /\ Len(left.stack) = 1 /\ left.stack[1] = LeftFrame
    BY <1>2, <1>4 DEF Puts
  <2> QED BY <1>3, <2>1 DEF Plain
<1>6. Plain(ticks.stack)
  <2>1. Len(called.stack) = 1 /\ called.stack[1] = TickFrame
    BY <1>2, <1>4 DEF Puts
  <2>2. ticks.stack \in Seq(FrameVars) /\ Len(ticks.stack) = 2 /\ ticks.stack[1] = TickFrame /\ ticks.stack[2] = step
    BY <1>2, <2>1 DEF Adds
  <2> QED BY <1>2, <1>3, <2>2 DEF Plain
<1>7. Turns(left, {}, {})
  BY <1>2, <1>4, <1>5, TurnsPlain DEF Stacked
<1>8. Turns(ticks, {}, {})
  BY <1>2, <1>4, <1>6, TurnsPlain DEF Stacked
<1> QED BY <1>1, <1>2, <1>7, <1>8, TurnsGoes

LEMMA TurnsTicked == ASSUME Base(fx), Turns(fx, {}, {}), Ticked PROVE Turns(fx', {}, {})
<1> DEFINE on == GoTo(fx, NextFrame) off == GoTo(RemovedOne, SameFrame)
<1>1. /\ fx.stack # <<>> /\ Top.at = "fxticked"
      /\ \/ Top.i <= Len(fx.timers) /\ Goes(off)
         \/ Goes(on)
  BY Zenon DEF Ticked, At, RemovedOne, SameFrame, NextFrame
<1>2. Len(fx.stack) = 1 /\ Plain(fx.stack)
  BY <1>1, AloneIs DEF Top
<1>3. NextFrame.at = "fxtick" /\ SameFrame.at = "fxtick"
  BY <1>1, TickedFrames
<1>4. /\ Base(on) /\ Stacked(fx, on) /\ Puts(fx.stack, NextFrame, on.stack)
      /\ Top.i <= Len(fx.timers) =>
           Timed(fx, RemovedOne) /\ Base(off) /\ Stacked(RemovedOne, off) /\ Puts(fx.stack, SameFrame, off.stack)
  BY <1>1, TickedIs
<1> HIDE DEF on, off
<1>5. Turns(on, {}, {})
  <2>1. on.stack \in Seq(FrameVars) /\ Len(on.stack) = 1 /\ on.stack[1] = NextFrame
    BY <1>2, <1>4 DEF Puts
  <2>2. Plain(on.stack)
    BY <1>3, <2>1 DEF Plain
  <2> QED BY <1>2, <1>4, <2>2, TurnsPlain DEF Stacked
<1>6. Top.i <= Len(fx.timers) => Turns(off, {}, {})
  <2> HAVE Top.i <= Len(fx.timers)
  <2>1. off.stack \in Seq(FrameVars) /\ Len(off.stack) = 1 /\ off.stack[1] = SameFrame
    BY <1>2, <1>4 DEF Puts
  <2>2. Plain(off.stack)
    BY <1>3, <2>1 DEF Plain
  <2> QED BY <1>2, <1>4, <2>2, TurnsPlain DEF Stacked, Timed
<1> QED BY <1>1, <1>4, <1>5, <1>6, TurnsGoes

LEMMA TurnsTickEnds == ASSUME Base(fx), Turns(fx, {}, {}), TickEnds PROVE Turns(fx', {}, {})
<1>1. PICK id \in BOOLEAN : id = (fx.timers # <<>>)
  OBVIOUS
<1> DEFINE s == Pop(fx) t == [s EXCEPT !.timerId = id]
<1>2. fx.stack # <<>> /\ Top.at = "fxtick" /\ Goes(t)
  BY <1>1 DEF TickEnds, At
<1>3. Base(s) /\ Turns(s, {}, {}) /\ Len(fx.stack) = 1 /\ Drops(fx.stack, s.stack)
  BY <1>2, BasePop, AloneIs, TurnsPop, PopIs DEF Top, TurnFrames, Base
<1> HIDE DEF s
<1>4. Timed(s, t) /\ t.timers = s.timers
  BY <1>3, IntervalIs DEF Base
<1> HIDE DEF t
<1>5. Base(t)
  BY <1>3, <1>4, BaseTimed
<1>6. Plain(s.stack) /\ t.stack = s.stack
  BY <1>3, <1>4 DEF Drops, Plain, Timed
<1>7. Turns(t, {}, {})
  BY <1>3, <1>4, <1>6, TurnsPlain DEF Timed
<1> QED BY <1>2, <1>5, <1>7, TurnsGoes

\* The tick tells the one that has called it whether the timer stays.
LEMMA TurnsAnswers ==
    ASSUME NEW v \in BOOLEAN, Base(fx), Turns(fx, {}, {}), At("step") \/ At("ended")
    PROVE  Turns([Pop(fx) EXCEPT !.stack[Len(fx.stack) - 1].end = v], {}, {})
<1> DEFINE p == Pop(fx) t == [Pop(fx) EXCEPT !.stack[Len(fx.stack) - 1].end = v]
           f == [p.stack[Len(p.stack)] EXCEPT !.end = v]
<1>1. /\ Base(t) /\ Base(p) /\ p.stack # <<>> /\ Stacked(p, t) /\ Puts(p.stack, f, t.stack)
      /\ f.at = p.stack[Len(p.stack)].at /\ f.a = p.stack[Len(p.stack)].a
      /\ f.at \in {"timer", "fxticked"}
  BY BaseAnswers
<1>2. fx.stack # <<>> /\ Top.at \in {"step", "ended"}
  BY DEF At
<1>3. Turns(p, {}, {})
  BY <1>2, TurnsPop DEF Top, TurnFrames
<1> HIDE DEF p, t, f
<1>4. SameRole(p.stack[Len(p.stack)], f)
  BY <1>1 DEF SameRole, ElemFrames
<1>5. Neutral(p.stack, t.stack)
  BY <1>1, <1>4, PutsNeutral, FxIs DEF Base
<1>6. Turns(t, {}, {})
  BY <1>1, <1>3, <1>5, TurnsNeutral
<1> QED BY <1>6 DEF t

LEMMA TurnsEnded == ASSUME Base(fx), Turns(fx, {}, {}), Ended PROVE Turns(fx', {}, {})
<1> DEFINE v == FALSE w == [Pop(fx) EXCEPT !.stack[Len(fx.stack) - 1].end = v]
<1>1. At("ended") /\ v \in BOOLEAN /\ Goes(w)
  BY DEF Ended
<1> HIDE DEF v
<1>2. Turns(w, {}, {}) /\ Base(w)
  BY <1>1, TurnsAnswers, BaseAnswers
<1> HIDE DEF w
<1> QED BY <1>1, <1>2, TurnsGoes
-----------------------------------------------------------------------------
\* An animation ends: the turn goes to the call of its complete function.
Completes(an, a, out) == an[a].queued /\ out = "resolved" /\ an[a].attached
NewCall(an, a, out, f) ==
    \/ f.at = "user"
    \/ ~an[a].queued /\ f.at = "unqueue" /\ f.a = a
    \/ Completes(an, a, out) /\ f.at = "complete" /\ f.a = a
Settles(s, a, out, t) ==
    /\ t.timers = s.timers /\ t.queue = s.queue /\ t.hooks = s.hooks /\ t.finish = s.finish
    /\ t.anims[a].state = out /\ ~t.anims[a].elem
    /\ \A b \in Anim : b # a => t.anims[b] = s.anims[b]
    /\ \A b \in Anim : t.anims[b].of = s.anims[b].of /\ t.anims[b].queued = s.anims[b].queued
                         /\ t.anims[b].attached = s.anims[b].attached
    /\ \A k \in DOMAIN s.stack : k \in DOMAIN t.stack /\ t.stack[k] = s.stack[k]
    /\ \A k \in DOMAIN t.stack :
         \/ k \in DOMAIN s.stack
         \/ NewCall(s.anims, a, out, t.stack[k]) /\ \A l \in DOMAIN s.stack : k > l
    /\ ~s.anims[a].queued => Leaving(t.stack, a)
    /\ Completes(s.anims, a, out) =>
         \E k \in DOMAIN t.stack : /\ k \notin DOMAIN s.stack
                                   /\ t.stack[k].at = "complete" /\ t.stack[k].a = a
                                   /\ \A l \in DOMAIN t.stack : l \in DOMAIN s.stack \/ l = k

LEMMA SettledElem ==
    ASSUME NEW s \in FxVars, NEW a \in Anim, NEW out \in States
    PROVE  ~SettledOne(s, a, out).anims[a].elem
<1>1. PICK el : el = FALSE
  OBVIOUS
<1> DEFINE y == [s.anims[a] EXCEPT !.state = out] y2 == [y EXCEPT !.elem = el]
           x == [s.anims EXCEPT ![a] = y2]
<1>2. s.anims \in [Anim -> AnimVars] /\ el \in BOOLEAN
  BY <1>1, FxIs
<1>3. y2 \in AnimVars /\ y2.elem = el
  BY <1>2 DEF AnimVars
<1>4. x[a] = y2 /\ x \in [Anim -> AnimVars]
  BY <1>2, <1>3
<1>5. [s EXCEPT !.anims = x].anims = x
  BY <1>4, AnimsIs
<1>6. SettledOne(s, a, out) = [s EXCEPT !.anims = x]
  <2>1. s.anims \in [Anim -> AnimVars]
    BY <1>2
  <2> QED BY <1>1, <2>1 DEF SettledOne, FxVars
<1> QED BY <1>1, <1>3, <1>4, <1>5, <1>6

\* Calls on the top of the stack, as of Adds but in terms of indexes.
LEMMA AddedIs ==
    ASSUME NEW stk \in Seq(FrameVars), NEW f, NEW st, Adds(stk, f, st)
    PROVE  /\ \A k \in DOMAIN stk : k \in DOMAIN st /\ st[k] = stk[k] /\ k < Len(stk) + 1
           /\ \A k \in DOMAIN st : k \in DOMAIN stk \/ k = Len(stk) + 1
           /\ Len(stk) + 1 \in DOMAIN st /\ Len(stk) + 1 \notin DOMAIN stk /\ st[Len(stk) + 1] = f
           /\ DOMAIN st = 1 .. Len(stk) + 1 /\ Len(stk) \in Nat
BY DEF Adds

LEMMA SettlesIs ==
    ASSUME NEW s, NEW a \in Anim, Base(s), NEW out \in {"resolved", "rejected"}, s.anims[a].state = "pending"
    PROVE  Settles(s, a, out, Settle(s, a, out))
<1> DEFINE u == SettledOne(s, a, out) g == Of("unqueue", a) c == IF s.anims[a].queued THEN u ELSE Push(u, g)
           h == Of("complete", a) d == Complete(c, a) t == Settle(s, a, out)
<1>1. s \in FxVars /\ out \in States /\ s.anims \in [Anim -> AnimVars] /\ s.stack \in Seq(FrameVars)
      /\ s.anims[a].queued \in BOOLEAN
  BY FxIs, AnimIs DEF Base, States
<1>2. /\ Animated(s, u) /\ u.anims[a].state = out /\ ~u.anims[a].elem
      /\ \A b \in Anim : b # a => u.anims[b] = s.anims[b]
      /\ \A b \in Anim : u.anims[b].of = s.anims[b].of /\ u.anims[b].queued = s.anims[b].queued
                           /\ u.anims[b].attached = s.anims[b].attached
  BY <1>1, SettledIs, SettledElem
<1>3. t = IF out = "resolved" /\ s.anims[a].attached THEN d ELSE c
  BY DEF Settle, SettledOne
<1>4. d = Push(c, IF c.anims[a].queued THEN h ELSE User)
  BY DEF Complete
<1>5. g \in FrameVars /\ g.at = "unqueue" /\ g.a = a /\ h \in FrameVars /\ h.at = "complete" /\ h.a = a
      /\ User \in FrameVars /\ User.at = "user"
  <2>1. "unqueue" \in AnimFrames /\ "complete" \in AnimFrames
    BY DEF AnimFrames
  <2> QED BY <2>1, OfAnim, UserIs
<1>6. /\ u \in FxVars /\ u.stack = s.stack /\ u.timers = s.timers /\ u.queue = s.queue /\ u.hooks = s.hooks
      /\ u.finish = s.finish
  BY <1>2 DEF Animated
<1>7. CASE s.anims[a].queued
  <2>1. c = u
    BY <1>7
  <2>2. d = Push(u, h)
    BY <1>2, <1>4, <1>7, <2>1
  <2> HIDE DEF u, g, c, h, d, t
  <2>3. Stacked(u, d) /\ Adds(u.stack, h, d.stack)
    BY <1>5, <1>6, <2>2, PushIs
  <2>4. /\ \A k \in DOMAIN s.stack : k \in DOMAIN d.stack /\ d.stack[k] = s.stack[k] /\ k < Len(s.stack) + 1
        /\ \A k \in DOMAIN d.stack : k \in DOMAIN s.stack \/ k = Len(s.stack) + 1
        /\ Len(s.stack) + 1 \in DOMAIN d.stack /\ Len(s.stack) + 1 \notin DOMAIN s.stack
        /\ d.stack[Len(s.stack) + 1] = h /\ Len(s.stack) \in Nat /\ DOMAIN s.stack = 1 .. Len(s.stack)
    BY <1>1, <1>6, <2>3, AddedIs
  <2>5. Settles(s, a, "rejected", u) /\ ~s.anims[a].attached => Settles(s, a, out, u)
    BY <1>2 DEF Settles, Completes
  <2>6. CASE out = "resolved" /\ s.anims[a].attached
    <3>1. Completes(s.anims, a, out)
      BY <1>7, <2>6 DEF Completes
    <3>2. d.anims = u.anims /\ d.timers = u.timers /\ d.queue = u.queue /\ d.hooks = u.hooks /\ d.finish = u.finish
      BY <2>3 DEF Stacked
    <3>3. \A k \in DOMAIN d.stack : k \in DOMAIN s.stack \/
             (NewCall(s.anims, a, out, d.stack[k]) /\ \A l \in DOMAIN s.stack : k > l)
      BY <1>5, <2>4, <3>1 DEF NewCall
    <3>4. \E k \in DOMAIN d.stack : /\ k \notin DOMAIN s.stack
                                    /\ d.stack[k].at = "complete" /\ d.stack[k].a = a
                                    /\ \A l \in DOMAIN d.stack : l \in DOMAIN s.stack \/ l = k
      BY <1>5, <2>4
    <3>5. Settles(s, a, out, d)
      BY <1>2, <1>6, <1>7, <2>4, <3>2, <3>3, <3>4 DEF Settles
    <3> QED BY <1>3, <2>6, <3>5 DEF t
  <2>7. CASE ~(out = "resolved" /\ s.anims[a].attached)
    <3>1. ~Completes(s.anims, a, out)
      BY <2>7 DEF Completes
    <3>2. Settles(s, a, out, u)
      BY <1>2, <1>6, <1>7, <3>1 DEF Settles
    <3> QED BY <1>3, <2>1, <2>7, <3>2 DEF t
  <2> QED BY <2>6, <2>7
<1>8. CASE ~s.anims[a].queued
  <2>1. c = Push(u, g)
    BY <1>8
  <2> HIDE DEF u, g, c, h, d, t
  <2>2. Stacked(u, c) /\ Adds(u.stack, g, c.stack)
    BY <1>5, <1>6, <2>1, PushIs
  <2>3. c \in FxVars /\ c.anims = u.anims /\ c.stack \in Seq(FrameVars) /\ ~c.anims[a].queued
    BY <1>2, <1>8, <2>2, FxIs DEF Stacked
  <2>4. d = Push(c, User)
    BY <1>4, <2>3
  <2>5. Stacked(c, d) /\ Adds(c.stack, User, d.stack)
    BY <1>5, <2>3, <2>4, PushIs
  <2>6. /\ \A k \in DOMAIN s.stack : k \in DOMAIN c.stack /\ c.stack[k] = s.stack[k] /\ k < Len(s.stack) + 1
        /\ \A k \in DOMAIN c.stack : k \in DOMAIN s.stack \/ k = Len(s.stack) + 1
        /\ Len(s.stack) + 1 \in DOMAIN c.stack /\ Len(s.stack) + 1 \notin DOMAIN s.stack
        /\ c.stack[Len(s.stack) + 1] = g /\ Len(s.stack) \in Nat
    BY <1>1, <1>6, <2>2, AddedIs
  <2>7. /\ \A k \in DOMAIN c.stack : k \in DOMAIN d.stack /\ d.stack[k] = c.stack[k] /\ k < Len(c.stack) + 1
        /\ \A k \in DOMAIN d.stack : k \in DOMAIN c.stack \/ k = Len(c.stack) + 1
        /\ d.stack[Len(c.stack) + 1] = User
    BY <2>3, <2>5, AddedIs
  <2>8. ~Completes(s.anims, a, out)
    BY <1>8 DEF Completes
  <2>9. Leaving(c.stack, a) /\ Leaving(d.stack, a)
    <3>1. Len(s.stack) + 1 \in DOMAIN d.stack /\ d.stack[Len(s.stack) + 1] = g
      BY <2>6, <2>7
    <3> QED BY <1>5, <2>6, <3>1 DEF Leaving
  <2>10. \A k \in DOMAIN c.stack : k \in DOMAIN s.stack \/
             (NewCall(s.anims, a, out, c.stack[k]) /\ \A l \in DOMAIN s.stack : k > l)
    BY <1>5, <1>8, <2>6 DEF NewCall
  <2>11. \A k \in DOMAIN d.stack : k \in DOMAIN s.stack \/
             (NewCall(s.anims, a, out, d.stack[k]) /\ \A l \in DOMAIN s.stack : k > l)
    <3> SUFFICES ASSUME NEW k \in DOMAIN d.stack, k \notin DOMAIN s.stack
                 PROVE  NewCall(s.anims, a, out, d.stack[k]) /\ \A l \in DOMAIN s.stack : k > l
      OBVIOUS
    <3>1. CASE k \in DOMAIN c.stack
      BY <2>7, <2>10, <3>1
    <3>2. CASE k = Len(c.stack) + 1
      <4>1. \A l \in DOMAIN s.stack : k > l
        BY <2>6, <2>7, <3>2
      <4> QED BY <1>5, <2>7, <3>2, <4>1 DEF NewCall
    <3> QED BY <2>7, <3>1, <3>2
  <2>12. c.timers = u.timers /\ c.queue = u.queue /\ c.hooks = u.hooks /\ c.finish = u.finish
    BY <2>2 DEF Stacked
  <2>13. d.anims = u.anims /\ d.timers = u.timers /\ d.queue = u.queue /\ d.hooks = u.hooks /\ d.finish = u.finish
    BY <2>3, <2>5, <2>12 DEF Stacked
  <2>14. Settles(s, a, out, c)
    BY <1>2, <1>6, <2>3, <2>6, <2>8, <2>9, <2>10, <2>12 DEF Settles
  <2>15. Settles(s, a, out, d)
    BY <1>2, <1>6, <2>6, <2>7, <2>8, <2>9, <2>11, <2>13 DEF Settles
  <2> QED BY <1>3, <2>14, <2>15 DEF t
<1> QED BY <1>1, <1>7, <1>8

\* stop will take the next, or lets the complete function take it.
Ready(s, a, out) ==
    LET x == s.anims[a] IN
    x.state = "pending" =>
        /\ ~x.queued => \A k \in DOMAIN s.stack : StopsOf(s.stack[k], x.of) => s.stack[k].todo = <<>>
        /\ x.queued /\ out = "rejected" => \E k \in DOMAIN s.stack : Will(s.stack[k], x.of)
        /\ x.queued /\ out = "resolved" => \A k \in DOMAIN s.stack : StopsOf(s.stack[k], x.of) => Ends(s.stack[k])

LEMMA TurnsX ==
    ASSUME NEW s, NEW a \in Anim, NEW X \in SUBSET {a}, Turns(s, {}, X), s.anims[a].state # "pending"
    PROVE  Turns(s, {}, {})
<1>1. DueOk(s.stack, s.anims, s.timers, s.queue, {})
  BY DEF Turns, DueOk, Serves
<1> QED BY <1>1 DEF Turns

LEMMA TurnsSettled ==
    ASSUME NEW s, NEW t, NEW a \in Anim, NEW X \in SUBSET {a}, NEW out \in {"resolved", "rejected"},
           Base(s), Turns(s, {}, X), s.anims[a].state = "pending", Ready(s, a, out), Settles(s, a, out, t)
    PROVE  Turns(t, {}, {})
<1> DEFINE stk == s.stack st == t.stack an == s.anims am == t.anims qu == s.queue tm == s.timers hk == s.hooks
           fin == s.finish e == an[a].of
<1>1. /\ Unique(stk, an, {}) /\ Served(stk, an, qu, {}) /\ Watched(stk, an, hk, {}) /\ Exact(stk, an, hk)
      /\ DueOk(stk, an, tm, qu, X) /\ Within(stk, an) /\ Finishing(stk, an, qu, fin) /\ AttachOk(stk, an)
      /\ EmptiedOk(stk, an, qu, hk) /\ EndsOk(stk, an) /\ HeadOk(qu)
  BY DEF Turns
<1>2. /\ t.timers = tm /\ t.queue = qu /\ t.hooks = hk /\ t.finish = fin
      /\ am[a].state = out /\ ~am[a].elem /\ an[a].state = "pending"
      /\ \A b \in Anim : b # a => am[b] = an[b]
      /\ \A b \in Anim : am[b].of = an[b].of /\ am[b].queued = an[b].queued /\ am[b].attached = an[b].attached
  BY DEF Settles
<1>3. /\ \A k \in DOMAIN stk : k \in DOMAIN st /\ st[k] = stk[k]
      /\ \A k \in DOMAIN st : k \in DOMAIN stk \/ (NewCall(an, a, out, st[k]) /\ \A l \in DOMAIN stk : k > l)
  BY DEF Settles
<1>4. /\ ~an[a].queued => Leaving(st, a)
      /\ Completes(an, a, out) =>
           \E k \in DOMAIN st : /\ k \notin DOMAIN stk /\ st[k].at = "complete" /\ st[k].a = a
                                /\ \A l \in DOMAIN st : l \in DOMAIN stk \/ l = k
  BY DEF Settles
<1>5. /\ ~an[a].queued => \A k \in DOMAIN stk : StopsOf(stk[k], e) => stk[k].todo = <<>>
      /\ an[a].queued /\ out = "rejected" => \E k \in DOMAIN stk : Will(stk[k], e)
      /\ an[a].queued /\ out = "resolved" => \A k \in DOMAIN stk : StopsOf(stk[k], e) => Ends(stk[k])
  BY DEF Ready
<1>6. /\ \A k \in DOMAIN stk : stk[k].at \in AnimFrames => stk[k].a \in Anim
      /\ e \in Elem
  BY DEF Base, FramesOk, AnimsOk
<1>7. an[a].queued \in BOOLEAN /\ out \in {"resolved", "rejected"}
  BY FxIs, AnimIs DEF Base
<1> HIDE DEF stk, st, an, am, qu, tm, hk, fin, e
<1>8. \A b \in Anim, d \in Elem : Serves(am, b, d) <=> b # a /\ Serves(an, b, d)
  BY <1>2, <1>7 DEF Serves
<1>9. \A k \in DOMAIN stk, d \in Elem : Hands(an, stk[k], d) => k \in DOMAIN st /\ Hands(am, st[k], d)
  BY <1>2, <1>3, <1>6 DEF Hands, AnimFrames
<1>10. \A k \in DOMAIN st, d \in Elem : Hands(am, st[k], d) =>
         \/ k \in DOMAIN stk /\ Hands(an, stk[k], d)
         \/ /\ d = e /\ an[a].queued /\ out = "resolved" /\ st[k].a = a
            /\ \/ an[a].attached /\ k \notin DOMAIN stk /\ st[k].at = "complete"
               \/ ~an[a].attached /\ k \in DOMAIN stk /\ stk[k].at = "timer"
  <2> SUFFICES ASSUME NEW k \in DOMAIN st, NEW d \in Elem, Hands(am, st[k], d)
               PROVE  \/ k \in DOMAIN stk /\ Hands(an, stk[k], d)
                      \/ /\ d = e /\ an[a].queued /\ out = "resolved" /\ st[k].a = a
                         /\ \/ an[a].attached /\ k \notin DOMAIN stk /\ st[k].at = "complete"
                            \/ ~an[a].attached /\ k \in DOMAIN stk /\ stk[k].at = "timer"
    OBVIOUS
  <2>1. CASE k \in DOMAIN stk
    <3>1. st[k] = stk[k] /\ (stk[k].at \in {"timer", "complete"} => stk[k].a \in Anim)
      BY <1>3, <1>6, <2>1 DEF AnimFrames
    <3>2. stk[k].at = "timer" => ~an[stk[k].a].attached
      BY <1>1, <2>1 DEF AttachOk
    <3>3. CASE stk[k].a = a
      BY <1>2, <2>1, <3>1, <3>2, <3>3 DEF Hands, e
    <3>4. CASE stk[k].a # a
      BY <1>2, <2>1, <3>1, <3>4 DEF Hands
    <3> QED BY <3>3, <3>4
  <2>2. CASE k \notin DOMAIN stk
    <3>1. NewCall(an, a, out, st[k])
      BY <1>3, <2>2
    <3> QED BY <1>2, <2>2, <3>1 DEF Hands, NewCall, Completes, e
  <2> QED BY <2>1, <2>2
<1>11. Serves(an, a, e) <=> an[a].queued
  BY <1>2 DEF Serves, e
<1>12. an[a].queued /\ out = "resolved" => \E k \in DOMAIN st : Hands(am, st[k], e)
  <2> HAVE an[a].queued /\ out = "resolved"
  <2>1. CASE an[a].attached
    <3>1. PICK k \in DOMAIN st : st[k].at = "complete" /\ st[k].a = a
      BY <1>4, <2>1 DEF Completes
    <3> QED BY <1>2, <3>1 DEF Hands, e
  <2>2. CASE ~an[a].attached
    <3>1. PICK k \in DOMAIN stk : stk[k].at = "timer" /\ stk[k].a = a
      BY <1>1, <1>2, <2>2 DEF AttachOk
    <3> QED BY <1>2, <1>3, <3>1 DEF Hands, e
  <2> QED BY <2>1, <2>2
<1>13. \A d \in Elem : HasTurn(st, am, d) => HasTurn(stk, an, d)
  BY <1>8, <1>10, <1>11 DEF HasTurn
<1>14. \A d \in Elem : HasTurn(stk, an, d) =>
          HasTurn(st, am, d) \/ (d = e /\ an[a].queued /\ out = "rejected")
  <2>1. \A d \in Elem : Serves(an, a, d) => d = e /\ an[a].queued
    BY DEF Serves, e
  <2> QED BY <1>7, <1>8, <1>9, <1>12, <2>1 DEF HasTurn
<1>15. \A k \in DOMAIN st : st[k].at \in ElemFrames \cup {"end", "timer", "made"} => k \in DOMAIN stk
  BY <1>3 DEF NewCall, ElemFrames
<1>16. \A d \in Elem : Beside(st, am, d) = Beside(stk, an, d)
  <2> TAKE d \in Elem
  <2>1. \A b \in Anim : b # a => (Leaving(st, b) <=> Leaving(stk, b))
    BY <1>3 DEF Leaving, NewCall
  <2>2. \A b \in Anim : b # a => (b \in Beside(st, am, d) <=> b \in Beside(stk, an, d))
    BY <1>2, <2>1 DEF Beside
  <2>3. a \in Beside(st, am, d) <=> a \in Beside(stk, an, d)
    BY <1>2, <1>4 DEF Beside
  <2> QED BY <2>2, <2>3 DEF Beside
<1>17. Unique(st, am, {})
  <2> SUFFICES ASSUME NEW d \in Elem
               PROVE  /\ \A b, c \in Anim : Serves(am, b, d) /\ Serves(am, c, d) => b = c
                      /\ \A k, l \in DOMAIN st : Hands(am, st[k], d) /\ Hands(am, st[l], d) => k = l
                      /\ \A b \in Anim, k \in DOMAIN st : ~(Serves(am, b, d) /\ Hands(am, st[k], d))
    BY DEF Unique
  <2>1. /\ \A b, c \in Anim : Serves(an, b, d) /\ Serves(an, c, d) => b = c
        /\ \A k, l \in DOMAIN stk : Hands(an, stk[k], d) /\ Hands(an, stk[l], d) => k = l
        /\ \A b \in Anim, k \in DOMAIN stk : ~(Serves(an, b, d) /\ Hands(an, stk[k], d))
    BY <1>1 DEF Unique
  <2>2. CASE d = e /\ an[a].queued
    <3>1. \A b \in Anim : ~Serves(am, b, d)
      BY <1>8, <1>11, <2>1, <2>2
    <3>2. \A k \in DOMAIN stk : ~Hands(an, stk[k], d)
      BY <1>11, <2>1, <2>2
    <3>3. ASSUME NEW k \in DOMAIN st, NEW l \in DOMAIN st, Hands(am, st[k], d), Hands(am, st[l], d)
          PROVE  k = l
      <4>1. /\ out = "resolved" /\ st[k].a = a /\ st[l].a = a
            /\ an[a].attached => k \notin DOMAIN stk /\ l \notin DOMAIN stk
            /\ ~an[a].attached => k \in DOMAIN stk /\ l \in DOMAIN stk /\ stk[k].at = "timer" /\ stk[l].at = "timer"
        BY <1>10, <3>2, <3>3
      <4>2. CASE an[a].attached
        BY <1>4, <2>2, <4>1, <4>2 DEF Completes
      <4>3. CASE ~an[a].attached
        BY <1>1, <1>3, <4>1, <4>3 DEF AttachOk
      <4> QED BY <4>2, <4>3
    <3> QED BY <3>1, <3>3
  <2>3. CASE ~(d = e /\ an[a].queued)
    <3>1. \A k \in DOMAIN st : Hands(am, st[k], d) => k \in DOMAIN stk /\ Hands(an, stk[k], d)
      BY <1>10, <2>3
    <3> QED BY <1>8, <2>1, <3>1
  <2> QED BY <2>2, <2>3
<1>18. \A d \in Elem : (\E k \in DOMAIN stk : Will(stk[k], d)) => \E k \in DOMAIN st : Will(st[k], d)
  BY <1>3
<1>19. Served(st, am, qu, {})
  BY <1>1, <1>5, <1>14, <1>18 DEF Served
<1>20. Watched(st, am, hk, {})
  <2>1. \A d \in Elem : (\E k \in DOMAIN stk : May(stk[k], d)) => \E k \in DOMAIN st : May(st[k], d)
    BY <1>3
  <2>2. \A k \in DOMAIN stk, d \in Elem : Will(stk[k], d) => May(stk[k], d)
    BY DEF Will, May
  <2> QED BY <1>1, <1>5, <1>6, <1>14, <1>16, <2>1, <2>2 DEF Watched
<1>21. Exact(st, am, hk)
  BY <1>1, <1>16 DEF Exact
<1>22. DueOk(st, am, tm, qu, {})
  <2> SUFFICES ASSUME NEW k \in DOMAIN st, st[k].at \in ElemFrames, NEW b \in Anim, Serves(am, b, st[k].a)
               PROVE  \/ Reaches(st, k, tm, b)
                      \/ Above(st, k, {"end"}, b)
                      \/ st[k].todo # <<>> /\ Above(st, k, {"timer", "made"}, b)
                      \/ Follows(st[k], qu[st[k].a])
    BY DEF DueOk
  <2>1. k \in DOMAIN stk /\ st[k] = stk[k] /\ b # a /\ Serves(an, b, stk[k].a)
    BY <1>2, <1>3, <1>7, <1>15 DEF Serves
  <2>2. \/ Reaches(stk, k, tm, b)
        \/ Above(stk, k, {"end"}, b)
        \/ stk[k].todo # <<>> /\ Above(stk, k, {"timer", "made"}, b)
        \/ Follows(stk[k], qu[stk[k].a])
    BY <1>1, <2>1 DEF DueOk
  <2>3. Reaches(stk, k, tm, b) => Reaches(st, k, tm, b)
    BY <2>1 DEF Reaches
  <2>4. \A ats : Above(stk, k, ats, b) => Above(st, k, ats, b)
    BY <1>3 DEF Above
  <2> QED BY <2>1, <2>2, <2>3, <2>4
<1>23. Within(st, am)
  <2> SUFFICES ASSUME NEW k \in DOMAIN st, NEW l \in DOMAIN st, st[l].at \in {"end", "complete", "timer"},
                      StopsOf(st[k], am[st[l].a].of)
               PROVE  l > k /\ Ends(st[k])
    BY DEF Within
  <2>1. k \in DOMAIN stk /\ st[k] = stk[k]
    BY <1>3, <1>15 DEF StopsOf
  <2>2. CASE l \in DOMAIN stk
    <3>1. st[l] = stk[l] /\ stk[l].a \in Anim /\ am[stk[l].a].of = an[stk[l].a].of
      BY <1>2, <1>3, <1>6, <2>2 DEF AnimFrames
    <3> QED BY <1>1, <2>1, <2>2, <3>1 DEF Within
  <2>3. CASE l \notin DOMAIN stk
    <3>1. l > k /\ Completes(an, a, out) /\ st[l].a = a
      BY <1>3, <2>1, <2>3 DEF NewCall
    <3>2. StopsOf(stk[k], e)
      BY <1>2, <2>1, <3>1 DEF e
    <3> QED BY <1>5, <2>1, <3>1, <3>2 DEF Completes
  <2> QED BY <2>2, <2>3
<1>24. Finishing(st, am, qu, fin)
  <2>1. \A d \in Elem : (\E k \in DOMAIN st : StopsOf(st[k], d) /\ st[k].todo # <<>>)
                          <=> (\E k \in DOMAIN stk : StopsOf(stk[k], d) /\ stk[k].todo # <<>>)
    BY <1>3, <1>15 DEF StopsOf
  <2>2. ASSUME NEW k \in DOMAIN st, st[k].at \in ElemFrames, st[k].todo # <<>>
        PROVE  /\ st[k].end /\ qu[st[k].a] = <<>>
               /\ \A l \in DOMAIN st :
                    l > k /\ st[l].at \in {"end", "complete", "unqueue", "timer", "made"} /\ am[st[l].a].of = st[k].a
                      => am[st[l].a].queued
    <3>1. k \in DOMAIN stk /\ st[k] = stk[k]
      BY <1>3, <1>15, <2>2
    <3>2. /\ stk[k].end /\ qu[stk[k].a] = <<>>
          /\ \A l \in DOMAIN stk :
               l > k /\ stk[l].at \in {"end", "complete", "unqueue", "timer", "made"} /\ an[stk[l].a].of = stk[k].a
                 => an[stk[l].a].queued
      BY <1>1, <2>2, <3>1 DEF Finishing
    <3>3. ASSUME NEW l \in DOMAIN st, l > k, st[l].at \in {"end", "complete", "unqueue", "timer", "made"},
                 am[st[l].a].of = st[k].a
          PROVE  am[st[l].a].queued
      <4>1. CASE l \in DOMAIN stk
        <5>1. st[l] = stk[l] /\ stk[l].a \in Anim
          BY <1>3, <1>6, <3>3, <4>1 DEF AnimFrames
        <5>2. am[stk[l].a].of = an[stk[l].a].of /\ am[stk[l].a].queued = an[stk[l].a].queued
          BY <1>2, <5>1
        <5> QED BY <3>1, <3>2, <3>3, <4>1, <5>1, <5>2
      <4>2. CASE l \notin DOMAIN stk
        <5>1. st[l].a = a /\ am[a].of = e
          BY <1>2, <1>3, <3>3, <4>2 DEF NewCall, e
        <5>2. StopsOf(stk[k], e)
          BY <2>2, <3>1, <3>3, <5>1 DEF StopsOf
        <5>3. an[a].queued
          BY <1>5, <2>2, <3>1, <5>2
        <5> QED BY <1>2, <5>1, <5>3
      <4> QED BY <4>1, <4>2
    <3> QED BY <3>1, <3>2, <3>3
  <2>3. \A d \in Elem : fin[d] <=> \E k \in DOMAIN st : StopsOf(st[k], d) /\ st[k].todo # <<>>
    BY <1>1, <2>1 DEF Finishing
  <2> QED BY <2>2, <2>3 DEF Finishing
<1>25. AttachOk(st, am)
  <2>1. \A b \in Anim : am[b].state = "pending" <=> am[b].elem
    BY <1>1, <1>2, <1>7 DEF AttachOk
  <2>2. \A b \in Anim : am[b].state = "pending" /\ ~am[b].attached
                          => \E k \in DOMAIN st : st[k].at = "timer" /\ st[k].a = b
    BY <1>1, <1>2, <1>3, <1>7 DEF AttachOk
  <2>3. \A k \in DOMAIN st : st[k].at \in {"end", "timer", "made"} =>
           k \in DOMAIN stk /\ st[k] = stk[k] /\ am[st[k].a].attached = an[st[k].a].attached
    BY <1>2, <1>3, <1>6, <1>15 DEF AnimFrames
  <2> QED BY <1>1, <2>1, <2>2, <2>3 DEF AttachOk
<1>26. EmptiedOk(st, am, qu, hk)
  BY <1>1, <1>3, <1>13 DEF EmptiedOk
<1>27. EndsOk(st, am)
  <2>1. \A l \in DOMAIN st : st[l].at = "end" => l \in DOMAIN stk /\ st[l] = stk[l] /\ am[st[l].a].of = an[st[l].a].of
    BY <1>2, <1>3, <1>6, <1>15 DEF AnimFrames
  <2> QED BY <1>1, <1>3, <2>1 DEF EndsOk
<1> QED BY <1>1, <1>2, <1>17, <1>19, <1>20, <1>21, <1>22, <1>23, <1>24, <1>25, <1>26, <1>27 DEF Turns, st, am

LEMMA TurnsSettles ==
    ASSUME NEW s, NEW a \in Anim, NEW X \in SUBSET {a}, NEW out \in {"resolved", "rejected"},
           Base(s), Turns(s, {}, X), Ready(s, a, out)
    PROVE  Turns(Settle(s, a, out), {}, {})
<1>1. CASE s.anims[a].state = "pending"
  BY <1>1, SettlesIs, TurnsSettled
<1>2. CASE s.anims[a].state # "pending"
  <2>1. Settle(s, a, out) = s
    BY <1>2 DEF Settle
  <2> QED BY <1>2, <2>1, TurnsX
<1> QED BY <1>1, <1>2
-----------------------------------------------------------------------------
\* The call that subtracts an animation may have gone.
RolesKept(stk, st) ==
    /\ \A k \in DOMAIN stk : stk[k].at \in TurnFrames \ {"unqueue"} => k \in DOMAIN st /\ SameRole(stk[k], st[k])
    /\ \A k \in DOMAIN st : st[k].at \in TurnFrames => k \in DOMAIN stk /\ SameRole(stk[k], st[k])
AtOne(s, e, t, V) ==
    LET turn == HasTurn(s.stack, s.anims, e)
        empty == t.queue[e] = <<>>
    IN  /\ e \in V => ~turn
        /\ ~empty => e \in V \/ turn \/ \E k \in DOMAIN s.stack : Will(s.stack[k], e)
        /\ t.hooks[e].present \/ t.hooks[e].waiting > 0 =>
             \/ e \in V \/ turn
             \/ \E k \in DOMAIN s.stack : May(s.stack[k], e)
             \/ Beside(t.stack, t.anims, e) # {}
        /\ t.hooks[e].unqueued = Cardinality(Beside(t.stack, t.anims, e))
        /\ \A k \in DOMAIN s.stack : StopsOf(s.stack[k], e) /\ turn /\ Follows(s.stack[k], s.queue[e]) => ~empty
        /\ \A k \in DOMAIN s.stack : StopsOf(s.stack[k], e) /\ s.stack[k].todo # <<>> => empty
        /\ empty /\ turn => \E k \in DOMAIN s.stack : StopsOf(s.stack[k], e) /\ (s.stack[k].todo # <<>> \/ t.hooks[e].waiting = 0)
        /\ ~empty => Head(t.queue[e]) = InProgress

LEMMA TurnsAtOne ==
    ASSUME NEW s, NEW t, NEW e \in Elem, NEW W \in SUBSET {e}, NEW V \in SUBSET {e}, Base(s), Turns(s, W, {}),
           t.anims = s.anims, t.timers = s.timers, t.finish = s.finish,
           OnlyAt(s, e, t), RolesKept(s.stack, t.stack),
           \A d \in Elem : d # e => Beside(t.stack, s.anims, d) = Beside(s.stack, s.anims, d),
           AtOne(s, e, t, V)
    PROVE  Turns(t, V, {})
<1> DEFINE stk == s.stack st == t.stack an == s.anims qu == s.queue qn == t.queue tm == s.timers
           hk == s.hooks hn == t.hooks fin == s.finish turn == HasTurn(stk, an, e)
<1>1. /\ Unique(stk, an, W) /\ Served(stk, an, qu, W) /\ Watched(stk, an, hk, W) /\ Exact(stk, an, hk)
      /\ DueOk(stk, an, tm, qu, {}) /\ Within(stk, an) /\ Finishing(stk, an, qu, fin) /\ AttachOk(stk, an)
      /\ EmptiedOk(stk, an, qu, hk) /\ EndsOk(stk, an) /\ HeadOk(qu)
  BY DEF Turns
<1>2. /\ t.anims = an /\ t.timers = tm /\ t.finish = fin
      /\ \A d \in Elem : d # e => qn[d] = qu[d] /\ hn[d] = hk[d] /\ Beside(st, an, d) = Beside(stk, an, d)
      /\ W \subseteq {e} /\ V \subseteq {e}
  BY DEF OnlyAt
<1>3. /\ e \in V => ~turn
      /\ qn[e] # <<>> => e \in V \/ turn \/ \E k \in DOMAIN stk : Will(stk[k], e)
      /\ hn[e].present \/ hn[e].waiting > 0 =>
           e \in V \/ turn \/ (\E k \in DOMAIN stk : May(stk[k], e)) \/ Beside(st, an, e) # {}
      /\ hn[e].unqueued = Cardinality(Beside(st, an, e))
      /\ \A k \in DOMAIN stk : StopsOf(stk[k], e) /\ turn /\ Follows(stk[k], qu[e]) => qn[e] # <<>>
      /\ \A k \in DOMAIN stk : StopsOf(stk[k], e) /\ stk[k].todo # <<>> => qn[e] = <<>>
      /\ qn[e] = <<>> /\ turn => \E k \in DOMAIN stk : StopsOf(stk[k], e) /\ (stk[k].todo # <<>> \/ hn[e].waiting = 0)
      /\ qn[e] # <<>> => Head(qn[e]) = InProgress
  BY DEF AtOne
<1>4. /\ \A k \in DOMAIN stk : stk[k].at \in TurnFrames \ {"unqueue"} => k \in DOMAIN st /\ SameRole(stk[k], st[k])
      /\ \A k \in DOMAIN st : st[k].at \in TurnFrames => k \in DOMAIN stk /\ SameRole(stk[k], st[k])
  BY DEF RolesKept
<1>5. \A k \in DOMAIN stk : stk[k].at \in ElemFrames => stk[k].a \in Elem
  BY DEF Base, FramesOk
<1> HIDE DEF stk, st, an, qu, qn, tm, hk, hn, fin, turn
<1>6. /\ \A k \in DOMAIN stk, d \in Elem : Hands(an, stk[k], d) => k \in DOMAIN st /\ Hands(an, st[k], d)
      /\ \A k \in DOMAIN st, d \in Elem : Hands(an, st[k], d) => k \in DOMAIN stk /\ Hands(an, stk[k], d)
  BY <1>4 DEF Hands, SameRole, TurnFrames
<1>7. \A d \in Elem : HasTurn(st, an, d) <=> HasTurn(stk, an, d)
  BY <1>6 DEF HasTurn
<1>8. /\ \A k \in DOMAIN stk : stk[k].at \in ElemFrames => k \in DOMAIN st /\ st[k] = stk[k]
      /\ \A k \in DOMAIN st : st[k].at \in ElemFrames => k \in DOMAIN stk /\ st[k] = stk[k]
  BY <1>4 DEF SameRole, TurnFrames, ElemFrames
<1>9. \A k \in DOMAIN st : st[k].at \in {"end", "complete", "unqueue", "timer", "made"} =>
        k \in DOMAIN stk /\ stk[k].at = st[k].at /\ stk[k].a = st[k].a
  BY <1>4 DEF SameRole, TurnFrames
<1>10. \A k \in DOMAIN stk : stk[k].at \in {"end", "complete", "timer", "made"} =>
        k \in DOMAIN st /\ stk[k].at = st[k].at /\ stk[k].a = st[k].a
  BY <1>4 DEF SameRole, TurnFrames
<1>11. Unique(st, an, V)
  <2>1. \A d \in V : ~HasTurn(st, an, d)
    BY <1>2, <1>3, <1>7 DEF turn
  <2> QED BY <1>1, <1>6, <2>1 DEF Unique
<1>12. Served(st, an, qn, V)
  <2> SUFFICES ASSUME NEW d \in Elem, qn[d] # <<>>
               PROVE  d \in V \/ HasTurn(st, an, d) \/ \E k \in DOMAIN st : Will(st[k], d)
    BY DEF Served
  <2>1. (\E k \in DOMAIN stk : Will(stk[k], d)) => \E k \in DOMAIN st : Will(st[k], d)
    BY <1>8 DEF Will, StopsOf
  <2>2. CASE d = e
    BY <1>3, <1>7, <2>1, <2>2 DEF turn
  <2>3. CASE d # e
    BY <1>1, <1>2, <1>7, <2>1, <2>3 DEF Served
  <2> QED BY <2>2, <2>3
<1>13. Watched(st, an, hn, V)
  <2> SUFFICES ASSUME NEW d \in Elem, hn[d].present \/ hn[d].waiting > 0
               PROVE  \/ d \in V \/ HasTurn(st, an, d)
                      \/ \E k \in DOMAIN st : May(st[k], d)
                      \/ Beside(st, an, d) # {}
    BY DEF Watched
  <2>1. (\E k \in DOMAIN stk : May(stk[k], d)) => \E k \in DOMAIN st : May(st[k], d)
    BY <1>8 DEF May, StopsOf
  <2>2. CASE d = e
    BY <1>3, <1>7, <2>1, <2>2 DEF turn
  <2>3. CASE d # e
    BY <1>1, <1>2, <1>7, <2>1, <2>3 DEF Watched
  <2> QED BY <2>2, <2>3
<1>14. Exact(st, an, hn)
  BY <1>1, <1>2, <1>3 DEF Exact
<1>15. DueOk(st, an, tm, qn, {})
  <2> SUFFICES ASSUME NEW k \in DOMAIN st, st[k].at \in ElemFrames, NEW a \in Anim, Serves(an, a, st[k].a)
               PROVE  \/ Reaches(st, k, tm, a)
                      \/ Above(st, k, {"end"}, a)
                      \/ st[k].todo # <<>> /\ Above(st, k, {"timer", "made"}, a)
                      \/ Follows(st[k], qn[st[k].a])
    BY DEF DueOk
  <2>1. k \in DOMAIN stk /\ st[k] = stk[k] /\ Serves(an, a, stk[k].a)
    BY <1>8
  <2>2. \/ Reaches(stk, k, tm, a)
        \/ Above(stk, k, {"end"}, a)
        \/ stk[k].todo # <<>> /\ Above(stk, k, {"timer", "made"}, a)
        \/ Follows(stk[k], qu[stk[k].a])
    BY <1>1, <2>1 DEF DueOk
  <2>3. Reaches(stk, k, tm, a) => Reaches(st, k, tm, a)
    BY <2>1 DEF Reaches
  <2>4. Above(stk, k, {"end"}, a) => Above(st, k, {"end"}, a)
    BY <1>10 DEF Above
  <2>5. Above(stk, k, {"timer", "made"}, a) => Above(st, k, {"timer", "made"}, a)
    BY <1>10 DEF Above
  <2>6. Follows(stk[k], qu[stk[k].a]) => Follows(st[k], qn[st[k].a])
    <3>1. stk[k].a \in Elem /\ HasTurn(stk, an, stk[k].a)
      BY <1>5, <2>1 DEF HasTurn
    <3>2. StopsOf(stk[k], stk[k].a)
      BY <2>1 DEF StopsOf
    <3>3. Follows(stk[k], qu[stk[k].a]) => qn[stk[k].a] # <<>>
      <4>1. CASE stk[k].a = e
        BY <1>3, <2>1, <3>1, <3>2, <4>1 DEF turn
      <4>2. CASE stk[k].a # e
        BY <1>2, <3>1, <4>2 DEF Follows
      <4> QED BY <4>1, <4>2
    <3> QED BY <2>1, <3>3 DEF Follows
  <2> QED BY <2>1, <2>2, <2>3, <2>4, <2>5, <2>6
<1>16. Within(st, an)
  BY <1>1, <1>8, <1>9 DEF Within, StopsOf
<1>17. Finishing(st, an, qn, fin)
  <2>1. \A d \in Elem : fin[d] <=> \E k \in DOMAIN st : StopsOf(st[k], d) /\ st[k].todo # <<>>
    BY <1>1, <1>8 DEF Finishing, StopsOf
  <2>2. ASSUME NEW k \in DOMAIN st, st[k].at \in ElemFrames, st[k].todo # <<>>
        PROVE  /\ st[k].end /\ qn[st[k].a] = <<>>
               /\ \A l \in DOMAIN st :
                    l > k /\ st[l].at \in {"end", "complete", "unqueue", "timer", "made"} /\ an[st[l].a].of = st[k].a
                      => an[st[l].a].queued
    <3>1. k \in DOMAIN stk /\ st[k] = stk[k] /\ stk[k].a \in Elem
      BY <1>5, <1>8, <2>2
    <3>2. /\ stk[k].end /\ qu[stk[k].a] = <<>>
          /\ \A l \in DOMAIN stk :
               l > k /\ stk[l].at \in {"end", "complete", "unqueue", "timer", "made"} /\ an[stk[l].a].of = stk[k].a
                 => an[stk[l].a].queued
      BY <1>1, <2>2, <3>1 DEF Finishing
    <3>3. qn[st[k].a] = <<>>
      BY <1>2, <1>3, <2>2, <3>1, <3>2 DEF StopsOf
    <3> QED BY <1>9, <3>1, <3>2, <3>3
  <2> QED BY <2>1, <2>2 DEF Finishing
<1>18. AttachOk(st, an)
  BY <1>1, <1>9, <1>10 DEF AttachOk
<1>19. EmptiedOk(st, an, qn, hn)
  <2> SUFFICES ASSUME NEW d \in Elem, qn[d] = <<>>, HasTurn(st, an, d)
               PROVE  \E k \in DOMAIN st : StopsOf(st[k], d) /\ (st[k].todo # <<>> \/ hn[d].waiting = 0)
    BY DEF EmptiedOk
  <2>1. \E k \in DOMAIN stk : StopsOf(stk[k], d) /\ (stk[k].todo # <<>> \/ hn[d].waiting = 0)
    <3>1. CASE d = e
      BY <1>3, <1>7, <3>1 DEF turn
    <3>2. CASE d # e
      BY <1>1, <1>2, <1>7, <3>2 DEF EmptiedOk
    <3> QED BY <3>1, <3>2
  <2> QED BY <1>8, <2>1 DEF StopsOf
<1>20. EndsOk(st, an)
  BY <1>1, <1>8, <1>9 DEF EndsOk, StopsOf
<1>21. HeadOk(qn)
  BY <1>1, <1>2, <1>3 DEF HeadOk
<1> QED BY <1>2, <1>11, <1>12, <1>13, <1>14, <1>15, <1>16, <1>17, <1>18, <1>19, <1>20, <1>21 DEF Turns, st, qn, hn

\* hooks.empty.fire, or nothing as long as there are animations beside the queue.
LEMMA FireKeeps ==
    ASSUME NEW u \in FxVars, NEW e \in Elem, u.queue[e] = <<>>, NEW t, t = EmptyFire(u, e)
    PROVE  /\ t.anims = u.anims /\ t.timers = u.timers /\ t.finish = u.finish
           /\ OnlyAt(u, e, t) /\ t.queue[e] = <<>> /\ Neutral(u.stack, t.stack)
           /\ \/ t.hooks = u.hooks /\ u.hooks[e].unqueued > 0
              \/ /\ t.hooks[e].unqueued = 0 /\ t.hooks[e].waiting = 0 /\ ~t.hooks[e].present
                 /\ u.hooks[e].unqueued <= 0
<1>1. CASE t = u /\ u.hooks[e].unqueued > 0
  BY <1>1 DEF OnlyAt, Neutral, SameRole
<1>2. CASE Fires(u, e, t)
  <2>1. Neutral(u.stack, t.stack)
    BY <1>2, FxIs, TellsNeutral DEF Fires
  <2> QED BY <1>2, <2>1 DEF Fires, OnlyAt
<1> QED BY <1>1, <1>2, EmptyFireIs

LEMMA TurnsFires ==
    ASSUME NEW s, NEW u, NEW e \in Elem, NEW W \in SUBSET {e}, Base(s), Turns(s, W, {}),
           u \in FxVars, u.anims = s.anims, u.timers = s.timers, u.finish = s.finish,
           OnlyAt(s, e, u), RolesKept(s.stack, u.stack),
           \A d \in Elem : d # e => Beside(u.stack, s.anims, d) = Beside(s.stack, s.anims, d),
           u.hooks[e].unqueued = Cardinality(Beside(u.stack, s.anims, e)), u.queue[e] = <<>>,
           HasTurn(s.stack, s.anims, e) =>
             /\ \A k \in DOMAIN s.stack : StopsOf(s.stack[k], e) => ~Follows(s.stack[k], s.queue[e])
             /\ \E k \in DOMAIN u.stack : StopsOf(u.stack[k], e) /\ (u.stack[k].todo # <<>> \/ u.hooks[e].waiting = 0)
    PROVE  Turns(EmptyFire(u, e), {}, {})
<1> DEFINE t == EmptyFire(u, e)
<1>1. /\ t.anims = u.anims /\ t.timers = u.timers /\ t.finish = u.finish
      /\ OnlyAt(u, e, t) /\ t.queue[e] = <<>> /\ Neutral(u.stack, t.stack)
      /\ \/ t.hooks = u.hooks /\ u.hooks[e].unqueued > 0
         \/ /\ t.hooks[e].unqueued = 0 /\ t.hooks[e].waiting = 0 /\ ~t.hooks[e].present
            /\ u.hooks[e].unqueued <= 0
  BY FireKeeps
<1> HIDE DEF t
<1>2. \A d \in Elem : Beside(t.stack, s.anims, d) = Beside(u.stack, s.anims, d)
  <2>1. Alike(u.stack, s.anims, t.stack, s.anims)
    BY <1>1, NeutralAlike
  <2> QED BY <2>1, AlikeBeside
<1>3. RolesKept(s.stack, t.stack)
  <2>1. \A f, g, h : SameRole(f, g) /\ SameRole(g, h) => SameRole(f, h)
    BY DEF SameRole
  <2>2. \A f, g : SameRole(f, g) => g.at = f.at
    BY DEF SameRole
  <2> QED BY <1>1, <2>1, <2>2 DEF RolesKept, Neutral
<1>4. OnlyAt(s, e, t)
  BY <1>1 DEF OnlyAt
<1>5. IsFiniteSet(Beside(u.stack, s.anims, e)) /\ Cardinality(Beside(u.stack, s.anims, e)) \in Nat
  BY BesideFinite, FS_CardinalityType
<1>6. HasTurn(s.stack, s.anims, e) =>
        \E k \in DOMAIN s.stack : StopsOf(s.stack[k], e) /\ (s.stack[k].todo # <<>> \/ t.hooks[e].waiting = 0)
  <2> HAVE HasTurn(s.stack, s.anims, e)
  <2>1. PICK k \in DOMAIN u.stack : StopsOf(u.stack[k], e) /\ (u.stack[k].todo # <<>> \/ u.hooks[e].waiting = 0)
    OBVIOUS
  <2>2. k \in DOMAIN s.stack /\ s.stack[k] = u.stack[k]
    BY <2>1 DEF RolesKept, SameRole, StopsOf, TurnFrames, ElemFrames
  <2> QED BY <1>1, <2>1, <2>2
<1>7. AtOne(s, e, t, {})
  <2>1. t.hooks[e].unqueued = Cardinality(Beside(t.stack, t.anims, e))
    BY <1>1, <1>2, <1>5
  <2>2. t.hooks[e].present \/ t.hooks[e].waiting > 0 => Beside(t.stack, t.anims, e) # {}
    BY <1>1, <1>2, <1>5, FS_EmptySet
  <2> QED BY <1>1, <1>6, <2>1, <2>2 DEF AtOne
<1>8. Turns(t, {}, {})
  BY <1>1, <1>2, <1>3, <1>4, <1>7, TurnsAtOne
<1> QED BY <1>8 DEF t

\* A new animation of a queue takes the turn, one beside the queue is counted.
MayStart(s, a, W) ==
    LET e == s.anims[a].of
        InStop(k) == StopsOf(s.stack[k], e)
    IN  /\ s.anims[a].queued =>
             /\ e \in W
             /\ \A k \in DOMAIN s.stack : InStop(k) => Ends(s.stack[k]) /\ (s.stack[k].todo = <<>> => s.queue[e] # <<>>)
             /\ s.queue[e] = <<>> => \E k \in DOMAIN s.stack : InStop(k) /\ s.stack[k].todo # <<>>
        /\ ~s.anims[a].queued => W = {} /\ \A k \in DOMAIN s.stack : ~InStop(k)

LEMMA TurnsBegins ==
    ASSUME NEW s, NEW u, NEW t, NEW a \in Anim, NEW e, e = s.anims[a].of, NEW W \in SUBSET {e}, NEW f, NEW g,
           Base(s), Turns(s, W, {}), s.anims[a].state = "queued", MayStart(s, a, W), Begins(s, a, u),
           NEW v, f.at = "timer", f.a = a, g.at = "step", Stacked(u, v), Adds(u.stack, f, v.stack),
           Stacked(v, t), Adds(v.stack, g, t.stack)
    PROVE  Turns(t, {}, {})
<1> DEFINE stk == s.stack st == t.stack an == s.anims am == t.anims qu == s.queue tm == s.timers tn == t.timers
           hk == s.hooks hn == t.hooks fin == s.finish n == Len(stk)
<1>1. /\ Unique(stk, an, W) /\ Served(stk, an, qu, W) /\ Watched(stk, an, hk, W) /\ Exact(stk, an, hk)
      /\ DueOk(stk, an, tm, qu, {}) /\ Within(stk, an) /\ Finishing(stk, an, qu, fin) /\ AttachOk(stk, an)
      /\ EmptiedOk(stk, an, qu, hk) /\ EndsOk(stk, an) /\ HeadOk(qu)
  BY DEF Turns
<1>2. /\ an[a].state = "queued" /\ an[a].of = e /\ e \in Elem /\ an[a].queued \in BOOLEAN /\ ~an[a].attached
      /\ \A k \in DOMAIN stk : /\ stk[k].at \in AnimFrames => stk[k].a \in Anim /\ stk[k].a # a
                               /\ stk[k].at \in ElemFrames => stk[k].a \in Elem
  <2>1. FramesOk(stk, an) /\ AnimsOk(an) /\ an[a] \in AnimVars
    BY FxIs DEF Base
  <2>2. an[a].of \in Elem /\ an[a].queued \in BOOLEAN /\ ~an[a].attached
    BY <2>1, AnimIs DEF AnimsOk
  <2> QED BY <2>1, <2>2 DEF FramesOk, Started
<1>3. /\ tn = Append(tm, a) /\ t.queue = qu /\ t.finish = fin
      /\ am[a].state = "pending" /\ am[a].elem
      /\ \A b \in Anim : b # a => am[b] = an[b]
      /\ am[a].of = an[a].of /\ am[a].queued = an[a].queued /\ am[a].attached = an[a].attached
      /\ \A d \in Elem :
           /\ an[a].queued \/ d # e => hn[d] = hk[d]
           /\ hn[d].waiting = hk[d].waiting
           /\ hn[d].unqueued = hk[d].unqueued + (IF ~an[a].queued /\ d = e THEN 1 ELSE 0)
  BY DEF Begins, Stacked
<1>4. /\ n \in Nat /\ DOMAIN stk = 1 .. n /\ DOMAIN st = 1 .. n + 2
      /\ \A k \in DOMAIN stk : st[k] = stk[k]
      /\ st[n + 1] = f /\ st[n + 2] = g
  <2>1. stk \in Seq(FrameVars) /\ u.stack = stk
    BY FxIs DEF Base, Begins
  <2>2. /\ v.stack \in Seq(FrameVars) /\ Len(v.stack) = n + 1 /\ v.stack[n + 1] = f
        /\ \A k \in 1 .. n : v.stack[k] = stk[k]
    BY <2>1 DEF Adds
  <2>3. /\ st \in Seq(FrameVars) /\ Len(st) = Len(v.stack) + 1 /\ st[Len(v.stack) + 1] = g
        /\ \A k \in 1 .. Len(v.stack) : st[k] = v.stack[k]
    BY DEF Adds
  <2> HIDE DEF st, stk, n
  <2>4. n \in Nat /\ DOMAIN stk = 1 .. n
    BY <2>1 DEF n
  <2>5. DOMAIN st = 1 .. n + 2
    BY <2>2, <2>3, <2>4
  <2>6. st[n + 2] = g
    BY <2>2, <2>3, <2>4
  <2>7. st[n + 1] = f
    BY <2>2, <2>3, <2>4
  <2>8. \A k \in DOMAIN stk : st[k] = stk[k]
    BY <2>2, <2>3, <2>4
  <2> QED BY <2>4, <2>5, <2>6, <2>7, <2>8
<1>5. /\ an[a].queued =>
             /\ e \in W
             /\ \A k \in DOMAIN stk : StopsOf(stk[k], e) => Ends(stk[k]) /\ (stk[k].todo = <<>> => qu[e] # <<>>)
             /\ qu[e] = <<>> => \E k \in DOMAIN stk : StopsOf(stk[k], e) /\ stk[k].todo # <<>>
      /\ ~an[a].queued => W = {} /\ \A k \in DOMAIN stk : ~StopsOf(stk[k], e)
  BY DEF MayStart
<1>6. tm \in Seq(Anim)
  BY FxIs DEF Base
<1>7. f.at = "timer" /\ f.a = a /\ g.at = "step" /\ W \subseteq {e}
  OBVIOUS
<1> HIDE DEF stk, st, an, am, qu, tm, tn, hk, hn, fin, n
<1>8. /\ \A k \in DOMAIN stk : k \in DOMAIN st /\ st[k] = stk[k] /\ n + 1 > k
      /\ \A k \in DOMAIN st : k \in DOMAIN stk \/ k = n + 1 \/ k = n + 2
      /\ n + 1 \in DOMAIN st /\ n + 1 \notin DOMAIN stk
      /\ \A k \in DOMAIN st : st[k].at \in TurnFrames => k \in DOMAIN stk \/ k = n + 1
      /\ \A k \in DOMAIN st : st[k].at \in TurnFrames \ {"timer"} => k \in DOMAIN stk
  BY <1>4, <1>7 DEF TurnFrames
<1>9. \A b \in Anim, d \in Elem : Serves(am, b, d) <=> Serves(an, b, d) \/ (b = a /\ d = e /\ an[a].queued)
  BY <1>2, <1>3 DEF Serves
<1>10. \A k \in DOMAIN stk, d \in Elem : Hands(am, stk[k], d) <=> Hands(an, stk[k], d)
  BY <1>2, <1>3 DEF Hands, AnimFrames
<1>11. \A k \in DOMAIN st, d \in Elem : Hands(am, st[k], d) => k \in DOMAIN stk /\ Hands(an, stk[k], d)
  <2>1. \A k \in DOMAIN st, d \in Elem : Hands(am, st[k], d) => k \in DOMAIN stk
    <3>1. \A d \in Elem : ~Hands(am, st[n + 1], d)
      BY <1>3, <1>4, <1>7 DEF Hands
    <3> QED BY <1>8, <3>1 DEF Hands, TurnFrames
  <2> QED BY <1>8, <1>10, <2>1
<1>12. \A d \in Elem : HasTurn(st, am, d) <=> HasTurn(stk, an, d) \/ (d = e /\ an[a].queued)
  <2>1. \A d \in Elem : (\E k \in DOMAIN st : Hands(am, st[k], d)) <=> (\E k \in DOMAIN stk : Hands(an, stk[k], d))
    BY <1>8, <1>10, <1>11
  <2> QED BY <1>9, <2>1 DEF HasTurn
<1>13. \A d \in Elem : d # e \/ an[a].queued => Beside(st, am, d) = Beside(stk, an, d)
  <2> SUFFICES ASSUME NEW d \in Elem, d # e \/ an[a].queued, NEW b \in Anim
               PROVE  b \in Beside(st, am, d) <=> b \in Beside(stk, an, d)
    BY DEF Beside
  <2>1. Leaving(st, b) <=> Leaving(stk, b)
    BY <1>8 DEF Leaving, TurnFrames
  <2> QED BY <1>2, <1>3, <2>1 DEF Beside
<1>14. ~an[a].queued => Beside(st, am, e) = Beside(stk, an, e) \cup {a} /\ a \notin Beside(stk, an, e)
  <2> HAVE ~an[a].queued
  <2>1. \A b \in Anim : Leaving(st, b) <=> Leaving(stk, b)
    BY <1>8 DEF Leaving, TurnFrames
  <2>2. ~Leaving(stk, a)
    BY <1>2 DEF Leaving, AnimFrames
  <2>3. \A b \in Anim : b # a => (b \in Beside(st, am, e) <=> b \in Beside(stk, an, e))
    BY <1>3, <2>1 DEF Beside
  <2>4. a \in Beside(st, am, e) /\ a \notin Beside(stk, an, e)
    BY <1>2, <1>3, <2>2 DEF Beside
  <2> QED BY <2>3, <2>4 DEF Beside
<1>15. Unique(st, am, {})
  BY <1>1, <1>5, <1>7, <1>8, <1>9, <1>10, <1>11 DEF Unique, HasTurn
<1>16. Served(st, am, qu, {})
  <2>1. \A d \in Elem : (\E k \in DOMAIN stk : Will(stk[k], d)) => \E k \in DOMAIN st : Will(st[k], d)
    BY <1>8
  <2> QED BY <1>1, <1>5, <1>7, <1>12, <2>1 DEF Served
<1>17. Watched(st, am, hn, {})
  <2>1. \A d \in Elem : (\E k \in DOMAIN stk : May(stk[k], d)) => \E k \in DOMAIN st : May(st[k], d)
    BY <1>8
  <2> SUFFICES ASSUME NEW d \in Elem, hn[d].present \/ hn[d].waiting > 0
               PROVE  \/ HasTurn(st, am, d)
                      \/ \E k \in DOMAIN st : May(st[k], d)
                      \/ Beside(st, am, d) # {}
    BY DEF Watched
  <2>2. CASE d = e /\ an[a].queued
    BY <1>12, <2>2
  <2>3. CASE d = e /\ ~an[a].queued
    BY <1>14, <2>3
  <2>4. CASE d # e
    BY <1>1, <1>3, <1>7, <1>12, <1>13, <2>1, <2>4 DEF Watched
  <2> QED BY <1>2, <2>2, <2>3, <2>4
<1>18. Exact(st, am, hn)
  <2> SUFFICES ASSUME NEW d \in Elem PROVE hn[d].unqueued = Cardinality(Beside(st, am, d))
    BY DEF Exact
  <2>1. hk[d].unqueued = Cardinality(Beside(stk, an, d)) /\ IsFiniteSet(Beside(stk, an, d))
        /\ Cardinality(Beside(stk, an, d)) \in Nat
    BY <1>1, BesideFinite, FS_CardinalityType DEF Exact
  <2>2. CASE d = e /\ ~an[a].queued
    <3>1. Cardinality(Beside(stk, an, e) \cup {a}) = Cardinality(Beside(stk, an, e)) + 1
      BY ZenonT(30), <1>14, <2>1, <2>2, FS_AddElement
    <3> QED BY ZenonT(30), <1>3, <1>14, <2>1, <2>2, <3>1
  <2>3. CASE d # e \/ an[a].queued
    BY <1>3, <1>13, <2>1, <2>3
  <2> QED BY <1>2, <2>2, <2>3
<1>19. DueOk(st, am, tn, qu, {})
  <2> SUFFICES ASSUME NEW k \in DOMAIN st, st[k].at \in ElemFrames, NEW b \in Anim, Serves(am, b, st[k].a)
               PROVE  \/ Reaches(st, k, tn, b)
                      \/ Above(st, k, {"end"}, b)
                      \/ st[k].todo # <<>> /\ Above(st, k, {"timer", "made"}, b)
                      \/ Follows(st[k], qu[st[k].a])
    BY DEF DueOk
  <2>1. k \in DOMAIN stk /\ st[k] = stk[k] /\ stk[k].a \in Elem
    BY <1>2, <1>8 DEF ElemFrames, TurnFrames
  <2>2. CASE Serves(an, b, stk[k].a)
    <3>1. \/ Reaches(stk, k, tm, b)
          \/ Above(stk, k, {"end"}, b)
          \/ stk[k].todo # <<>> /\ Above(stk, k, {"timer", "made"}, b)
          \/ Follows(stk[k], qu[stk[k].a])
      BY <1>1, <2>1, <2>2 DEF DueOk
    <3>2. Reaches(stk, k, tm, b) => Reaches(st, k, tn, b)
      <4>1. \A j \in DOMAIN tm : j \in DOMAIN tn /\ tn[j] = tm[j]
        BY <1>3, <1>6
      <4> QED BY <2>1, <4>1 DEF Reaches
    <3>3. \A ats : Above(stk, k, ats, b) => Above(st, k, ats, b)
      BY <1>8 DEF Above
    <3> QED BY <2>1, <3>1, <3>2, <3>3
  <2>3. CASE b = a /\ stk[k].a = e /\ an[a].queued
    <3>1. StopsOf(stk[k], e)
      BY <2>1, <2>3 DEF StopsOf
    <3>2. Ends(stk[k]) /\ (stk[k].todo = <<>> => qu[e] # <<>>)
      BY <1>5, <2>1, <2>3, <3>1
    <3>3. Above(st, k, {"timer", "made"}, a)
      BY <1>4, <1>7, <1>8, <2>1 DEF Above
    <3> QED BY <2>1, <2>3, <3>2, <3>3 DEF Ends, Follows
  <2> QED BY <1>9, <2>1, <2>2, <2>3
<1>20. Within(st, am)
  <2> SUFFICES ASSUME NEW k \in DOMAIN st, NEW l \in DOMAIN st, st[l].at \in {"end", "complete", "timer"},
                      StopsOf(st[k], am[st[l].a].of)
               PROVE  l > k /\ Ends(st[k])
    BY DEF Within
  <2>1. k \in DOMAIN stk /\ st[k] = stk[k]
    BY <1>8 DEF StopsOf, ElemFrames, TurnFrames
  <2>2. CASE l \in DOMAIN stk
    <3>1. st[l] = stk[l] /\ am[stk[l].a].of = an[stk[l].a].of
      BY <1>2, <1>3, <1>8, <2>2 DEF AnimFrames
    <3> QED BY <1>1, <2>1, <2>2, <3>1 DEF Within
  <2>3. CASE l = n + 1
    <3>1. StopsOf(stk[k], e)
      BY <1>2, <1>3, <1>4, <1>7, <2>1, <2>3
    <3> QED BY <1>2, <1>5, <1>8, <2>1, <2>3, <3>1
  <2> QED BY <1>8, <2>2, <2>3 DEF TurnFrames
<1>21. Finishing(st, am, qu, fin)
  <2>1. \A d \in Elem : (\E k \in DOMAIN st : StopsOf(st[k], d) /\ st[k].todo # <<>>)
                          <=> (\E k \in DOMAIN stk : StopsOf(stk[k], d) /\ stk[k].todo # <<>>)
    BY <1>8 DEF StopsOf, ElemFrames, TurnFrames
  <2>2. ASSUME NEW k \in DOMAIN st, st[k].at \in ElemFrames, st[k].todo # <<>>
        PROVE  /\ st[k].end /\ qu[st[k].a] = <<>>
               /\ \A l \in DOMAIN st :
                    l > k /\ st[l].at \in {"end", "complete", "unqueue", "timer", "made"} /\ am[st[l].a].of = st[k].a
                      => am[st[l].a].queued
    <3>1. k \in DOMAIN stk /\ st[k] = stk[k]
      BY <1>8, <2>2 DEF ElemFrames, TurnFrames
    <3>2. /\ stk[k].end /\ qu[stk[k].a] = <<>>
          /\ \A l \in DOMAIN stk :
               l > k /\ stk[l].at \in {"end", "complete", "unqueue", "timer", "made"} /\ an[stk[l].a].of = stk[k].a
                 => an[stk[l].a].queued
      BY <1>1, <2>2, <3>1 DEF Finishing
    <3>3. ASSUME NEW l \in DOMAIN st, l > k, st[l].at \in {"end", "complete", "unqueue", "timer", "made"},
                 am[st[l].a].of = st[k].a
          PROVE  am[st[l].a].queued
      <4>1. CASE l \in DOMAIN stk
        <5>1. st[l] = stk[l] /\ am[stk[l].a] = an[stk[l].a]
          BY <1>2, <1>3, <1>8, <3>3, <4>1 DEF AnimFrames
        <5> QED BY <3>1, <3>2, <3>3, <4>1, <5>1
      <4>2. CASE l = n + 1
        <5>1. StopsOf(stk[k], e)
          BY <1>2, <1>3, <1>4, <1>7, <2>2, <3>1, <3>3, <4>2 DEF StopsOf
        <5>2. am[a].queued
          BY <1>3, <1>5, <3>1, <5>1
        <5> QED BY <1>4, <1>7, <4>2, <5>2
      <4> QED BY <1>8, <3>3, <4>1, <4>2 DEF TurnFrames
    <3> QED BY <3>1, <3>2, <3>3
  <2>3. \A d \in Elem : fin[d] <=> \E k \in DOMAIN st : StopsOf(st[k], d) /\ st[k].todo # <<>>
    BY <1>1, <2>1 DEF Finishing
  <2> QED BY <2>2, <2>3 DEF Finishing
<1>22. AttachOk(st, am)
  <2>1. \A b \in Anim : am[b].state = "pending" <=> am[b].elem
    BY <1>1, <1>3 DEF AttachOk
  <2>2. \A b \in Anim : am[b].state = "pending" /\ ~am[b].attached
                          => \E k \in DOMAIN st : st[k].at = "timer" /\ st[k].a = b
    <3> SUFFICES ASSUME NEW b \in Anim, am[b].state = "pending", ~am[b].attached
                 PROVE  \E k \in DOMAIN st : st[k].at = "timer" /\ st[k].a = b
      OBVIOUS
    <3>1. CASE b = a
      BY <1>4, <1>7, <1>8, <3>1
    <3>2. CASE b # a
      BY <1>1, <1>3, <1>8, <3>2 DEF AttachOk
    <3> QED BY <3>1, <3>2
  <2>3. \A k \in DOMAIN stk : stk[k].at \in {"end", "made", "timer"} => am[stk[k].a] = an[stk[k].a] /\ stk[k].a # a
    BY <1>2, <1>3 DEF AnimFrames
  <2>4. \A k \in DOMAIN st : /\ st[k].at \in {"end", "made"} => am[st[k].a].attached
                             /\ st[k].at = "timer" => ~am[st[k].a].attached
    <3> TAKE k \in DOMAIN st
    <3>1. CASE k \in DOMAIN stk
      BY <1>1, <1>8, <2>3, <3>1 DEF AttachOk
    <3>2. CASE k = n + 1
      BY <1>2, <1>3, <1>4, <1>7, <3>2
    <3>3. CASE k = n + 2
      BY <1>4, <1>7, <3>3
    <3> QED BY <1>8, <3>1, <3>2, <3>3
  <2>5. \A k, l \in DOMAIN st : st[k].at = "timer" /\ st[l].at = "timer" /\ st[k].a = st[l].a => k = l
    <3>1. \A k \in DOMAIN st : st[k].at = "timer" => (k \in DOMAIN stk /\ st[k] = stk[k] /\ stk[k].a # a)
                                                      \/ (k = n + 1 /\ st[k].a = a)
      BY <1>4, <1>7, <1>8, <2>3 DEF TurnFrames
    <3> QED BY <1>1, <3>1 DEF AttachOk
  <2> QED BY <2>1, <2>2, <2>4, <2>5 DEF AttachOk
<1>23. EmptiedOk(st, am, qu, hn)
  <2> SUFFICES ASSUME NEW d \in Elem, qu[d] = <<>>, HasTurn(st, am, d)
               PROVE  \E k \in DOMAIN st : StopsOf(st[k], d) /\ (st[k].todo # <<>> \/ hn[d].waiting = 0)
    BY DEF EmptiedOk
  <2>1. \E k \in DOMAIN stk : StopsOf(stk[k], d) /\ (stk[k].todo # <<>> \/ hn[d].waiting = 0)
    <3>1. CASE HasTurn(stk, an, d)
      BY <1>1, <1>3, <3>1 DEF EmptiedOk
    <3>2. CASE d = e /\ an[a].queued
      BY <1>5, <3>2
    <3> QED BY <1>12, <3>1, <3>2
  <2> QED BY <1>8, <2>1
<1>24. EndsOk(st, am)
  <2>1. \A l \in DOMAIN st : st[l].at = "end" => l \in DOMAIN stk /\ st[l] = stk[l] /\ am[st[l].a].of = an[st[l].a].of
    BY <1>2, <1>3, <1>8 DEF AnimFrames, TurnFrames
  <2> QED BY <1>1, <1>8, <2>1 DEF EndsOk
<1> QED BY <1>1, <1>3, <1>15, <1>16, <1>17, <1>18, <1>19, <1>20, <1>21, <1>22, <1>23, <1>24 DEF Turns, st, am, tn, hn

LEMMA TurnsDoAnimation ==
    ASSUME NEW s, NEW a \in Anim, NEW W \in SUBSET {s.anims[a].of}, Base(s), Turns(s, W, {}),
           s.anims[a].state = "queued", MayStart(s, a, W)
    PROVE  Turns(DoAnimation(s, a), {}, {})
<1> DEFINE u == BegunOne(s, a) f == Of("timer", a) g == Of("step", a) v == Push(u, f) t == Push(v, g)
<1>1. s \in FxVars /\ s.anims[a].of \in Elem
  BY DEF Base, AnimsOk
<1>2. Begins(s, a, u) /\ DoAnimation(s, a) = t
  BY <1>1, DoAnimationIs
<1>3. u \in FxVars
  BY <1>2 DEF Begins
<1> HIDE DEF u
<1>4. /\ f.at = "timer" /\ f.a = a /\ g.at = "step"
      /\ Stacked(u, v) /\ Adds(u.stack, f, v.stack) /\ Stacked(v, t) /\ Adds(v.stack, g, t.stack)
  BY <1>3, TwoPushes
<1> HIDE DEF f, g, v, t
<1>5. Turns(t, {}, {})
  BY <1>2, <1>4, TurnsBegins
<1> QED BY <1>2, <1>5

LEMMA SameRoles == ASSUME NEW stk PROVE RolesKept(stk, stk) /\ Neutral(stk, stk)
BY DEF RolesKept, Neutral, SameRole

\* Whoever has the turn takes the next of the queue, or tells that the queue is empty.
LEMMA TurnsTakes ==
    ASSUME NEW s, NEW h, NEW e \in Elem, NEW W \in SUBSET {e}, Base(s), Base(h), Turns(s, W, {}),
           h.anims = s.anims, h.timers = s.timers, h.finish = s.finish, h.stack = s.stack, OnlyAt(s, e, h),
           h.hooks[e].unqueued = s.hooks[e].unqueued,
           HasTurn(s.stack, s.anims, e) =>
             /\ h.queue[e] = <<>>
             /\ \A k \in DOMAIN s.stack : StopsOf(s.stack[k], e) => ~Follows(s.stack[k], s.queue[e])
             /\ \E k \in DOMAIN s.stack : StopsOf(s.stack[k], e) /\ (s.stack[k].todo # <<>> \/ h.hooks[e].waiting = 0),
           h.queue[e] # <<>> =>
             \A k \in DOMAIN s.stack : StopsOf(s.stack[k], e) => Ends(s.stack[k]) /\ s.stack[k].todo = <<>>
    PROVE  Turns(Dequeue(h, e), {}, {})
<1>1. PICK u : /\ Base(u) /\ Rearranged(h, u) /\ OnlyAt(h, e, u)
               /\ \A d \in Elem : /\ u.hooks[d].unqueued = h.hooks[d].unqueued
                                  /\ u.hooks[d].waiting = h.hooks[d].waiting
               /\ \/ u.queue[e] = <<>> /\ Dequeue(h, e) = EmptyFire(u, e)
                  \/ \E a : /\ Fresh(u, a) /\ Dequeue(h, e) = DoAnimation(u, a)
                            /\ h.anims[a].of = e /\ h.anims[a].queued /\ h.queue[e] # <<>>
                            /\ u.queue[e] # <<>> /\ Head(u.queue[e]) = InProgress
  BY DequeueIs
<1>2. /\ u \in FxVars /\ u.anims = s.anims /\ u.timers = s.timers /\ u.finish = s.finish /\ u.stack = s.stack
      /\ OnlyAt(s, e, u)
  BY <1>1 DEF Rearranged, OnlyAt
<1>3. /\ RolesKept(s.stack, u.stack)
      /\ \A d \in Elem : d # e => Beside(u.stack, s.anims, d) = Beside(s.stack, s.anims, d)
      /\ u.hooks[e].unqueued = Cardinality(Beside(u.stack, s.anims, e))
  BY <1>1, <1>2, SameRoles DEF Turns, Exact
<1>4. CASE u.queue[e] = <<>> /\ Dequeue(h, e) = EmptyFire(u, e)
  <2>1. HasTurn(s.stack, s.anims, e) =>
          /\ \A k \in DOMAIN s.stack : StopsOf(s.stack[k], e) => ~Follows(s.stack[k], s.queue[e])
          /\ \E k \in DOMAIN u.stack : StopsOf(u.stack[k], e) /\ (u.stack[k].todo # <<>> \/ u.hooks[e].waiting = 0)
    BY <1>1, <1>2
  <2>2. Turns(EmptyFire(u, e), {}, {})
    BY <1>1, <1>2, <1>3, <1>4, <2>1, TurnsFires
  <2> QED BY <1>4, <2>2
<1>5. ASSUME NEW a, Fresh(u, a), Dequeue(h, e) = DoAnimation(u, a),
             h.anims[a].of = e, h.anims[a].queued, h.queue[e] # <<>>,
             u.queue[e] # <<>>, Head(u.queue[e]) = InProgress
      PROVE  Turns(Dequeue(h, e), {}, {})
  <2> DEFINE V == {e}
  <2>1. V \in SUBSET {e} /\ e \in V
    OBVIOUS
  <2> HIDE DEF V
  <2>2. /\ \A k \in DOMAIN s.stack : StopsOf(s.stack[k], e) => s.stack[k].todo = <<>> /\ Ends(s.stack[k])
        /\ ~HasTurn(s.stack, s.anims, e)
    BY <1>5
  <2>3. AtOne(s, e, u, V)
    BY <1>2, <1>3, <1>5, <2>1, <2>2 DEF AtOne
  <2>4. Turns(u, V, {})
    BY <1>1, <1>2, <1>3, <2>1, <2>3, TurnsAtOne
  <2>5. a \in Anim /\ u.anims[a].state = "queued" /\ u.anims[a].of = e /\ u.anims[a].queued
    BY <1>2, <1>5 DEF Fresh
  <2>6. MayStart(u, a, V)
    BY <1>2, <1>5, <2>1, <2>2, <2>5 DEF MayStart
  <2>7. Turns(DoAnimation(u, a), {}, {})
    BY <1>1, <2>1, <2>4, <2>5, <2>6, TurnsDoAnimation
  <2> QED BY <1>5, <2>7
<1> QED BY <1>1, <1>4, <1>5

LEMMA TurnsDequeue ==
    ASSUME NEW s, NEW e \in Elem, Base(s), Turns(s, {e}, {}),
           \A k \in DOMAIN s.stack : StopsOf(s.stack[k], e) => Ends(s.stack[k])
    PROVE  Turns(Dequeue(s, e), {}, {})
<1> DEFINE W == {e}
<1>1. W \in SUBSET {e} /\ Turns(s, W, {}) /\ e \in W
  OBVIOUS
<1> HIDE DEF W
<1>2. ~HasTurn(s.stack, s.anims, e) /\ OnlyAt(s, e, s)
  BY <1>1 DEF Turns, Unique, OnlyAt
<1>3. s.queue[e] # <<>> =>
        \A k \in DOMAIN s.stack : StopsOf(s.stack[k], e) => Ends(s.stack[k]) /\ s.stack[k].todo = <<>>
  BY DEF Turns, Finishing, StopsOf
<1> QED BY <1>1, <1>2, <1>3, TurnsTakes

\* A call that ends an animation or a queue is made.
TurnFits(s, t, f, W, V, X, Y) ==
    LET stk == s.stack an == s.anims IN
    /\ f.at \in {"end", "complete", "stop"} /\ (f.at \in AnimFrames => f.a \in Anim) /\ (f.at = "stop" => f.a \in Elem)
    /\ \A e \in Elem : /\ Hands(an, f, e) => e \in W /\ e \notin V
                       /\ e \in W => e \in V \/ Hands(an, f, e)
                       /\ Hands(an, f, e) /\ s.queue[e] = <<>> =>
                            \E k \in DOMAIN stk : StopsOf(stk[k], e) /\ (stk[k].todo # <<>> \/ s.hooks[e].waiting = 0)
                       /\ t.finish[e] <=> s.finish[e] \/ (StopsOf(f, e) /\ f.todo # <<>>)
    /\ f.at = "stop" => \A a \in Anim : Serves(an, a, f.a) => \E j \in DOMAIN s.timers : s.timers[j] = a
    /\ f.at = "stop" => \A l \in DOMAIN stk : stk[l].at \in {"end", "complete", "timer"} => an[stk[l].a].of # f.a
    /\ f.at = "stop" /\ f.todo # <<>> => f.end /\ s.queue[f.a] = <<>>
    /\ \A a \in Anim : a \in X => a \in Y \/ (f.at = "end" /\ f.a = a)
    /\ f.at \in {"end", "complete"} =>
         \A k \in DOMAIN stk : StopsOf(stk[k], an[f.a].of) =>
           Ends(stk[k]) /\ (stk[k].todo # <<>> => an[f.a].queued)
    /\ f.at = "end" => an[f.a].attached /\ \E k \in DOMAIN stk : StopsOf(stk[k], an[f.a].of)

LEMMA TurnsAdds ==
    ASSUME NEW s, NEW t, NEW f, NEW W, NEW V \in SUBSET W, NEW X, NEW Y \in SUBSET X, Base(s), Turns(s, W, X),
           t.anims = s.anims, t.timers = s.timers, t.queue = s.queue, t.hooks = s.hooks,
           Adds(s.stack, f, t.stack), TurnFits(s, t, f, W, V, X, Y)
    PROVE  Turns(t, V, Y)
<1> DEFINE stk == s.stack st == t.stack an == s.anims qu == s.queue tm == s.timers
           hk == s.hooks fin == s.finish fn == t.finish n == Len(stk) + 1
<1>1. /\ Unique(stk, an, W) /\ Served(stk, an, qu, W) /\ Watched(stk, an, hk, W) /\ Exact(stk, an, hk)
      /\ DueOk(stk, an, tm, qu, X) /\ Within(stk, an) /\ Finishing(stk, an, qu, fin) /\ AttachOk(stk, an)
      /\ EmptiedOk(stk, an, qu, hk) /\ EndsOk(stk, an) /\ HeadOk(qu)
  BY DEF Turns
<1>2. /\ t.anims = an /\ t.timers = tm /\ t.queue = qu /\ t.hooks = hk /\ V \subseteq W /\ Y \subseteq X
  OBVIOUS
<1>3. /\ \A k \in DOMAIN stk : k \in DOMAIN st /\ st[k] = stk[k] /\ n > k
      /\ \A k \in DOMAIN st : k \in DOMAIN stk \/ k = n
      /\ n \in DOMAIN st /\ n \notin DOMAIN stk /\ st[n] = f
  <2>1. stk \in Seq(FrameVars)
    BY FxIs DEF Base
  <2> QED BY <2>1, AddedIs
<1>4. /\ f.at \in {"end", "complete", "stop"} /\ (f.at \in AnimFrames => f.a \in Anim) /\ (f.at = "stop" => f.a \in Elem)
      /\ \A e \in Elem : /\ Hands(an, f, e) => e \in W /\ e \notin V
                         /\ e \in W => e \in V \/ Hands(an, f, e)
                         /\ Hands(an, f, e) /\ qu[e] = <<>> =>
                              \E k \in DOMAIN stk : StopsOf(stk[k], e) /\ (stk[k].todo # <<>> \/ hk[e].waiting = 0)
                         /\ fn[e] <=> fin[e] \/ (StopsOf(f, e) /\ f.todo # <<>>)
      /\ f.at = "stop" => \A a \in Anim : Serves(an, a, f.a) => \E j \in DOMAIN tm : tm[j] = a
      /\ f.at = "stop" => \A l \in DOMAIN stk : stk[l].at \in {"end", "complete", "timer"} => an[stk[l].a].of # f.a
      /\ f.at = "stop" /\ f.todo # <<>> => f.end /\ qu[f.a] = <<>>
      /\ \A a \in Anim : a \in X => a \in Y \/ (f.at = "end" /\ f.a = a)
      /\ f.at \in {"end", "complete"} =>
           \A k \in DOMAIN stk : StopsOf(stk[k], an[f.a].of) =>
             Ends(stk[k]) /\ (stk[k].todo # <<>> => an[f.a].queued)
      /\ f.at = "end" => an[f.a].attached /\ \E k \in DOMAIN stk : StopsOf(stk[k], an[f.a].of)
  BY DEF TurnFits
<1> HIDE DEF stk, st, an, qu, tm, hk, fin, fn, n
<1>5. \A e \in Elem : HasTurn(st, an, e) <=> HasTurn(stk, an, e) \/ Hands(an, f, e)
  BY <1>3 DEF HasTurn
<1>6. \A e \in Elem : Beside(st, an, e) = Beside(stk, an, e)
  <2>1. \A a \in Anim : Leaving(st, a) <=> Leaving(stk, a)
    BY <1>3, <1>4 DEF Leaving
  <2> QED BY <2>1 DEF Beside
<1>7. Unique(st, an, V)
  <2> SUFFICES ASSUME NEW e \in Elem
               PROVE  /\ \A a, b \in Anim : Serves(an, a, e) /\ Serves(an, b, e) => a = b
                      /\ \A k, l \in DOMAIN st : Hands(an, st[k], e) /\ Hands(an, st[l], e) => k = l
                      /\ \A a \in Anim, k \in DOMAIN st : ~(Serves(an, a, e) /\ Hands(an, st[k], e))
                      /\ e \in V => ~HasTurn(st, an, e)
    BY DEF Unique
  <2>1. /\ \A a, b \in Anim : Serves(an, a, e) /\ Serves(an, b, e) => a = b
        /\ \A k, l \in DOMAIN stk : Hands(an, stk[k], e) /\ Hands(an, stk[l], e) => k = l
        /\ \A a \in Anim, k \in DOMAIN stk : ~(Serves(an, a, e) /\ Hands(an, stk[k], e))
        /\ e \in W => ~HasTurn(stk, an, e)
    BY <1>1 DEF Unique
  <2>2. CASE Hands(an, f, e)
    <3>1. ~HasTurn(stk, an, e) /\ e \notin V
      BY <1>4, <2>1, <2>2
    <3>2. (\A a \in Anim : ~Serves(an, a, e)) /\ (\A k \in DOMAIN stk : ~Hands(an, stk[k], e))
      BY <3>1 DEF HasTurn
    <3>3. \A k \in DOMAIN st : Hands(an, st[k], e) => k = n
      BY <1>3, <3>2
    <3> QED BY <3>1, <3>2, <3>3
  <2>3. CASE ~Hands(an, f, e)
    <3>1. \A k \in DOMAIN st : Hands(an, st[k], e) => k \in DOMAIN stk /\ Hands(an, stk[k], e)
      BY <1>3, <2>3
    <3>2. e \in V => ~HasTurn(st, an, e)
      BY <1>2, <1>5, <2>1, <2>3
    <3> QED BY <2>1, <3>1, <3>2
  <2> QED BY <2>2, <2>3
<1>8. Served(st, an, qu, V)
  <2>1. \A e \in Elem : (\E k \in DOMAIN stk : Will(stk[k], e)) => \E k \in DOMAIN st : Will(st[k], e)
    BY <1>3
  <2> QED BY <1>1, <1>4, <1>5, <2>1 DEF Served
<1>9. Watched(st, an, hk, V)
  <2>1. \A e \in Elem : (\E k \in DOMAIN stk : May(stk[k], e)) => \E k \in DOMAIN st : May(st[k], e)
    BY <1>3
  <2> SUFFICES ASSUME NEW e \in Elem, hk[e].present \/ hk[e].waiting > 0
               PROVE  \/ e \in V \/ HasTurn(st, an, e)
                      \/ \E k \in DOMAIN st : May(st[k], e)
                      \/ Beside(st, an, e) # {}
    BY DEF Watched
  <2> QED BY <1>1, <1>4, <1>5, <1>6, <2>1 DEF Watched
<1>10. Exact(st, an, hk)
  BY <1>1, <1>6 DEF Exact
<1>11. DueOk(st, an, tm, qu, Y)
  <2> SUFFICES ASSUME NEW k \in DOMAIN st, st[k].at \in ElemFrames, NEW a \in Anim, Serves(an, a, st[k].a)
               PROVE  \/ a \in Y
                      \/ Reaches(st, k, tm, a)
                      \/ Above(st, k, {"end"}, a)
                      \/ st[k].todo # <<>> /\ Above(st, k, {"timer", "made"}, a)
                      \/ Follows(st[k], qu[st[k].a])
    BY DEF DueOk
  <2>1. CASE k \in DOMAIN stk
    <3>1. st[k] = stk[k]
      BY <1>3, <2>1
    <3>2. \/ a \in X
          \/ Reaches(stk, k, tm, a)
          \/ Above(stk, k, {"end"}, a)
          \/ stk[k].todo # <<>> /\ Above(stk, k, {"timer", "made"}, a)
          \/ Follows(stk[k], qu[stk[k].a])
      BY <1>1, <2>1, <3>1 DEF DueOk
    <3>3. Reaches(stk, k, tm, a) => Reaches(st, k, tm, a)
      BY <3>1 DEF Reaches
    <3>4. \A ats : Above(stk, k, ats, a) => Above(st, k, ats, a)
      BY <1>3 DEF Above
    <3>5. a \in X => a \in Y \/ Above(st, k, {"end"}, a)
      BY <1>3, <1>4, <2>1 DEF Above
    <3> QED BY <3>1, <3>2, <3>3, <3>4, <3>5
  <2>2. CASE k = n
    <3>1. f.at = "stop" /\ st[k] = f
      BY <1>3, <1>4, <2>2 DEF ElemFrames
    <3> QED BY <1>4, <2>2, <3>1 DEF Reaches
  <2> QED BY <1>3, <2>1, <2>2
<1>12. Within(st, an)
  <2> SUFFICES ASSUME NEW k \in DOMAIN st, NEW l \in DOMAIN st, st[l].at \in {"end", "complete", "timer"},
                      StopsOf(st[k], an[st[l].a].of)
               PROVE  l > k /\ Ends(st[k])
    BY DEF Within
  <2>1. CASE k \in DOMAIN stk /\ l \in DOMAIN stk
    BY <1>1, <1>3, <2>1 DEF Within
  <2>2. CASE k \in DOMAIN stk /\ l = n
    BY <1>3, <1>4, <2>2
  <2>3. CASE k = n
    <3>1. f.at = "stop" /\ f.a = an[st[l].a].of
      BY <1>3, <1>4, <2>3 DEF StopsOf, ElemFrames
    <3>2. l # n
      BY <1>3, <3>1
    <3> QED BY <1>3, <1>4, <3>1, <3>2
  <2> QED BY <1>3, <2>1, <2>2, <2>3
<1>13. Finishing(st, an, qu, fn)
  <2>1. \A e \in Elem : fn[e] <=> \E k \in DOMAIN st : StopsOf(st[k], e) /\ st[k].todo # <<>>
    <3>1. \A e \in Elem : (\E k \in DOMAIN st : StopsOf(st[k], e) /\ st[k].todo # <<>>)
             <=> (\E k \in DOMAIN stk : StopsOf(stk[k], e) /\ stk[k].todo # <<>>) \/ (StopsOf(f, e) /\ f.todo # <<>>)
      BY <1>3
    <3> QED BY <1>1, <1>4, <3>1 DEF Finishing
  <2>2. ASSUME NEW k \in DOMAIN st, st[k].at \in ElemFrames, st[k].todo # <<>>
        PROVE  /\ st[k].end /\ qu[st[k].a] = <<>>
               /\ \A l \in DOMAIN st :
                    l > k /\ st[l].at \in {"end", "complete", "unqueue", "timer", "made"} /\ an[st[l].a].of = st[k].a
                      => an[st[l].a].queued
    <3>1. CASE k \in DOMAIN stk
      <4>1. /\ stk[k].end /\ qu[stk[k].a] = <<>> /\ st[k] = stk[k]
            /\ \A l \in DOMAIN stk :
                 l > k /\ stk[l].at \in {"end", "complete", "unqueue", "timer", "made"} /\ an[stk[l].a].of = stk[k].a
                   => an[stk[l].a].queued
        BY <1>1, <1>3, <2>2, <3>1 DEF Finishing
      <4>2. f.at \in {"end", "complete"} /\ an[f.a].of = stk[k].a => an[f.a].queued
        BY <1>4, <2>2, <3>1, <4>1 DEF StopsOf
      <4>3. ASSUME NEW l \in DOMAIN st, l > k, st[l].at \in {"end", "complete", "unqueue", "timer", "made"},
                   an[st[l].a].of = st[k].a
            PROVE  an[st[l].a].queued
        <5>1. CASE l \in DOMAIN stk
          BY <1>3, <4>1, <4>3, <5>1
        <5>2. CASE l = n
          BY <1>3, <1>4, <4>1, <4>2, <4>3, <5>2
        <5> QED BY <1>3, <5>1, <5>2
      <4> QED BY <4>1, <4>3
    <3>2. CASE k = n
      <4>1. \A l \in DOMAIN st : ~(l > n)
        BY <1>3, <1>2 DEF n
      <4> QED BY <1>3, <1>4, <2>2, <3>2, <4>1 DEF ElemFrames
    <3> QED BY <1>3, <3>1, <3>2
  <2> QED BY <2>1, <2>2 DEF Finishing
<1>14. AttachOk(st, an)
  <2>1. \A k \in DOMAIN st : st[k].at \in {"timer", "made"} => k \in DOMAIN stk
    BY <1>3, <1>4
  <2> QED BY <1>1, <1>3, <1>4, <2>1 DEF AttachOk
<1>15. EmptiedOk(st, an, qu, hk)
  <2> SUFFICES ASSUME NEW e \in Elem, qu[e] = <<>>, HasTurn(st, an, e)
               PROVE  \E k \in DOMAIN st : StopsOf(st[k], e) /\ (st[k].todo # <<>> \/ hk[e].waiting = 0)
    BY DEF EmptiedOk
  <2>1. \E k \in DOMAIN stk : StopsOf(stk[k], e) /\ (stk[k].todo # <<>> \/ hk[e].waiting = 0)
    BY <1>1, <1>4, <1>5 DEF EmptiedOk
  <2> QED BY <1>3, <2>1
<1>16. EndsOk(st, an)
  <2> SUFFICES ASSUME NEW l \in DOMAIN st, st[l].at = "end"
               PROVE  \E k \in DOMAIN st : StopsOf(st[k], an[st[l].a].of)
    BY DEF EndsOk
  <2>1. CASE l \in DOMAIN stk
    BY <1>1, <1>3, <2>1 DEF EndsOk
  <2>2. CASE l = n
    BY <1>3, <1>4, <2>2
  <2> QED BY <1>3, <2>1, <2>2
<1> QED BY <1>1, <1>2, <1>7, <1>8, <1>9, <1>10, <1>11, <1>12, <1>13, <1>14, <1>15, <1>16 DEF Turns, st, fn

LEMMA TurnsStopAnim ==
    ASSUME NEW s, NEW a \in Anim, NEW X \in SUBSET {a}, NEW end \in BOOLEAN, Base(s), Turns(s, {}, X),
           Started(s.anims, a),
           s.anims[a].stopped => s.anims[a].state # "pending" \/ Stops(s.stack, a),
           ~s.anims[a].stopped /\ ~end => Ready(s, a, "rejected"),
           ~s.anims[a].stopped /\ end =>
             /\ s.anims[a].attached
             /\ \E k \in DOMAIN s.stack : StopsOf(s.stack[k], s.anims[a].of)
             /\ \A k \in DOMAIN s.stack : StopsOf(s.stack[k], s.anims[a].of) =>
                  Ends(s.stack[k]) /\ (s.stack[k].todo # <<>> => s.anims[a].queued)
    PROVE  Turns(StopAnim(s, a, end), {}, {})
<1> DEFINE u == StoppedOne(s, a) e == s.anims[a].of stk == s.stack an == s.anims
<1>1. s \in FxVars /\ s.anims \in [Anim -> AnimVars] /\ stk \in Seq(FrameVars)
  BY FxIs DEF Base
<1>2. /\ Animated(s, u)
      /\ \A b \in Anim : b # a => u.anims[b] = s.anims[b]
      /\ \A b \in Anim : /\ u.anims[b].of = s.anims[b].of /\ u.anims[b].queued = s.anims[b].queued
                         /\ u.anims[b].zero = s.anims[b].zero /\ u.anims[b].state = s.anims[b].state
                         /\ u.anims[b].attached = s.anims[b].attached
  BY <1>1, StopIs
<1>3. StopAnim(s, a, end) = IF s.anims[a].stopped THEN s
                            ELSE IF end THEN Push(u, Of("end", a)) ELSE Settle(u, a, "rejected")
  BY DEF StopAnim, StoppedOne
<1>4. CASE s.anims[a].stopped
  <2>1. CASE s.anims[a].state # "pending"
    BY <1>3, <1>4, <2>1, TurnsX
  <2>2. CASE Stops(stk, a)
    <3>1. PICK l \in DOMAIN stk : stk[l].at = "end" /\ stk[l].a = a
      BY <2>2 DEF Stops
    <3>2. Within(stk, an) /\ DueOk(stk, an, s.timers, s.queue, X)
      BY DEF Turns
    <3>3. \A k \in DOMAIN stk : stk[k].at \in ElemFrames /\ Serves(an, a, stk[k].a) => Above(stk, k, {"end"}, a)
      BY <3>1, <3>2 DEF Within, Serves, StopsOf, Above
    <3>4. DueOk(stk, an, s.timers, s.queue, {})
      BY <3>2, <3>3 DEF DueOk
    <3>5. Turns(s, {}, {})
      BY <3>4 DEF Turns
    <3> QED BY <1>3, <1>4, <3>5
  <2> QED BY <1>4, <2>1, <2>2
<1>5. /\ u \in FxVars /\ u.anims \in [Anim -> AnimVars] /\ u.stack = stk /\ u.timers = s.timers
      /\ u.queue = s.queue /\ u.hooks = s.hooks /\ u.finish = s.finish
  BY <1>2, FxIs DEF Animated
<1>6. Ages(s.anims, u.anims) /\ Started(u.anims, a)
  BY <1>2, <1>5 DEF Ages, Started
<1>7. Base(u)
  BY <1>2, <1>6, BaseAges
<1>8. u.anims[a].elem = s.anims[a].elem
  <2>1. PICK yes : yes = TRUE
    OBVIOUS
  <2> DEFINE y == [s.anims[a] EXCEPT !.stopped = yes] x == [s.anims EXCEPT ![a] = y]
  <2>2. y \in AnimVars /\ y.elem = s.anims[a].elem
    BY <1>1, <2>1 DEF AnimVars
  <2>3. x \in [Anim -> AnimVars] /\ x[a] = y
    BY <1>1, <2>2
  <2>4. u = [s EXCEPT !.anims = x]
    BY <2>1, Zenon DEF StoppedOne
  <2> HIDE DEF x, y, u
  <2>5. u.anims = x
    BY <1>1, <2>3, <2>4, AnimsIs
  <2> QED BY <2>2, <2>3, <2>5
<1> HIDE DEF u
<1>9. Turns(u, {}, X)
  <2>1. \A b \in Anim : Likewise(an[b], u.anims[b]) /\ SameAnim(an[b], u.anims[b])
    BY <1>2, <1>8 DEF Likewise, SameAnim
  <2>2. \A k \in DOMAIN stk : stk[k].at \in TurnFrames \ ElemFrames => stk[k].a \in Anim
    BY DEF Base, FramesOk, TurnFrames, ElemFrames, AnimFrames
  <2>3. Alike(stk, an, u.stack, u.anims)
    BY <1>5, <2>1, <2>2 DEF Alike, SameRole
  <2>4. HooksKept(s.hooks, u.hooks)
    BY <1>5 DEF HooksKept
  <2> QED BY <1>5, <2>3, <2>4, TurnsSame
<1>10. CASE ~s.anims[a].stopped /\ ~end
  <2>1. Ready(u, a, "rejected")
    BY <1>2, <1>5, <1>10 DEF Ready
  <2>2. Turns(Settle(u, a, "rejected"), {}, {})
    BY <1>7, <1>9, <2>1, TurnsSettles
  <2> QED BY <1>3, <1>10, <2>2
<1>11. CASE ~s.anims[a].stopped /\ end
  <2> DEFINE f == Of("end", a) t == Push(u, f) none == {}
  <2>1. "end" \in AnimFrames
    BY DEF AnimFrames
  <2>2. f \in FrameVars /\ f.at = "end" /\ f.a = a
    BY <2>1, OfAnim
  <2> HIDE DEF f
  <2>3. Stacked(u, t) /\ Adds(u.stack, f, t.stack)
    BY <1>5, <2>2, PushIs
  <2> HIDE DEF t
  <2>4. TurnFits(u, t, f, none, none, X, none)
    <3>1. /\ \A e1 \in Elem : t.finish[e1] = u.finish[e1] /\ ~StopsOf(f, e1) /\ ~Hands(u.anims, f, e1)
          /\ u.anims[f.a].of = e /\ u.anims[f.a].queued = an[a].queued /\ u.anims[f.a].attached = an[a].attached
      BY <1>2, <2>2, <2>3 DEF Stacked, StopsOf, ElemFrames, Hands
    <3>2. /\ s.anims[a].attached
          /\ \E k \in DOMAIN s.stack : StopsOf(s.stack[k], s.anims[a].of)
          /\ \A k \in DOMAIN s.stack : StopsOf(s.stack[k], s.anims[a].of) =>
               Ends(s.stack[k]) /\ (s.stack[k].todo # <<>> => s.anims[a].queued)
      BY <1>11
    <3> QED BY <1>5, <2>2, <3>1, <3>2 DEF TurnFits
  <2>5. none \in SUBSET none /\ none \in SUBSET X /\ Turns(u, none, X)
    BY <1>9
  <2> HIDE DEF none
  <2>6. Turns(t, none, none)
    BY <1>7, <2>3, <2>4, <2>5, TurnsAdds DEF Stacked
  <2> QED BY <1>3, <1>11, <2>6 DEF t, f, none
<1> QED BY <1>4, <1>10, <1>11
-----------------------------------------------------------------------------
\* A call returns.
DropFits(s, t, f, V, Y) ==
    LET stk == s.stack an == s.anims IN
    /\ f.at \in {"end", "complete", "made"} \cup ElemFrames
    /\ \A e \in Elem : /\ Hands(an, f, e) \/ May(f, e) => e \in V
                       /\ e \in V => Hands(an, f, e) \/ ~HasTurn(stk, an, e)
                       /\ t.finish[e] <=> s.finish[e] /\ ~(StopsOf(f, e) /\ f.todo # <<>>)
                       /\ StopsOf(f, e) /\ s.queue[e] = <<>> => ~HasTurn(stk, an, e)
    /\ f.at = "end" => f.a \in Y
    /\ f.at = "made" => f.a \in Y \/ \A k \in DOMAIN stk : StopsOf(stk[k], an[f.a].of) => stk[k].todo = <<>>
    /\ f.at \in ElemFrames => \A k \in DOMAIN stk : stk[k].at \in ElemFrames => k = Len(stk)

LEMMA DroppedIs ==
    ASSUME NEW stk \in Seq(FrameVars), NEW st, Drops(stk, st)
    PROVE  /\ Len(stk) \in DOMAIN stk /\ Len(stk) \notin DOMAIN st
           /\ \A k \in DOMAIN stk : Len(stk) >= k /\ (k \in DOMAIN st \/ k = Len(stk))
           /\ \A k \in DOMAIN st : k \in DOMAIN stk /\ st[k] = stk[k] /\ k # Len(stk)
BY DEF Drops

LEMMA TurnsDrops ==
    ASSUME NEW s, NEW t, NEW f, NEW V, NEW Y, Base(s), Turns(s, {}, {}),
           t.anims = s.anims, t.timers = s.timers, t.queue = s.queue, t.hooks = s.hooks,
           f = s.stack[Len(s.stack)], Drops(s.stack, t.stack), DropFits(s, t, f, V, Y)
    PROVE  Turns(t, V, Y)
<1> DEFINE stk == s.stack st == t.stack an == s.anims qu == s.queue tm == s.timers
           hk == s.hooks fin == s.finish fn == t.finish n == Len(stk)
<1>1. /\ Unique(stk, an, {}) /\ Served(stk, an, qu, {}) /\ Watched(stk, an, hk, {}) /\ Exact(stk, an, hk)
      /\ DueOk(stk, an, tm, qu, {}) /\ Within(stk, an) /\ Finishing(stk, an, qu, fin) /\ AttachOk(stk, an)
      /\ EmptiedOk(stk, an, qu, hk) /\ EndsOk(stk, an) /\ HeadOk(qu)
  BY DEF Turns
<1>2. /\ t.anims = an /\ t.timers = tm /\ t.queue = qu /\ t.hooks = hk
  OBVIOUS
<1>3. /\ n \in DOMAIN stk /\ n \notin DOMAIN st /\ stk[n] = f
      /\ \A k \in DOMAIN stk : n >= k /\ (k \in DOMAIN st \/ k = n)
      /\ \A k \in DOMAIN st : k \in DOMAIN stk /\ st[k] = stk[k] /\ k # n
      /\ \A k \in DOMAIN stk : ~(k > n)
  <2>1. stk \in Seq(FrameVars)
    BY FxIs DEF Base
  <2> QED BY <2>1, DroppedIs
<1>4. /\ f.at \in {"end", "complete", "made"} \cup ElemFrames
      /\ \A e \in Elem : /\ Hands(an, f, e) \/ May(f, e) => e \in V
                         /\ e \in V => Hands(an, f, e) \/ ~HasTurn(stk, an, e)
                         /\ fn[e] <=> fin[e] /\ ~(StopsOf(f, e) /\ f.todo # <<>>)
                         /\ StopsOf(f, e) /\ qu[e] = <<>> => ~HasTurn(stk, an, e)
      /\ f.at = "end" => f.a \in Y
      /\ f.at = "made" => f.a \in Y \/ \A k \in DOMAIN stk : StopsOf(stk[k], an[f.a].of) => stk[k].todo = <<>>
      /\ f.at \in ElemFrames => \A k \in DOMAIN stk : stk[k].at \in ElemFrames => k = n
  BY DEF DropFits
<1> HIDE DEF stk, st, an, qu, tm, hk, fin, fn, n
<1>5. \A e \in Elem : /\ HasTurn(st, an, e) => HasTurn(stk, an, e)
                      /\ HasTurn(stk, an, e) => HasTurn(st, an, e) \/ e \in V
  BY <1>3, <1>4 DEF HasTurn
<1>6. \A e \in Elem : Beside(st, an, e) = Beside(stk, an, e)
  <2>1. \A a \in Anim : Leaving(st, a) <=> Leaving(stk, a)
    BY <1>3, <1>4 DEF Leaving, ElemFrames
  <2> QED BY <2>1 DEF Beside
<1>7. Unique(st, an, V)
  <2> SUFFICES ASSUME NEW e \in Elem
               PROVE  /\ \A a, b \in Anim : Serves(an, a, e) /\ Serves(an, b, e) => a = b
                      /\ \A k, l \in DOMAIN st : Hands(an, st[k], e) /\ Hands(an, st[l], e) => k = l
                      /\ \A a \in Anim, k \in DOMAIN st : ~(Serves(an, a, e) /\ Hands(an, st[k], e))
                      /\ e \in V => ~HasTurn(st, an, e)
    BY DEF Unique
  <2>1. /\ \A a, b \in Anim : Serves(an, a, e) /\ Serves(an, b, e) => a = b
        /\ \A k, l \in DOMAIN stk : Hands(an, stk[k], e) /\ Hands(an, stk[l], e) => k = l
        /\ \A a \in Anim, k \in DOMAIN stk : ~(Serves(an, a, e) /\ Hands(an, stk[k], e))
    BY <1>1 DEF Unique
  <2>2. Hands(an, f, e) => ~HasTurn(st, an, e)
    BY <1>3, <2>1 DEF HasTurn
  <2>3. e \in V => ~HasTurn(st, an, e)
    BY <1>4, <1>5, <2>2
  <2> QED BY <1>3, <2>1, <2>3
<1>8. Served(st, an, qu, V)
  <2>1. \A e \in Elem : (\E k \in DOMAIN stk : Will(stk[k], e)) => e \in V \/ \E k \in DOMAIN st : Will(st[k], e)
    BY <1>3, <1>4 DEF Will, May
  <2> QED BY <1>1, <1>5, <2>1 DEF Served
<1>9. Watched(st, an, hk, V)
  <2>1. \A e \in Elem : (\E k \in DOMAIN stk : May(stk[k], e)) => e \in V \/ \E k \in DOMAIN st : May(st[k], e)
    BY <1>3, <1>4
  <2> QED BY <1>1, <1>5, <1>6, <2>1 DEF Watched
<1>10. Exact(st, an, hk)
  BY <1>1, <1>6 DEF Exact
<1>11. DueOk(st, an, tm, qu, Y)
  <2> SUFFICES ASSUME NEW k \in DOMAIN st, st[k].at \in ElemFrames, NEW a \in Anim, Serves(an, a, st[k].a)
               PROVE  \/ a \in Y
                      \/ Reaches(st, k, tm, a)
                      \/ Above(st, k, {"end"}, a)
                      \/ st[k].todo # <<>> /\ Above(st, k, {"timer", "made"}, a)
                      \/ Follows(st[k], qu[st[k].a])
    BY DEF DueOk
  <2>1. k \in DOMAIN stk /\ st[k] = stk[k]
    BY <1>3
  <2>2. \/ Reaches(stk, k, tm, a)
        \/ Above(stk, k, {"end"}, a)
        \/ stk[k].todo # <<>> /\ Above(stk, k, {"timer", "made"}, a)
        \/ Follows(stk[k], qu[stk[k].a])
    BY <1>1, <2>1 DEF DueOk
  <2>3. Reaches(stk, k, tm, a) => Reaches(st, k, tm, a)
    BY <2>1 DEF Reaches
  <2>4. Above(stk, k, {"end"}, a) => a \in Y \/ Above(st, k, {"end"}, a)
    BY <1>3, <1>4 DEF Above
  <2>5. stk[k].todo # <<>> /\ Above(stk, k, {"timer", "made"}, a) => a \in Y \/ Above(st, k, {"timer", "made"}, a)
    <3>1. StopsOf(stk[k], an[a].of)
      BY <2>1 DEF StopsOf, Serves
    <3> QED BY <1>3, <1>4, <2>1, <3>1 DEF Above, ElemFrames
  <2> QED BY <2>1, <2>2, <2>3, <2>4, <2>5
<1>12. Within(st, an)
  BY <1>1, <1>3 DEF Within
<1>13. Finishing(st, an, qu, fn)
  <2>1. \A e \in Elem : fn[e] <=> \E k \in DOMAIN st : StopsOf(st[k], e) /\ st[k].todo # <<>>
    <3> TAKE e \in Elem
    <3>1. fin[e] <=> \E k \in DOMAIN stk : StopsOf(stk[k], e) /\ stk[k].todo # <<>>
      BY <1>1 DEF Finishing
    <3>2. CASE StopsOf(f, e) /\ f.todo # <<>>
      BY <1>3, <1>4, <3>2 DEF StopsOf
    <3>3. CASE ~(StopsOf(f, e) /\ f.todo # <<>>)
      BY <1>3, <1>4, <3>1, <3>3
    <3> QED BY <3>2, <3>3
  <2> QED BY <1>1, <1>3, <2>1 DEF Finishing
<1>14. AttachOk(st, an)
  <2>1. \A k \in DOMAIN stk : stk[k].at = "timer" => k \in DOMAIN st
    BY <1>3, <1>4 DEF ElemFrames
  <2> QED BY <1>1, <1>3, <2>1 DEF AttachOk
<1>15. EmptiedOk(st, an, qu, hk)
  <2> SUFFICES ASSUME NEW e \in Elem, qu[e] = <<>>, HasTurn(st, an, e)
               PROVE  \E k \in DOMAIN st : StopsOf(st[k], e) /\ (st[k].todo # <<>> \/ hk[e].waiting = 0)
    BY DEF EmptiedOk
  <2>1. PICK k \in DOMAIN stk : StopsOf(stk[k], e) /\ (stk[k].todo # <<>> \/ hk[e].waiting = 0)
    BY <1>1, <1>5 DEF EmptiedOk
  <2> QED BY <1>3, <1>4, <1>5, <2>1
<1>16. EndsOk(st, an)
  <2> SUFFICES ASSUME NEW l \in DOMAIN st, st[l].at = "end"
               PROVE  \E k \in DOMAIN st : StopsOf(st[k], an[st[l].a].of)
    BY DEF EndsOk
  <2>1. PICK k \in DOMAIN stk : StopsOf(stk[k], an[stk[l].a].of)
    BY <1>1, <1>3 DEF EndsOk
  <2>2. l > k
    BY <1>1, <1>3, <2>1 DEF Within
  <2>3. k # n
    BY <1>3, <2>2
  <2> QED BY <1>3, <2>1, <2>3
<1> QED BY <1>1, <1>2, <1>7, <1>8, <1>9, <1>10, <1>11, <1>12, <1>13, <1>14, <1>15, <1>16 DEF Turns, st, fn

\* The loop of stop is over: an animation that has the turn follows, if any.
LEMMA StopIsOver ==
    ASSUME NEW s, Base(s), Turns(s, {}, {}), s.stack # <<>>,
           NEW f, f = s.stack[Len(s.stack)], f.at = "loop", f.i = 0
    PROVE  /\ \A k \in DOMAIN s.stack : ~Hands(s.anims, s.stack[k], f.a)
           /\ \A a \in Anim : Serves(s.anims, a, f.a) => Follows(f, s.queue[f.a])
           /\ HasTurn(s.stack, s.anims, f.a) => Follows(f, s.queue[f.a])
<1> DEFINE n == Len(s.stack) stk == s.stack
<1>1. /\ n \in DOMAIN stk /\ stk[n] = f /\ f.i = 0 /\ f.at = "loop"
      /\ \A k \in DOMAIN stk : ~(k > n)
      /\ Within(stk, s.anims) /\ DueOk(stk, s.anims, s.timers, s.queue, {})
      /\ \A j \in DOMAIN s.timers : ~(j <= 0)
  <2>1. n \in DOMAIN stk /\ DOMAIN stk = 1 .. n
    BY TopIs
  <2>2. s.timers \in Seq(Anim)
    BY FxIs DEF Base
  <2> QED BY <2>1, <2>2 DEF Turns
<1> HIDE DEF n, stk
<1>2. \A k \in DOMAIN stk : ~Hands(s.anims, stk[k], f.a)
  BY <1>1 DEF Within, Hands, StopsOf, ElemFrames
<1>3. \A a \in Anim : Serves(s.anims, a, f.a) => Follows(f, s.queue[f.a])
  <2> SUFFICES ASSUME NEW a \in Anim, Serves(s.anims, a, f.a) PROVE Follows(f, s.queue[f.a])
    OBVIOUS
  <2>1. \/ Reaches(stk, n, s.timers, a)
        \/ Above(stk, n, {"end"}, a)
        \/ Above(stk, n, {"timer", "made"}, a)
        \/ Follows(f, s.queue[f.a])
    BY <1>1 DEF DueOk, ElemFrames
  <2>2. ~Reaches(stk, n, s.timers, a)
    BY <1>1 DEF Reaches
  <2>3. \A ats : ~Above(stk, n, ats, a)
    BY <1>1 DEF Above
  <2> QED BY <2>1, <2>2, <2>3
<1> QED BY <1>2, <1>3 DEF stk, HasTurn

\* The loop of stop or finish goes on: no other call of stop is under way.
StopFits(s, t, f, g, V, Y) ==
    LET stk == s.stack an == s.anims e == f.a n == Len(s.stack) turn == HasTurn(s.stack, s.anims, f.a) IN
    /\ f.at \in ElemFrames /\ g.at \in ElemFrames /\ e \in Elem /\ g.a = e
    /\ \A k \in DOMAIN stk : stk[k].at \in ElemFrames => k = n
    /\ g.end = f.end
    /\ g.todo # <<>> <=> f.todo # <<>>
    /\ e \in V => ~turn
    /\ Will(f, e) => Will(g, e) \/ e \in V \/ turn
    /\ May(f, e) => May(g, e) \/ e \in V \/ turn \/ Beside(stk, an, e) # {}
    /\ \A a \in Anim : Serves(an, a, e) /\ (Reaches(stk, n, s.timers, a) \/ Follows(f, s.queue[e])) =>
         a \in Y \/ Reaches(t.stack, n, t.timers, a) \/ Follows(g, s.queue[e])

LEMMA TurnsStops ==
    ASSUME NEW s, NEW t, NEW f, NEW g, NEW V \in SUBSET {f.a}, NEW Y, Base(s), Turns(s, {}, {}),
           t.anims = s.anims, t.queue = s.queue, t.hooks = s.hooks, t.finish = s.finish,
           f = s.stack[Len(s.stack)], Puts(s.stack, g, t.stack), StopFits(s, t, f, g, V, Y)
    PROVE  Turns(t, V, Y)
<1> DEFINE stk == s.stack st == t.stack an == s.anims qu == s.queue tm == s.timers tn == t.timers
           hk == s.hooks fin == s.finish n == Len(stk) e == f.a turn == HasTurn(stk, an, e)
<1>1. /\ Unique(stk, an, {}) /\ Served(stk, an, qu, {}) /\ Watched(stk, an, hk, {}) /\ Exact(stk, an, hk)
      /\ DueOk(stk, an, tm, qu, {}) /\ Within(stk, an) /\ Finishing(stk, an, qu, fin) /\ AttachOk(stk, an)
      /\ EmptiedOk(stk, an, qu, hk) /\ EndsOk(stk, an) /\ HeadOk(qu)
  BY DEF Turns
<1>2. /\ t.anims = an /\ t.queue = qu /\ t.hooks = hk /\ t.finish = fin /\ V \subseteq {e}
  OBVIOUS
<1>3. /\ n \in DOMAIN stk /\ stk[n] = f /\ n \in DOMAIN st /\ st[n] = g
      /\ \A k \in DOMAIN stk : ~(k > n)
      /\ \A k \in DOMAIN stk : k # n => k \in DOMAIN st /\ st[k] = stk[k]
      /\ \A k \in DOMAIN st : k \in DOMAIN stk
  <2>1. stk \in Seq(FrameVars)
    BY FxIs DEF Base
  <2> QED BY <2>1 DEF Puts
<1>4. /\ f.at \in ElemFrames /\ g.at \in ElemFrames /\ e \in Elem /\ g.a = e
      /\ \A k \in DOMAIN stk : stk[k].at \in ElemFrames => k = n
      /\ g.end = f.end
      /\ g.todo # <<>> <=> f.todo # <<>>
      /\ e \in V => ~turn
      /\ Will(f, e) => Will(g, e) \/ e \in V \/ turn
      /\ May(f, e) => May(g, e) \/ e \in V \/ turn \/ Beside(stk, an, e) # {}
      /\ \A a \in Anim : Serves(an, a, e) /\ (Reaches(stk, n, tm, a) \/ Follows(f, qu[e])) =>
           a \in Y \/ Reaches(st, n, tn, a) \/ Follows(g, qu[e])
  BY DEF StopFits
<1>5. e = f.a
  OBVIOUS
<1> HIDE DEF stk, st, an, qu, tm, tn, hk, fin, n, e, turn
<1>6. \A k \in DOMAIN stk : stk[k].at \notin ElemFrames => k # n /\ k \in DOMAIN st /\ st[k] = stk[k]
  BY <1>3, <1>4
<1>7. \A k \in DOMAIN st : st[k].at \notin ElemFrames => k # n /\ k \in DOMAIN stk /\ st[k] = stk[k]
  BY <1>3, <1>4
<1>8. \A k \in DOMAIN st : st[k].at \in ElemFrames => k = n
  BY <1>3, <1>4
<1>9. /\ \A d \in Elem : ~Hands(an, f, d) /\ ~Hands(an, g, d)
      /\ \A k \in DOMAIN st, d \in Elem : Hands(an, st[k], d) <=> Hands(an, stk[k], d)
      /\ \A d \in Elem : HasTurn(st, an, d) <=> HasTurn(stk, an, d)
  <2>1. \A d \in Elem : ~Hands(an, f, d) /\ ~Hands(an, g, d)
    BY <1>4 DEF Hands, ElemFrames
  <2>2. \A k \in DOMAIN st, d \in Elem : Hands(an, st[k], d) <=> Hands(an, stk[k], d)
    <3> TAKE k \in DOMAIN st, d \in Elem
    <3>1. CASE k = n
      BY <1>3, <2>1, <3>1
    <3>2. CASE k # n
      BY <1>3, <3>2
    <3> QED BY <3>1, <3>2
  <2>3. \A d \in Elem : HasTurn(st, an, d) <=> HasTurn(stk, an, d)
    BY <1>3, <2>1, <2>2 DEF HasTurn
  <2> QED BY <2>1, <2>2, <2>3
<1>10. \A d \in Elem : Beside(st, an, d) = Beside(stk, an, d)
  <2>1. \A a \in Anim : Leaving(st, a) <=> Leaving(stk, a)
    BY <1>6, <1>7 DEF Leaving, ElemFrames
  <2> QED BY <2>1 DEF Beside
<1>11. Unique(st, an, V)
  BY <1>1, <1>2, <1>3, <1>4, <1>9 DEF Unique, turn
<1>12. Served(st, an, qu, V)
  <2> SUFFICES ASSUME NEW d \in Elem, qu[d] # <<>>
               PROVE  d \in V \/ HasTurn(st, an, d) \/ \E k \in DOMAIN st : Will(st[k], d)
    BY DEF Served
  <2>1. HasTurn(stk, an, d) \/ \E k \in DOMAIN stk : Will(stk[k], d)
    BY <1>1 DEF Served
  <2>2. ASSUME NEW k \in DOMAIN stk, Will(stk[k], d)
        PROVE  d \in V \/ HasTurn(st, an, d) \/ \E l \in DOMAIN st : Will(st[l], d)
    <3>1. k = n /\ d = e /\ Will(f, e)
      BY <1>3, <1>4, <1>5, <2>2 DEF Will, StopsOf
    <3> QED BY <1>3, <1>4, <1>9, <3>1 DEF turn
  <2> QED BY <1>9, <2>1, <2>2
<1>13. Watched(st, an, hk, V)
  <2> SUFFICES ASSUME NEW d \in Elem, hk[d].present \/ hk[d].waiting > 0
               PROVE  \/ d \in V \/ HasTurn(st, an, d)
                      \/ \E k \in DOMAIN st : May(st[k], d)
                      \/ Beside(st, an, d) # {}
    BY DEF Watched
  <2>1. HasTurn(stk, an, d) \/ (\E k \in DOMAIN stk : May(stk[k], d)) \/ Beside(stk, an, d) # {}
    BY <1>1 DEF Watched
  <2>2. ASSUME NEW k \in DOMAIN stk, May(stk[k], d)
        PROVE  \/ d \in V \/ HasTurn(st, an, d)
               \/ \E l \in DOMAIN st : May(st[l], d)
               \/ Beside(st, an, d) # {}
    <3>1. k = n /\ d = e /\ May(f, e)
      BY <1>3, <1>4, <1>5, <2>2 DEF May, StopsOf
    <3> QED BY <1>3, <1>4, <1>9, <1>10, <3>1 DEF turn
  <2> QED BY <1>9, <1>10, <2>1, <2>2
<1>14. Exact(st, an, hk)
  BY <1>1, <1>10 DEF Exact
<1>15. DueOk(st, an, tn, qu, Y)
  <2> SUFFICES ASSUME NEW k \in DOMAIN st, st[k].at \in ElemFrames, NEW a \in Anim, Serves(an, a, st[k].a)
               PROVE  \/ a \in Y
                      \/ Reaches(st, k, tn, a)
                      \/ Above(st, k, {"end"}, a)
                      \/ st[k].todo # <<>> /\ Above(st, k, {"timer", "made"}, a)
                      \/ Follows(st[k], qu[st[k].a])
    BY DEF DueOk
  <2>1. k = n /\ st[k] = g /\ Serves(an, a, e)
    BY <1>3, <1>4, <1>8
  <2>2. \/ Reaches(stk, n, tm, a)
        \/ Above(stk, n, {"end"}, a)
        \/ Above(stk, n, {"timer", "made"}, a)
        \/ Follows(f, qu[e])
    BY <1>1, <1>3, <1>4, <1>5, <2>1 DEF DueOk
  <2>3. \A ats : ~Above(stk, n, ats, a)
    BY <1>3 DEF Above
  <2> QED BY <1>4, <2>1, <2>2, <2>3
<1>16. Within(st, an)
  <2> SUFFICES ASSUME NEW k \in DOMAIN st, NEW l \in DOMAIN st, st[l].at \in {"end", "complete", "timer"},
                      StopsOf(st[k], an[st[l].a].of)
               PROVE  FALSE
    BY DEF Within
  <2>1. k = n /\ StopsOf(f, an[st[l].a].of)
    BY <1>3, <1>4, <1>5, <1>8 DEF StopsOf
  <2>2. l \in DOMAIN stk /\ st[l] = stk[l]
    BY <1>7 DEF ElemFrames
  <2>3. l > n
    BY <1>1, <1>3, <2>1, <2>2 DEF Within
  <2> QED BY <1>3, <2>2, <2>3
<1>17. Finishing(st, an, qu, fin)
  <2>1. \A d \in Elem : fin[d] <=> \E k \in DOMAIN st : StopsOf(st[k], d) /\ st[k].todo # <<>>
    <3>1. \A d \in Elem : (\E k \in DOMAIN st : StopsOf(st[k], d) /\ st[k].todo # <<>>)
                             <=> (\E k \in DOMAIN stk : StopsOf(stk[k], d) /\ stk[k].todo # <<>>)
      BY <1>3, <1>4, <1>5, <1>8 DEF StopsOf
    <3> QED BY <1>1, <3>1 DEF Finishing
  <2>2. ASSUME NEW k \in DOMAIN st, st[k].at \in ElemFrames, st[k].todo # <<>>
        PROVE  /\ st[k].end /\ qu[st[k].a] = <<>>
               /\ \A l \in DOMAIN st : ~(l > k)
    <3>1. k = n /\ st[k] = g
      BY <1>3, <1>8, <2>2
    <3>2. f.end /\ qu[e] = <<>>
      BY <1>1, <1>3, <1>4, <1>5, <2>2, <3>1 DEF Finishing
    <3> QED BY <1>3, <1>4, <3>1, <3>2
  <2> QED BY <2>1, <2>2 DEF Finishing
<1>18. AttachOk(st, an)
  <2>1. \A k \in DOMAIN stk : stk[k].at = "timer" => k \in DOMAIN st /\ st[k] = stk[k]
    BY <1>6 DEF ElemFrames
  <2>2. \A k \in DOMAIN st : st[k].at \in {"end", "made", "timer"} => k \in DOMAIN stk /\ st[k] = stk[k]
    BY <1>7 DEF ElemFrames
  <2> QED BY <1>1, <2>1, <2>2 DEF AttachOk
<1>19. EmptiedOk(st, an, qu, hk)
  <2> SUFFICES ASSUME NEW d \in Elem, qu[d] = <<>>, HasTurn(st, an, d)
               PROVE  \E k \in DOMAIN st : StopsOf(st[k], d) /\ (st[k].todo # <<>> \/ hk[d].waiting = 0)
    BY DEF EmptiedOk
  <2>1. PICK k \in DOMAIN stk : StopsOf(stk[k], d) /\ (stk[k].todo # <<>> \/ hk[d].waiting = 0)
    BY <1>1, <1>9 DEF EmptiedOk
  <2> QED BY <1>3, <1>4, <1>5, <2>1 DEF StopsOf
<1>20. EndsOk(st, an)
  <2> SUFFICES ASSUME NEW l \in DOMAIN st, st[l].at = "end"
               PROVE  FALSE
    BY DEF EndsOk
  <2>1. l \in DOMAIN stk /\ st[l] = stk[l]
    BY <1>7 DEF ElemFrames
  <2>2. PICK k \in DOMAIN stk : StopsOf(stk[k], an[stk[l].a].of)
    BY <1>1, <2>1 DEF EndsOk
  <2>3. k = n /\ l > k
    BY <1>1, <1>4, <2>1, <2>2 DEF Within, StopsOf
  <2> QED BY <1>3, <2>1, <2>3
<1> QED BY <1>1, <1>2, <1>11, <1>12, <1>13, <1>14, <1>15, <1>16, <1>17, <1>18, <1>19, <1>20 DEF Turns, st, tn
-----------------------------------------------------------------------------
\* What jQuery does when a function returns.  The stops that are left.
LEMMA LeftStops ==
    ASSUME NEW s, NEW t, Base(s), Turns(s, {}, {}), Drops(s.stack, t.stack), NEW f, f = s.stack[Len(s.stack)]
    PROVE  /\ \A k \in DOMAIN t.stack : k \in DOMAIN s.stack /\ t.stack[k] = s.stack[k] /\ Len(s.stack) > k
           /\ f.at \in {"end", "complete", "timer"} =>
                \A k \in DOMAIN t.stack : StopsOf(t.stack[k], s.anims[f.a].of) => Ends(t.stack[k])
           /\ f.at \in {"end", "complete", "unqueue", "timer", "made"} =>
                \A k \in DOMAIN t.stack : StopsOf(t.stack[k], s.anims[f.a].of) /\ t.stack[k].todo # <<>> => s.anims[f.a].queued
<1> DEFINE n == Len(s.stack)
<1>1. s.stack \in Seq(FrameVars) /\ Within(s.stack, s.anims) /\ Finishing(s.stack, s.anims, s.queue, s.finish)
  BY FxIs DEF Base, Turns
<1>2. /\ \A k \in DOMAIN t.stack : k \in DOMAIN s.stack /\ t.stack[k] = s.stack[k] /\ n > k
      /\ n \in DOMAIN s.stack /\ s.stack[n] = f
  BY <1>1 DEF Drops
<1> HIDE DEF n
<1>3. f.at \in {"end", "complete", "timer"} =>
        \A k \in DOMAIN t.stack : StopsOf(t.stack[k], s.anims[f.a].of) => Ends(t.stack[k])
  BY <1>1, <1>2 DEF Within
<1>4. f.at \in {"end", "complete", "unqueue", "timer", "made"} =>
        \A k \in DOMAIN t.stack : StopsOf(t.stack[k], s.anims[f.a].of) /\ t.stack[k].todo # <<>> => s.anims[f.a].queued
  BY <1>1, <1>2 DEF Finishing, StopsOf
<1> QED BY <1>2, <1>3, <1>4 DEF n

LEMMA TurnsEnd == ASSUME Base(fx), Turns(fx, {}, {}), End PROVE Turns(fx', {}, {})
<1> DEFINE f == fx.stack[Len(fx.stack)] a == Top.a s == Pop(fx) t == Settle(s, a, "resolved") none == {} one == {a}
<1>1. fx.stack # <<>> /\ f.at = "end" /\ f.a = a /\ Goes(t)
  BY DEF End, At, Top
<1>2. a \in Anim
  BY <1>1, TopIs DEF AnimFrames
<1>3. Base(s) /\ Stacked(fx, s) /\ Drops(fx.stack, s.stack)
  BY <1>1, BasePop, PopIs DEF Base
<1>4. none = {} /\ one \in SUBSET {a} /\ a \in one /\ f = fx.stack[Len(fx.stack)]
  OBVIOUS
<1> HIDE DEF s, f, none, one, a
<1>5. DropFits(fx, s, f, none, one)
  BY <1>1, <1>3, <1>4 DEF DropFits, Hands, May, StopsOf, ElemFrames, Stacked
<1>6. Turns(s, none, one)
  BY <1>3, <1>4, <1>5, TurnsDrops DEF Stacked
<1>7. Ready(s, a, "resolved")
  <2>1. /\ \A k \in DOMAIN s.stack : StopsOf(s.stack[k], fx.anims[a].of) => Ends(s.stack[k])
        /\ \A k \in DOMAIN s.stack : StopsOf(s.stack[k], fx.anims[a].of) /\ s.stack[k].todo # <<>> => fx.anims[a].queued
    BY <1>1, <1>3, <1>4, LeftStops
  <2>2. s.anims = fx.anims
    BY <1>3 DEF Stacked
  <2> QED BY <2>1, <2>2 DEF Ready
<1>8. Turns(t, {}, {}) /\ Base(t)
  BY <1>2, <1>3, <1>4, <1>6, <1>7, TurnsSettles, BaseSettles
<1> HIDE DEF t
<1> QED BY <1>1, <1>8, TurnsGoes

LEMMA TurnsDequeueNext == ASSUME Base(fx), Turns(fx, {}, {}), DequeueNext PROVE Turns(fx', {}, {})
<1> DEFINE f == fx.stack[Len(fx.stack)] e == fx.anims[Top.a].of s == Pop(fx) t == Dequeue(s, e) none == {} one == {e}
<1>1. fx.stack # <<>> /\ f.at = "complete" /\ fx.anims[f.a].of = e /\ Goes(t)
  BY DEF DequeueNext, At, Top
<1>2. e \in Elem
  BY <1>1, TopIs DEF AnimFrames
<1>3. Base(s) /\ Stacked(fx, s) /\ Drops(fx.stack, s.stack)
  BY <1>1, BasePop, PopIs DEF Base
<1>4. none = {} /\ one = {e} /\ f = fx.stack[Len(fx.stack)]
  OBVIOUS
<1> HIDE DEF s, f, none, one, e
<1>5. DropFits(fx, s, f, one, none)
  BY <1>1, <1>3, <1>4 DEF DropFits, Hands, May, StopsOf, ElemFrames, Stacked
<1>6. Turns(s, one, none)
  BY <1>3, <1>4, <1>5, TurnsDrops DEF Stacked
<1>7. \A k \in DOMAIN s.stack : StopsOf(s.stack[k], e) => Ends(s.stack[k])
  BY <1>1, <1>3, <1>4, LeftStops
<1>8. Turns(t, {}, {}) /\ Base(t)
  BY <1>2, <1>3, <1>4, <1>6, <1>7, TurnsDequeue, BaseDequeues
<1> HIDE DEF t
<1> QED BY <1>1, <1>8, TurnsGoes

LEMMA TurnsMade == ASSUME Base(fx), Snd(fx, {}, {}, {}), Turns(fx, {}, {}), Made PROVE Turns(fx', {}, {})
<1> DEFINE f == fx.stack[Len(fx.stack)] a == Top.a e == fx.anims[a].of s == Pop(fx) yes == TRUE t == StopAnim(s, a, yes)
           none == {} one == {a}
<1>1. fx.stack # <<>> /\ f.at = "made" /\ f.a = a /\ ((fx.finish[e] /\ Goes(t)) \/ (~fx.finish[e] /\ Goes(s)))
  BY DEF Made, At, Top
<1>2. a \in Anim /\ Started(fx.anims, a) /\ e \in Elem /\ yes \in BOOLEAN /\ yes
  BY <1>1, TopIs DEF AnimFrames
<1>3. Base(s) /\ Stacked(fx, s) /\ Drops(fx.stack, s.stack) /\ s.anims = fx.anims
  BY <1>1, BasePop, PopIs DEF Base, Stacked
<1>4. none = {} /\ one \in SUBSET {a} /\ a \in one /\ f = fx.stack[Len(fx.stack)] /\ e = fx.anims[a].of
  OBVIOUS
<1>5. /\ \A d \in Elem : fx.finish[d] <=> \E k \in DOMAIN fx.stack : StopsOf(fx.stack[k], d) /\ fx.stack[k].todo # <<>>
      /\ \A k \in DOMAIN fx.stack : fx.stack[k].at \in ElemFrames /\ fx.stack[k].todo # <<>> => fx.stack[k].end
  BY DEF Turns, Finishing
<1>6. \A k \in DOMAIN fx.stack : fx.stack[k] = f \/ (k \in DOMAIN s.stack /\ s.stack[k] = fx.stack[k])
  <2>1. fx.stack \in Seq(FrameVars)
    BY FxIs DEF Base
  <2> QED BY <1>3, <1>4, <2>1, DroppedIs
<1> HIDE DEF s, f, none, one, a, e, yes
<1>7. /\ \A k \in DOMAIN s.stack : k \in DOMAIN fx.stack /\ s.stack[k] = fx.stack[k]
      /\ \A k \in DOMAIN s.stack : StopsOf(s.stack[k], e) /\ s.stack[k].todo # <<>> => fx.anims[a].queued
  <2>1. Base(fx) /\ Turns(fx, {}, {}) /\ Drops(fx.stack, s.stack) /\ f = fx.stack[Len(fx.stack)] /\ f.at = "made" /\ f.a = a
    BY <1>1, <1>3, <1>4
  <2>2. f.at \in {"end", "complete", "unqueue", "timer", "made"}
    BY <2>1
  <2>3. /\ \A k \in DOMAIN s.stack : k \in DOMAIN fx.stack /\ s.stack[k] = fx.stack[k] /\ Len(fx.stack) > k
        /\ f.at \in {"end", "complete", "unqueue", "timer", "made"} =>
             \A k \in DOMAIN s.stack : StopsOf(s.stack[k], fx.anims[f.a].of) /\ s.stack[k].todo # <<>> => fx.anims[f.a].queued
    BY ZenonT(30), <2>1, LeftStops
  <2> QED BY <1>4, <2>1, <2>2, <2>3
<1>8. CASE ~fx.finish[e] /\ Goes(s)
  <2>1. DropFits(fx, s, f, none, none)
    BY <1>1, <1>2, <1>3, <1>4, <1>5, <1>8 DEF DropFits, Hands, May, StopsOf, ElemFrames, Stacked
  <2>2. Turns(s, none, none)
    BY <1>3, <1>4, <2>1, TurnsDrops DEF Stacked
  <2> QED BY <1>3, <1>4, <1>8, <2>2, TurnsGoes
<1>9. CASE fx.finish[e] /\ Goes(t)
  <2>1. DropFits(fx, s, f, none, one)
    BY <1>1, <1>3, <1>4 DEF DropFits, Hands, May, StopsOf, ElemFrames, Stacked
  <2>2. Turns(s, {}, one)
    BY <1>3, <1>4, <2>1, TurnsDrops DEF Stacked
  <2>3. s.anims[a].stopped => s.anims[a].state # "pending" \/ Stops(s.stack, a)
    BY <1>1, <1>2, <1>3, <1>6 DEF Snd, RunningOk, Over, Stops
  <2>4. s.anims[a].attached
    <3>1. Len(fx.stack) \in DOMAIN fx.stack
      BY <1>1, TopIs
    <3> QED BY <1>1, <1>3, <1>4, <3>1 DEF Turns, AttachOk
  <2>5. PICK k \in DOMAIN s.stack : StopsOf(s.stack[k], e) /\ s.stack[k].todo # <<>> /\ s.stack[k].end
    BY <1>1, <1>2, <1>5, <1>6, <1>9 DEF StopsOf, ElemFrames
  <2>6. \A l \in DOMAIN s.stack : StopsOf(s.stack[l], e) => l = k
    BY <1>7, <2>5 DEF Snd, OneStop, StopsOf
  <2>7. \A l \in DOMAIN s.stack : StopsOf(s.stack[l], e) => Ends(s.stack[l]) /\ (s.stack[l].todo # <<>> => s.anims[a].queued)
    BY <1>3, <1>7, <2>5, <2>6 DEF Ends
  <2>8. Turns(t, {}, {}) /\ Base(t)
    BY <1>2, <1>3, <1>4, <2>2, <2>3, <2>4, <2>5, <2>7, TurnsStopAnim, BaseStopAnim
  <2> HIDE DEF t
  <2> QED BY <1>9, <2>8, TurnsGoes
<1> QED BY <1>1, <1>8, <1>9

LEMMA TurnsStopEnds == ASSUME Base(fx), Snd(fx, {}, {}, {}), Turns(fx, {}, {}), StopEnds PROVE Turns(fx', {}, {})
<1> DEFINE f == fx.stack[Len(fx.stack)] e == f.a s == Pop(fx) t == Dequeue(s, e) none == {} one == {e}
<1>1. fx.stack # <<>> /\ f.at = "loop" /\ f.i = 0 /\ f.todo = <<>>
      /\ (((f.dequeue \/ ~f.end) /\ Goes(t)) \/ (~f.dequeue /\ f.end /\ Goes(s)))
  BY DEF StopEnds, At, Top
<1>2. e \in Elem /\ Len(fx.stack) \in DOMAIN fx.stack
  BY <1>1, TopIs DEF ElemFrames
<1>3. Base(s) /\ Stacked(fx, s) /\ Drops(fx.stack, s.stack)
  BY <1>1, BasePop, PopIs DEF Base
<1>4. none = {} /\ one = {e} /\ f = fx.stack[Len(fx.stack)] /\ e = f.a
  OBVIOUS
<1>5. /\ \A k \in DOMAIN fx.stack : ~Hands(fx.anims, fx.stack[k], e)
      /\ HasTurn(fx.stack, fx.anims, e) => Follows(f, fx.queue[e])
  BY <1>1, StopIsOver
<1>6. /\ \A k \in DOMAIN fx.stack : fx.stack[k].at \in ElemFrames => k = Len(fx.stack)
      /\ \A k \in DOMAIN s.stack : ~StopsOf(s.stack[k], e)
  <2>1. \A k \in DOMAIN fx.stack : fx.stack[k].at \in ElemFrames => k = Len(fx.stack)
    BY <1>1, <1>2 DEF Snd, OneStop, ElemFrames
  <2>2. fx.stack \in Seq(FrameVars)
    BY FxIs DEF Base
  <2> QED BY <1>3, <2>1, <2>2, DroppedIs DEF StopsOf
<1> HIDE DEF s, f, none, one, e
<1>7. \A d \in Elem : ~Hands(fx.anims, f, d)
  BY <1>1 DEF Hands
<1>8. CASE (f.dequeue \/ ~f.end) /\ Goes(t)
  <2>1. ~HasTurn(fx.stack, fx.anims, e)
    BY <1>5, <1>8 DEF Follows
  <2>2. DropFits(fx, s, f, one, none)
    BY <1>1, <1>3, <1>4, <1>6, <1>7, <2>1 DEF DropFits, May, StopsOf, ElemFrames, Stacked
  <2>3. Turns(s, one, none)
    BY <1>3, <1>4, <2>2, TurnsDrops DEF Stacked
  <2>4. Turns(t, {}, {}) /\ Base(t)
    BY <1>2, <1>3, <1>4, <1>6, <2>3, TurnsDequeue, BaseDequeues
  <2> HIDE DEF t
  <2> QED BY <1>8, <2>4, TurnsGoes
<1>9. CASE ~f.dequeue /\ f.end /\ Goes(s)
  <2>1. fx.queue[e] = <<>> => ~HasTurn(fx.stack, fx.anims, e)
    BY <1>5 DEF Follows
  <2>2. DropFits(fx, s, f, none, none)
    BY <1>1, <1>3, <1>4, <1>6, <1>7, <1>9, <2>1 DEF DropFits, May, StopsOf, ElemFrames, Stacked
  <2>3. Turns(s, none, none)
    BY <1>3, <1>4, <2>2, TurnsDrops DEF Stacked
  <2> QED BY <1>3, <1>4, <1>9, <2>3, TurnsGoes
<1> QED BY <1>1, <1>8, <1>9
-----------------------------------------------------------------------------
\* The loops of stop and finish.
LEMMA OnlyTop ==
    ASSUME NEW s, Base(s), OneStop(s.stack), s.stack # <<>>, s.stack[Len(s.stack)].at \in ElemFrames
    PROVE  \A k \in DOMAIN s.stack : s.stack[k].at \in ElemFrames => k = Len(s.stack)
BY TopIs DEF OneStop

\* A stop that goes on, with the same timers.
LEMMA TurnsGoesOn ==
    ASSUME NEW s, NEW t, NEW f, NEW g, NEW V \in SUBSET {f.a}, NEW Y, Base(s), Turns(s, {}, {}), OneStop(s.stack),
           Stacked(s, t), Puts(s.stack, g, t.stack), f = s.stack[Len(s.stack)],
           f.at \in ElemFrames, g.at \in ElemFrames, g.a = f.a, g.end = f.end, g.todo # <<>> <=> f.todo # <<>>,
           f.a \in V => ~HasTurn(s.stack, s.anims, f.a),
           May(f, f.a) => May(g, f.a) \/ HasTurn(s.stack, s.anims, f.a) \/ Beside(s.stack, s.anims, f.a) # {},
           \A a \in Anim : Serves(s.anims, a, f.a) =>
             /\ Reaches(s.stack, Len(s.stack), s.timers, a) => a \in Y \/ Reaches(t.stack, Len(s.stack), s.timers, a)
             /\ Follows(f, s.queue[f.a]) => Follows(g, s.queue[f.a])
    PROVE  Turns(t, V, Y)
<1>1. s.stack # <<>> /\ f.a \in Elem
  BY TopIs DEF Puts
<1>2. /\ t.anims = s.anims /\ t.queue = s.queue /\ t.hooks = s.hooks /\ t.finish = s.finish /\ t.timers = s.timers
  BY DEF Stacked
<1>3. \A k \in DOMAIN s.stack : s.stack[k].at \in ElemFrames => k = Len(s.stack)
  BY <1>1, OnlyTop
<1>4. Will(f, f.a) => Will(g, f.a)
  BY DEF Will, StopsOf
<1>5. StopFits(s, t, f, g, V, Y)
  BY <1>1, <1>2, <1>3, <1>4 DEF StopFits
<1> QED BY <1>2, <1>5, TurnsStops

LEMMA TurnsStopStart == ASSUME Base(fx), Snd(fx, {}, {}, {}), Turns(fx, {}, {}), StopStart PROVE Turns(fx', {}, {})
<1> DEFINE n == Len(fx.timers) g == [Top EXCEPT !.at = "loop", !.i = n] t == GoTo(fx, g) none == {} f == Top
<1>1. fx.stack # <<>> /\ f = fx.stack[Len(fx.stack)] /\ Goes(t) /\ f.at = "stop"
  BY DEF StopStart, At, Top
<1>2. Top \in FrameVars /\ n \in Nat /\ f.a \in Elem /\ none = {} /\ none \in SUBSET {f.a} /\ DOMAIN fx.timers = 1 .. n
  <2>1. fx.timers \in Seq(Anim)
    BY FxIs DEF Base
  <2> QED BY <1>1, <2>1, TopIs DEF ElemFrames
<1> HIDE DEF n, none
<1>3. g \in FrameVars /\ g.at = "loop" /\ g.i = n /\ g.a = f.a /\ g.todo = f.todo /\ g.end = f.end /\ g.dequeue = f.dequeue
  BY <1>2 DEF FrameVars, Places
<1> HIDE DEF g, f
<1>4. FrameGoesOn(fx.anims, f, g)
  BY <1>1, <1>2, <1>3, ElemGoesOn DEF ElemFrames, f
<1>5. Base(t) /\ Stacked(fx, t) /\ Puts(fx.stack, g, t.stack)
  BY <1>1, <1>4, BaseGoTo DEF Top
<1> HIDE DEF t
<1>6. t.stack[Len(fx.stack)] = g
  BY <1>5 DEF Puts
<1>7. \A a \in Anim : Reaches(fx.stack, Len(fx.stack), fx.timers, a) => Reaches(t.stack, Len(fx.stack), fx.timers, a)
  BY <1>2, <1>3, <1>6 DEF Reaches
<1>8. /\ May(f, f.a) => May(g, f.a)
      /\ Follows(f, fx.queue[f.a]) => Follows(g, fx.queue[f.a])
  BY <1>1, <1>2, <1>3 DEF May, StopsOf, Follows, ElemFrames
<1>9. OneStop(fx.stack) /\ f.at \in ElemFrames /\ g.at \in ElemFrames
  BY <1>1, <1>3 DEF Snd, ElemFrames
<1>10. Turns(t, none, none)
  BY <1>1, <1>2, <1>3, <1>5, <1>7, <1>8, <1>9, TurnsGoesOn
<1> QED BY <1>1, <1>2, <1>5, <1>10, TurnsGoes

\* Position by position, down from the last.
LEMMA TurnsLess ==
    ASSUME Base(fx), Snd(fx, {}, {}, {}), Turns(fx, {}, {}), fx.stack # <<>>, Top.at = "loop", Top.i > 0,
           ~(fx.anims[fx.timers[Top.i]].elem /\ fx.anims[fx.timers[Top.i]].of = Top.a
               /\ (Top.todo # <<>> => fx.anims[fx.timers[Top.i]].queued)),
           Goes(GoTo(fx, [Top EXCEPT !.i = @ - 1]))
    PROVE  Turns(fx', {}, {})
<1> DEFINE f == Top n == f.i - 1 g == [Top EXCEPT !.i = n] t == GoTo(fx, g) none == {}
<1>1. /\ fx.stack # <<>> /\ f = fx.stack[Len(fx.stack)] /\ Goes(t) /\ f.at = "loop" /\ Top.at = "loop"
      /\ Top \in FrameVars /\ f.i \in Nat /\ f.i > 0 /\ f.a \in Elem /\ none = {} /\ none \in SUBSET {f.a}
  <2>1. Top = fx.stack[Len(fx.stack)]
    BY DEF Top
  <2>2. Top \in FrameVars /\ Top.a \in Elem
    BY <2>1, TopIs DEF ElemFrames
  <2> QED BY <2>1, <2>2, FrameIs
<1>2. n \in Nat
  <2>1. \A m \in Nat : m > 0 => m - 1 \in Nat
    OBVIOUS
  <2>2. f.i \in Nat /\ f.i > 0
    BY <1>1
  <2> HIDE DEF f
  <2> QED BY <2>1, <2>2
<1> HIDE DEF none
<1>3. g \in FrameVars /\ g.at = "loop" /\ g.i = n /\ g.a = f.a /\ g.todo = f.todo /\ g.end = f.end /\ g.dequeue = f.dequeue
  <2> HIDE DEF n
  <2> QED BY <1>1, <1>2 DEF FrameVars, Places
<1>4. ~(fx.anims[fx.timers[f.i]].elem /\ fx.anims[fx.timers[f.i]].of = f.a /\ (f.todo # <<>> => fx.anims[fx.timers[f.i]].queued))
  OBVIOUS
<1> HIDE DEF g, f
<1>5. FrameGoesOn(fx.anims, f, g)
  BY <1>1, <1>3, ElemGoesOn DEF ElemFrames, f
<1>6. Base(t) /\ Stacked(fx, t) /\ Puts(fx.stack, g, t.stack)
  BY <1>1, <1>5, BaseGoTo
<1> HIDE DEF t
<1>7. t.stack[Len(fx.stack)] = g
  BY <1>6 DEF Puts
<1>8. \A a \in Anim : Serves(fx.anims, a, f.a) =>
        /\ Reaches(fx.stack, Len(fx.stack), fx.timers, a) => Reaches(t.stack, Len(fx.stack), fx.timers, a)
        /\ Follows(f, fx.queue[f.a]) => Follows(g, fx.queue[f.a])
  <2> SUFFICES ASSUME NEW a \in Anim, Serves(fx.anims, a, f.a)
               PROVE  /\ Reaches(fx.stack, Len(fx.stack), fx.timers, a) => Reaches(t.stack, Len(fx.stack), fx.timers, a)
                      /\ Follows(f, fx.queue[f.a]) => Follows(g, fx.queue[f.a])
    OBVIOUS
  <2>1. fx.anims[a].elem /\ fx.anims[a].of = f.a /\ fx.anims[a].queued
    BY DEF Serves, Turns, AttachOk
  <2>2. fx.timers[f.i] # a
    BY <1>4, <2>1
  <2>3. fx.timers \in Seq(Anim)
    BY FxIs DEF Base
  <2>4. \A j \in DOMAIN fx.timers : j <= f.i /\ j # f.i => j <= n
    BY <1>1, <2>3
  <2>5. Reaches(fx.stack, Len(fx.stack), fx.timers, a) => Reaches(t.stack, Len(fx.stack), fx.timers, a)
    BY <1>1, <1>3, <1>7, <2>2, <2>4 DEF Reaches
  <2> QED BY <1>3, <2>5 DEF Follows
<1>9. OneStop(fx.stack) /\ f.at \in ElemFrames /\ g.at \in ElemFrames /\ (May(f, f.a) => May(g, f.a))
  BY <1>1, <1>3 DEF Snd, ElemFrames, May, StopsOf
<1>10. Turns(t, none, none)
  BY <1>1, <1>3, <1>6, <1>8, <1>9, TurnsGoesOn
<1> QED BY <1>1, <1>6, <1>10, TurnsGoes

LEMMA TurnsMine ==
    ASSUME Base(fx), Snd(fx, {}, {}, {}), Turns(fx, {}, {}), fx.stack # <<>>, Top.at = "loop", Top.i > 0,
           Top.i <= Len(fx.timers),
           fx.anims[fx.timers[Top.i]].elem, fx.anims[fx.timers[Top.i]].of = Top.a,
           Top.todo # <<>> => fx.anims[fx.timers[Top.i]].queued,
           Goes(StopAnim(GoTo(fx, [Top EXCEPT !.at = "splice", !.dequeue = FALSE]), fx.timers[Top.i], Top.end))
    PROVE  Turns(fx', {}, {})
<1>0. PICK no \in BOOLEAN : no = FALSE
  OBVIOUS
<1> DEFINE f == Top a == fx.timers[f.i] g == [Top EXCEPT !.at = "splice", !.dequeue = no] t == GoTo(fx, g)
           u == StopAnim(t, a, f.end) none == {}
<1>1. /\ fx.stack # <<>> /\ f = fx.stack[Len(fx.stack)] /\ Goes(u) /\ f.at = "loop"
      /\ fx.anims[a].elem /\ fx.anims[a].of = f.a /\ (f.todo # <<>> => fx.anims[a].queued)
  BY <1>0 DEF Top
<1>2. Top \in FrameVars /\ f.i \in Nat /\ f.end \in BOOLEAN /\ f.a \in Elem /\ none = {} /\ none \in SUBSET {f.a}
  BY <1>1, TopIs, FrameIs DEF ElemFrames
<1>3. /\ g \in FrameVars /\ g.at = "splice" /\ g.i = f.i /\ g.a = f.a /\ g.todo = f.todo /\ g.end = f.end
      /\ ~g.dequeue
  BY <1>0, <1>2 DEF FrameVars, Places
<1>4. a \in Anim /\ Started(fx.anims, a) /\ f.i >= 1
  <2>1. fx.timers \in Seq(Anim) /\ f.i \in DOMAIN fx.timers /\ f.i >= 1
    BY <1>2, FxIs DEF Base
  <2> QED BY <2>1 DEF Base, TimersOk
<1> HIDE DEF none, g, f, a
<1>5. FrameGoesOn(fx.anims, f, g)
  BY <1>1, <1>2, <1>3, <1>4, ElemGoesOn DEF ElemFrames, f
<1>6. Base(t) /\ Stacked(fx, t) /\ Puts(fx.stack, g, t.stack)
  BY <1>1, <1>5, BaseGoTo
<1> HIDE DEF t
<1>7. /\ t.anims = fx.anims /\ t.timers = fx.timers /\ t.queue = fx.queue
      /\ Len(fx.stack) \in DOMAIN fx.stack /\ Len(fx.stack) \in DOMAIN t.stack /\ t.stack[Len(fx.stack)] = g
      /\ \A k \in DOMAIN fx.stack : k # Len(fx.stack) => k \in DOMAIN t.stack /\ t.stack[k] = fx.stack[k]
      /\ \A k \in DOMAIN t.stack : k \in DOMAIN fx.stack
      /\ \A k \in DOMAIN fx.stack : ~(k > Len(fx.stack))
  <2>1. fx.stack \in Seq(FrameVars)
    BY FxIs DEF Base
  <2> QED BY <1>6, <2>1 DEF Puts, Stacked
<1>8. /\ OneStop(fx.stack) /\ f.at \in ElemFrames /\ g.at \in ElemFrames
      /\ \A k \in DOMAIN fx.stack : fx.stack[k].at \in ElemFrames => k = Len(fx.stack)
  BY <1>1, <1>3, OnlyTop DEF Snd, ElemFrames
<1>9. fx.anims[a].state = "pending"
  BY <1>1, <1>4 DEF Turns, AttachOk
<1>10. HasTurn(fx.stack, fx.anims, f.a) \/ Beside(fx.stack, fx.anims, f.a) # {}
  BY <1>1, <1>4, <1>9 DEF HasTurn, Serves, Beside
<1>11. \A b \in Anim : /\ Reaches(fx.stack, Len(fx.stack), fx.timers, b) => Reaches(t.stack, Len(fx.stack), fx.timers, b)
                       /\ Follows(f, fx.queue[f.a]) => Follows(g, fx.queue[f.a])
  BY <1>1, <1>3, <1>7 DEF Reaches, Follows
<1>12. Turns(t, none, none)
  BY <1>1, <1>2, <1>3, <1>6, <1>8, <1>10, <1>11, TurnsGoesOn
<1>13. \A k \in DOMAIN t.stack : StopsOf(t.stack[k], f.a) => k = Len(fx.stack)
  BY <1>7, <1>8 DEF StopsOf
<1>14. StopsOf(g, f.a)
  BY <1>3, <1>8 DEF StopsOf
<1>15. t.anims[a].stopped => t.anims[a].state # "pending" \/ Stops(t.stack, a)
  <2>1. fx.anims[a].stopped => Stops(fx.stack, a)
    BY <1>4, <1>9 DEF Snd, RunningOk, Over
  <2>2. Stops(fx.stack, a) => Stops(t.stack, a)
    BY <1>1, <1>7 DEF Stops
  <2> QED BY <1>7, <2>1, <2>2
<1>16. ~f.end => Ready(t, a, "rejected")
  <2> HAVE ~f.end
  <2>1. f.todo = <<>>
    BY <1>1, <1>7, <1>8, <2>1 DEF Turns, Finishing
  <2>2. Will(g, f.a)
    BY <1>3, <1>14, <2>1 DEF Will
  <2> QED BY <1>1, <1>3, <1>7, <1>13, <2>1, <2>2 DEF Ready
<1>17. f.end => /\ t.anims[a].attached
                /\ \E k \in DOMAIN t.stack : StopsOf(t.stack[k], t.anims[a].of)
                /\ \A k \in DOMAIN t.stack : StopsOf(t.stack[k], t.anims[a].of) =>
                     Ends(t.stack[k]) /\ (t.stack[k].todo # <<>> => t.anims[a].queued)
  <2> HAVE f.end
  <2>1. fx.anims[a].attached
    <3> SUFFICES ASSUME ~fx.anims[a].attached PROVE FALSE
      OBVIOUS
    <3>1. PICK k \in DOMAIN fx.stack : fx.stack[k].at = "timer" /\ fx.stack[k].a = a
      BY <1>4, <1>9 DEF Turns, AttachOk
    <3>2. StopsOf(fx.stack[Len(fx.stack)], fx.anims[fx.stack[k].a].of)
      BY <1>1, <1>8, <3>1 DEF StopsOf
    <3>3. k > Len(fx.stack)
      BY <1>7, <3>1, <3>2 DEF Turns, Within
    <3> QED BY <1>7, <3>3
  <2>2. Ends(g)
    BY <1>3 DEF Ends
  <2> QED BY <1>1, <1>3, <1>7, <1>13, <1>14, <2>1, <2>2
<1>18. Turns(t, {}, none)
  BY <1>2, <1>12
<1>19. Turns(u, {}, {}) /\ Base(u)
  <2>1. none \in SUBSET {a} /\ Started(t.anims, a)
    BY <1>2, <1>4, <1>7
  <2> QED BY <1>2, <1>4, <1>6, <1>15, <1>16, <1>17, <1>18, <2>1, TurnsStopAnim, BaseStopAnim
<1> HIDE DEF u
<1> QED BY <1>1, <1>19, TurnsGoes

LEMMA TurnsStopLoop == ASSUME Base(fx), Snd(fx, {}, {}, {}), Turns(fx, {}, {}), StopLoop, odd' = {} PROVE Turns(fx', {}, {})
<1>1. fx.stack # <<>> /\ Top.at = "loop" /\ Top.i > 0
  BY DEF StopLoop, At
<1> DEFINE mine == /\ fx.anims[fx.timers[Top.i]].elem /\ fx.anims[fx.timers[Top.i]].of = Top.a
                   /\ (Top.todo # <<>> => fx.anims[fx.timers[Top.i]].queued)
<1>2. \/ /\ Top.i <= Len(fx.timers) /\ mine
         /\ Goes(StopAnim(GoTo(fx, [Top EXCEPT !.at = "splice", !.dequeue = FALSE]), fx.timers[Top.i], Top.end))
      \/ ~mine /\ Goes(GoTo(fx, [Top EXCEPT !.i = @ - 1]))
  <2>1. ~(odd' = odd \cup {"thrown"})
    OBVIOUS
  <2> QED BY <2>1 DEF StopLoop
<1> QED BY <1>1, <1>2, TurnsMine, TurnsLess

LEMMA TurnsSplice == ASSUME Base(fx), Snd(fx, {}, {}, {}), Turns(fx, {}, {}), Splice PROVE Turns(fx', {}, {})
<1> DEFINE n == Top.i - 1 g == [Top EXCEPT !.at = "loop", !.i = n] f == Top
           tm == SplicedTimers u == [fx EXCEPT !.timers = tm] t == GoTo(u, g) none == {}
<1>1. fx.stack # <<>> /\ f.at = "splice" /\ Top.at = "splice" /\ Goes(t) /\ fx.stack[Len(fx.stack)] = f
  BY Zenon DEF Splice, At, SplicedTimers, Top
<1>2. Top \in FrameVars /\ f.a \in Elem /\ Len(fx.stack) \in DOMAIN fx.stack /\ none = {} /\ none \in SUBSET {f.a}
  BY <1>1, TopIs DEF ElemFrames
<1>3. /\ fx.timers \in Seq(Anim) /\ f.i \in Nat /\ n \in Nat /\ tm \in Seq(Anim) /\ f.i >= 1
      /\ \A j \in DOMAIN tm : \E i \in DOMAIN fx.timers : tm[j] = fx.timers[i]
  BY <1>1, SplicedAre
<1>4. /\ f.i <= Len(fx.timers)
      /\ Over(fx.anims, {}, fx.timers[f.i]) \/ Stops(fx.stack, fx.timers[f.i])
  BY <1>1, <1>2 DEF Snd, SpliceOk
<1>5. \A j \in DOMAIN fx.timers : j <= f.i /\ j # f.i => j \in DOMAIN tm /\ j <= n /\ tm[j] = fx.timers[j]
  <2>1. f.i \in 1 .. Len(fx.timers)
    BY <1>3, <1>4
  <2>2. tm = RemoveAt(fx.timers, f.i)
    BY <1>4 DEF SplicedTimers
  <2>3. /\ Len(tm) = Len(fx.timers) - 1
        /\ \A k \in 1 .. Len(fx.timers) - 1 : tm[k] = IF k < f.i THEN fx.timers[k] ELSE fx.timers[k + 1]
    BY <1>3, <2>1, <2>2, RemoveAtIs
  <2>4. n = f.i - 1
    OBVIOUS
  <2>5. PICK i \in Nat : i = f.i
    BY <1>3
  <2> HIDE DEF tm, n, f
  <2>6. /\ tm \in Seq(Anim) /\ i \in 1 .. Len(fx.timers) /\ n = i - 1 /\ DOMAIN fx.timers = 1 .. Len(fx.timers)
        /\ Len(fx.timers) \in Nat /\ DOMAIN tm = 1 .. Len(fx.timers) - 1
    BY <1>3, <2>1, <2>3, <2>4, <2>5
  <2>7. \A k \in 1 .. Len(fx.timers) - 1 : k < i => tm[k] = fx.timers[k]
    BY <2>3, <2>5
  <2>8. \A j \in DOMAIN fx.timers : j <= i /\ j # i => j \in DOMAIN tm /\ j <= n /\ tm[j] = fx.timers[j]
    BY <2>6, <2>7
  <2> QED BY <2>5, <2>8
<1> HIDE DEF n, tm, none
<1>6. g \in FrameVars /\ g.at = "loop" /\ g.i = n /\ g.a = f.a /\ g.todo = f.todo /\ g.end = f.end /\ g.dequeue = f.dequeue
  BY <1>2, <1>3 DEF FrameVars, Places
<1>7. Timed(fx, u) /\ u.timers = tm
  BY <1>3, TimersAre DEF Base
<1> HIDE DEF u, g
<1>8. Base(u)
  BY <1>3, <1>7, BaseTimed
<1>9. u.stack = fx.stack /\ u.anims = fx.anims
  BY <1>7 DEF Timed
<1>10. FrameGoesOn(u.anims, u.stack[Len(u.stack)], g)
  BY <1>1, <1>2, <1>6, <1>9, ElemGoesOn DEF ElemFrames
<1>11. Base(t) /\ Stacked(u, t) /\ Puts(fx.stack, g, t.stack)
  BY <1>1, <1>8, <1>9, <1>10, BaseGoTo
<1> HIDE DEF t
<1>12. /\ t.timers = tm /\ t.anims = fx.anims /\ t.queue = fx.queue /\ t.hooks = fx.hooks /\ t.finish = fx.finish
       /\ t.stack[Len(fx.stack)] = g
  BY <1>7, <1>11 DEF Stacked, Timed, Puts
<1> HIDE DEF f
<1>13. /\ f.at \in ElemFrames /\ g.at \in ElemFrames
       /\ \A k \in DOMAIN fx.stack : fx.stack[k].at \in ElemFrames => k = Len(fx.stack)
       /\ \A k \in DOMAIN fx.stack : ~(k > Len(fx.stack))
  BY <1>1, <1>6, OnlyTop, TopIs DEF Snd, ElemFrames
<1>14. \A a \in Anim : Serves(fx.anims, a, f.a) /\ (Reaches(fx.stack, Len(fx.stack), fx.timers, a) \/ Follows(f, fx.queue[f.a])) =>
         Reaches(t.stack, Len(fx.stack), t.timers, a) \/ Follows(g, fx.queue[f.a])
  <2> SUFFICES ASSUME NEW a \in Anim, Serves(fx.anims, a, f.a), Reaches(fx.stack, Len(fx.stack), fx.timers, a)
               PROVE  Reaches(t.stack, Len(fx.stack), t.timers, a)
    BY <1>6 DEF Follows
  <2>1. PICK j \in DOMAIN fx.timers : fx.timers[j] = a /\ j <= f.i
    BY <1>1 DEF Reaches
  <2>2. j # f.i
    <3> SUFFICES ASSUME j = f.i PROVE FALSE
      OBVIOUS
    <3>1. PICK k \in DOMAIN fx.stack : fx.stack[k].at = "end" /\ fx.stack[k].a = a
      BY <1>4, <2>1 DEF Over, Serves, Stops
    <3>2. StopsOf(fx.stack[Len(fx.stack)], fx.anims[fx.stack[k].a].of)
      BY <1>1, <1>13, <3>1 DEF StopsOf, Serves
    <3>3. k > Len(fx.stack)
      BY <1>2, <3>1, <3>2 DEF Turns, Within
    <3> QED BY <1>13, <3>3
  <2>3. j \in DOMAIN tm /\ j <= n /\ tm[j] = a
    BY <1>5, <2>1, <2>2
  <2> QED BY <1>6, <1>12, <2>3 DEF Reaches
<1>15. /\ May(f, f.a) => May(g, f.a)
       /\ Will(f, f.a) => Will(g, f.a)
  BY <1>6, <1>13 DEF May, Will, StopsOf
<1>16. StopFits(fx, t, f, g, none, none)
  BY <1>2, <1>6, <1>13, <1>14, <1>15 DEF StopFits
<1>17. Turns(t, none, none)
  BY <1>1, <1>2, <1>11, <1>12, <1>16, TurnsStops
<1> QED BY <1>1, <1>2, <1>11, <1>17, TurnsGoes

LEMMA FinishSetAt ==
    ASSUME NEW s \in FxVars, NEW e \in Elem, NEW b \in BOOLEAN
    PROVE  /\ FinishSet(s, e, b).finish[e] = b
           /\ \A d \in Elem : d # e => FinishSet(s, e, b).finish[d] = s.finish[d]
<1> DEFINE x == [s.finish EXCEPT ![e] = b]
<1>1. FinishSet(s, e, b) = [s EXCEPT !.finish = x]
  BY Zenon DEF FinishSet
<1>2. x \in [Elem -> BOOLEAN] /\ x[e] = b /\ \A d \in Elem : d # e => x[d] = s.finish[d]
  BY FxIs
<1> HIDE DEF x
<1>3. [s EXCEPT !.finish = x].finish = x
  BY DEF FxVars
<1> QED BY <1>1, <1>2, <1>3

\* finish is over.
LEMMA TurnsFinished ==
    ASSUME Base(fx), Snd(fx, {}, {}, {}), Turns(fx, {}, {}), fx.stack # <<>>, Top.at = "loop", Top.i = 0,
           Top.todo # <<>>
    PROVE  Base(FinishSet(Pop(fx), Top.a, FALSE)) /\ Turns(FinishSet(Pop(fx), Top.a, FALSE), {}, {})
<1>0. PICK no \in BOOLEAN : no = FALSE
  OBVIOUS
<1> DEFINE f == Top e == f.a s == Pop(fx) t == FinishSet(s, e, no) none == {}
<1>1. f = fx.stack[Len(fx.stack)] /\ f.at = "loop" /\ f.i = 0 /\ f.todo # <<>>
  BY DEF Top
<1>2. e \in Elem /\ none = {} /\ e = f.a /\ fx.stack # <<>>
  BY <1>1, TopIs DEF ElemFrames
<1>3. Base(s) /\ Stacked(fx, s) /\ Drops(fx.stack, s.stack) /\ s \in FxVars
  BY BasePop, PopIs DEF Base
<1> HIDE DEF s, f, none, e
<1>4. /\ Flagged(s, t) /\ ~t.finish[e]
      /\ \A d \in Elem : d # e => t.finish[d] = s.finish[d]
  BY <1>0, <1>2, <1>3, FinishSetIs, FinishSetAt
<1> HIDE DEF t
<1>5. Base(t) /\ t.stack = s.stack
  BY <1>3, <1>4, BaseFlagged DEF Flagged
<1>6. /\ t.anims = fx.anims /\ t.timers = fx.timers /\ t.queue = fx.queue /\ t.hooks = fx.hooks /\ s.finish = fx.finish
  BY <1>3, <1>4 DEF Flagged, Stacked
<1>7. ~HasTurn(fx.stack, fx.anims, e)
  BY <1>1, <1>2, StopIsOver DEF Follows
<1>8. \A k \in DOMAIN fx.stack : fx.stack[k].at \in ElemFrames => k = Len(fx.stack)
  BY <1>1, <1>2, OnlyTop DEF Snd, ElemFrames
<1>9. \A d \in Elem : t.finish[d] <=> fx.finish[d] /\ ~(StopsOf(f, d) /\ f.todo # <<>>)
  BY <1>1, <1>2, <1>4, <1>6 DEF StopsOf, ElemFrames
<1>10. DropFits(fx, t, f, none, none)
  BY <1>1, <1>2, <1>7, <1>8, <1>9 DEF DropFits, Hands, May, StopsOf, ElemFrames
<1>11. Turns(t, none, none)
  BY <1>1, <1>3, <1>5, <1>6, <1>10, TurnsDrops
<1> QED BY <1>0, <1>2, <1>5, <1>11 DEF t, s, e, f

LEMMA TurnsFinishNext == ASSUME Base(fx), Snd(fx, {}, {}, {}), Turns(fx, {}, {}), FinishNext PROVE Turns(fx', {}, {})
<1> DEFINE f == Top q == f.todo r == Tail(q) g == FinishFrame p == FinishSet(Pop(fx), Top.a, FALSE) e == f.a
           t == GoTo(fx, g) u == DoAnimation(t, Head(r)) none == {} one == {e}
<1>1. /\ fx.stack # <<>> /\ Top.at = "loop" /\ Top.i = 0 /\ Top.todo # <<>>
      /\ f = fx.stack[Len(fx.stack)] /\ f.at = "loop" /\ f.i = 0 /\ q # <<>>
      /\ Goes(IF r = <<>> THEN p ELSE IF Head(r) = InProgress THEN t ELSE u)
  BY DEF FinishNext, At, FinishSet, FinishFrame, Top
<1>2. /\ f \in FrameVars /\ e \in Elem /\ g \in FrameVars /\ g.at = "loop" /\ g.a = e /\ g.todo = r
      /\ Base(t) /\ Stacked(fx, t) /\ Puts(fx.stack, g, t.stack)
      /\ r # <<>> => Head(r) = q[2] /\ 2 \in DOMAIN q
  BY <1>1, FinishIs
<1>3. g.end = f.end
  <2> HIDE DEF r, q
  <2> QED BY <1>2 DEF FinishFrame, FrameVars
<1>4. none = {} /\ one = {e} /\ none \in SUBSET {f.a} /\ one \in SUBSET {f.a} /\ e = f.a
  OBVIOUS
<1>5. Base(p) /\ Turns(p, {}, {})
  BY <1>1, TurnsFinished
<1> HIDE DEF none, one, p, f, g, r, t, u, e
<1>6. /\ \A a \in Anim : ~Serves(fx.anims, a, e)
      /\ ~HasTurn(fx.stack, fx.anims, e)
  <2>1. ~Follows(f, fx.queue[e])
    BY <1>1 DEF Follows
  <2> QED BY <1>1, <1>4, <2>1, StopIsOver
<1>7. f.end
  BY <1>1, TopIs DEF Turns, Finishing, ElemFrames
<1>8. OneStop(fx.stack) /\ f.at \in ElemFrames /\ g.at \in ElemFrames /\ ~May(f, f.a)
  BY <1>1, <1>2 DEF Snd, ElemFrames, May
<1>9. r # <<>> => \A V \in SUBSET {f.a} : Turns(t, V, none)
  <2> SUFFICES ASSUME r # <<>>, NEW V \in SUBSET {f.a} PROVE Turns(t, V, none)
    OBVIOUS
  <2>1. /\ Base(fx) /\ Turns(fx, {}, {}) /\ OneStop(fx.stack) /\ Stacked(fx, t) /\ Puts(fx.stack, g, t.stack)
        /\ f = fx.stack[Len(fx.stack)] /\ f.at \in ElemFrames /\ g.at \in ElemFrames /\ g.a = f.a /\ g.end = f.end
        /\ g.todo # <<>> /\ f.todo # <<>>
    BY <1>1, <1>2, <1>3, <1>4, <1>8
  <2>2. ~HasTurn(fx.stack, fx.anims, f.a) /\ ~May(f, f.a) /\ \A a \in Anim : ~Serves(fx.anims, a, f.a)
    BY <1>4, <1>6, <1>8
  <2> QED BY <2>1, <2>2, TurnsGoesOn
<1>10. ASSUME r # <<>>, Head(r) # InProgress PROVE Turns(u, {}, {}) /\ Base(u)
  <2> DEFINE a == Head(r)
  <2>1. 2 \in DOMAIN q /\ a = q[2] /\ a # InProgress
    BY <1>2, <1>10
  <2> HIDE DEF a
  <2>2. a \in Anim /\ fx.anims[a].state = "queued" /\ fx.anims[a].queued /\ fx.anims[a].of = e
    <3>1. f.at = "loop" /\ 2 \in DOMAIN f.todo /\ a = f.todo[2]
      BY <1>1, <2>1
    <3> HIDE DEF q
    <3> QED BY <1>1, <1>4, <2>1, <3>1, NextIs
  <2>3. t.anims = fx.anims /\ t.queue = fx.queue
    BY <1>2 DEF Stacked
  <2>4. \A k \in DOMAIN t.stack : StopsOf(t.stack[k], e) => t.stack[k] = g
    <3>1. \A k \in DOMAIN fx.stack : fx.stack[k].at \in ElemFrames => k = Len(fx.stack)
      BY <1>1, <1>8, OnlyTop
    <3>2. fx.stack \in Seq(FrameVars)
      BY FxIs DEF Base
    <3>3. \A k \in DOMAIN t.stack : k \in DOMAIN fx.stack /\ (t.stack[k] = g \/ t.stack[k] = fx.stack[k])
      BY <1>2, <3>2 DEF Puts
    <3>4. t.stack[Len(fx.stack)] = g
      BY <1>2 DEF Puts
    <3> QED BY <3>1, <3>3, <3>4 DEF StopsOf
  <2>5. \E k \in DOMAIN t.stack : StopsOf(t.stack[k], e) /\ t.stack[k].todo # <<>>
    <3>1. fx.stack \in Seq(FrameVars)
      BY FxIs DEF Base
    <3>2. Len(fx.stack) \in DOMAIN t.stack /\ t.stack[Len(fx.stack)] = g
      BY <1>2, <3>1, EmptySeq DEF Puts
    <3> QED BY <1>2, <1>8, <1>10, <3>2 DEF StopsOf
  <2>6. MayStart(t, a, one)
    BY <1>2, <1>3, <1>4, <1>7, <1>10, <2>2, <2>3, <2>4, <2>5 DEF MayStart, Ends
  <2>7. Turns(t, one, {}) /\ one \in SUBSET {t.anims[a].of} /\ t.anims[a].state = "queued"
    BY <1>4, <1>9, <1>10, <2>2, <2>3
  <2>8. Turns(DoAnimation(t, a), {}, {})
    BY <1>2, <2>2, <2>6, <2>7, TurnsDoAnimation
  <2>9. Base(u)
    BY <1>1, <1>10, BaseFinishes DEF t, a, u, r, f, g
  <2> QED BY <2>8, <2>9 DEF a, u
<1>11. r # <<>> => Turns(t, {}, {})
  BY <1>4, <1>9
<1> QED BY <1>1, <1>2, <1>5, <1>10, <1>11, TurnsGoes
-----------------------------------------------------------------------------
\* One animation beside the queue less: the one that the call is about.
LEMMA BesideLess ==
    ASSUME NEW stk \in Seq(FrameVars), NEW st, NEW an, NEW a \in Anim, NEW e \in Elem,
           Drops(stk, st), LeaveOk(stk, an), stk[Len(stk)].at = "unqueue", stk[Len(stk)].a = a, an[a].of = e
    PROVE  /\ \A d \in Elem : d # e => Beside(st, an, d) = Beside(stk, an, d)
           /\ a \in Beside(stk, an, e)
           /\ \A b \in Anim : b \in Beside(st, an, e) <=> b \in Beside(stk, an, e) /\ b # a
<1> DEFINE n == Len(stk)
<1>1. /\ n \in DOMAIN stk /\ n \notin DOMAIN st /\ stk[n].at = "unqueue" /\ stk[n].a = a
      /\ \A k \in DOMAIN stk : k \in DOMAIN st \/ k = n
      /\ \A k \in DOMAIN st : k \in DOMAIN stk /\ st[k] = stk[k] /\ k # n
  BY DroppedIs
<1> HIDE DEF n
<1>2. an[a].state # "pending" /\ ~an[a].queued /\ Leaving(stk, a) /\ ~Leaving(st, a)
  BY <1>1 DEF LeaveOk, Leaving
<1>3. \A b \in Anim : b # a => (Leaving(st, b) <=> Leaving(stk, b))
  BY <1>1 DEF Leaving
<1>4. ASSUME NEW d \in Elem, d # e PROVE Beside(st, an, d) = Beside(stk, an, d)
  <2>1. \A b \in Anim : b \in Beside(st, an, d) <=> b \in Beside(stk, an, d)
    BY <1>3, <1>4 DEF Beside
  <2> QED BY <2>1 DEF Beside
<1>5. a \in Beside(stk, an, e) /\ a \notin Beside(st, an, e)
  BY <1>1, <1>2 DEF Beside
<1>6. \A b \in Anim : b \in Beside(st, an, e) <=> b \in Beside(stk, an, e) /\ b # a
  BY <1>3, <1>5 DEF Beside
<1> QED BY <1>4, <1>5, <1>6

LEMMA TurnsUnqueue == ASSUME Base(fx), Turns(fx, {}, {}), Unqueue PROVE Turns(fx', {}, {})
<1> DEFINE f == fx.stack[Len(fx.stack)] a == Top.a e == fx.anims[a].of p == Pop(fx) l == LessOne(p, e) t == EmptyFire(l, e)
           none == {}
<1>1. fx.stack # <<>> /\ At("unqueue") /\ f.at = "unqueue" /\ f.a = a
      /\ Goes(IF fx.queue[e] = <<>> THEN t ELSE l)
  BY DEF Unqueue, At, LessOne, Top
<1>2. e \in Elem /\ f = fx.stack[Len(fx.stack)] /\ e = fx.anims[f.a].of /\ none = {} /\ none \in SUBSET {e}
  BY <1>1, TopIs DEF AnimFrames
<1>3. Base(p) /\ Stacked(fx, p) /\ Drops(fx.stack, p.stack)
  BY <1>1, BasePop, PopIs DEF Base
<1>4. Base(l)
  BY <1>1, BaseLess
<1> HIDE DEF p, e, a, none, f
<1>5. /\ Rearranged(p, l) /\ l.queue = p.queue /\ OnlyAt(p, e, l)
      /\ l.hooks[e].waiting = p.hooks[e].waiting
      /\ l.hooks[e].unqueued = p.hooks[e].unqueued - 1
  BY <1>2, <1>3, LessIs DEF Base
<1> HIDE DEF l
<1>6. /\ l \in FxVars /\ l.anims = fx.anims /\ l.timers = fx.timers /\ l.finish = fx.finish /\ l.queue = fx.queue
      /\ l.stack = p.stack /\ l.hooks[e].waiting = fx.hooks[e].waiting /\ OnlyAt(fx, e, l)
      /\ l.hooks[e].unqueued = fx.hooks[e].unqueued - 1
  BY <1>3, <1>5 DEF Rearranged, Stacked, OnlyAt
<1>7. /\ \A k \in DOMAIN fx.stack : fx.stack[k] = f \/ (k \in DOMAIN p.stack /\ p.stack[k] = fx.stack[k])
      /\ \A k \in DOMAIN p.stack : k \in DOMAIN fx.stack /\ p.stack[k] = fx.stack[k]
  <2>1. fx.stack \in Seq(FrameVars)
    BY FxIs DEF Base
  <2> QED BY <1>2, <1>3, <2>1, DroppedIs
<1>8. RolesKept(fx.stack, l.stack)
  BY <1>1, <1>6, <1>7 DEF RolesKept, SameRole
<1>9. /\ \A d \in Elem : d # e => Beside(p.stack, fx.anims, d) = Beside(fx.stack, fx.anims, d)
      /\ f.a \in Beside(fx.stack, fx.anims, e)
      /\ Beside(p.stack, fx.anims, e) = Beside(fx.stack, fx.anims, e) \ {f.a}
  <2> DEFINE stk == fx.stack st == p.stack an == fx.anims b == f.a
  <2>0. e \in Elem
    BY <1>2
  <2>1. /\ stk \in Seq(FrameVars) /\ Drops(stk, st) /\ LeaveOk(stk, an) /\ b \in Anim
        /\ stk[Len(stk)].at = "unqueue" /\ stk[Len(stk)].a = b /\ an[b].of = e
    BY <1>1, <1>2, <1>3, TopIs DEF Base, AnimFrames
  <2> HIDE DEF stk, st, an, b
  <2>2. /\ \A d \in Elem : d # e => Beside(st, an, d) = Beside(stk, an, d)
        /\ b \in Beside(stk, an, e)
        /\ \A c \in Anim : c \in Beside(st, an, e) <=> c \in Beside(stk, an, e) /\ c # b
    BY <2>0, <2>1, BesideLess
  <2>3. Beside(st, an, e) \subseteq Anim /\ Beside(stk, an, e) \subseteq Anim
    BY DEF Beside
  <2>4. Beside(st, an, e) = Beside(stk, an, e) \ {b}
    BY <2>2, <2>3
  <2> QED BY <2>2, <2>4 DEF stk, st, an, b
<1>10. l.hooks[e].unqueued = Cardinality(Beside(p.stack, fx.anims, e))
  <2>1. fx.hooks[e].unqueued = Cardinality(Beside(fx.stack, fx.anims, e))
    BY <1>2 DEF Turns, Exact
  <2>2. IsFiniteSet(Beside(fx.stack, fx.anims, e))
    BY BesideFinite
  <2>3. Cardinality(Beside(fx.stack, fx.anims, e) \ {f.a}) = Cardinality(Beside(fx.stack, fx.anims, e)) - 1
    BY <1>9, <2>2, FS_RemoveElement
  <2> QED BY <1>6, <1>9, <2>1, <2>3
<1>11. CASE fx.queue[e] # <<>>
  <2>1. HasTurn(fx.stack, fx.anims, e) \/ \E k \in DOMAIN fx.stack : Will(fx.stack[k], e)
    BY <1>2, <1>11 DEF Turns, Served
  <2>2. HasTurn(fx.stack, fx.anims, e) \/ \E k \in DOMAIN fx.stack : May(fx.stack[k], e)
    BY <2>1 DEF Will, May
  <2>3. \A k \in DOMAIN fx.stack : StopsOf(fx.stack[k], e) => fx.stack[k].todo = <<>>
    BY <1>11 DEF Turns, Finishing, StopsOf
  <2>4. Head(l.queue[e]) = InProgress
    BY <1>2, <1>6, <1>11 DEF Turns, HeadOk
  <2>5. AtOne(fx, e, l, none)
    BY <1>2, <1>6, <1>10, <1>11, <2>1, <2>2, <2>3, <2>4 DEF AtOne
  <2>6. Turns(l, none, {})
    BY <1>2, <1>6, <1>8, <1>9, <2>5, TurnsAtOne
  <2> QED BY <1>1, <1>2, <1>4, <1>11, <2>6, TurnsGoes
<1>12. CASE fx.queue[e] = <<>>
  <2>1. HasTurn(fx.stack, fx.anims, e) =>
          \E k \in DOMAIN l.stack : StopsOf(l.stack[k], e) /\ (l.stack[k].todo # <<>> \/ l.hooks[e].waiting = 0)
    <3> HAVE HasTurn(fx.stack, fx.anims, e)
    <3>1. PICK k \in DOMAIN fx.stack : StopsOf(fx.stack[k], e) /\ (fx.stack[k].todo # <<>> \/ fx.hooks[e].waiting = 0)
      BY <1>2, <1>12 DEF Turns, EmptiedOk
    <3>2. k \in DOMAIN l.stack /\ l.stack[k] = fx.stack[k]
      BY <1>1, <1>6, <1>7, <3>1 DEF StopsOf, ElemFrames
    <3> QED BY <1>6, <3>1, <3>2
  <2>2. /\ Turns(fx, none, {}) /\ l.queue[e] = <<>> /\ l.hooks[e].unqueued = Cardinality(Beside(l.stack, fx.anims, e))
        /\ \A k \in DOMAIN fx.stack : ~Follows(fx.stack[k], fx.queue[e])
    BY <1>2, <1>6, <1>10, <1>12 DEF Follows
  <2>3. Turns(t, {}, {}) /\ Base(t)
    <3>1. /\ none \in SUBSET {e} /\ RolesKept(fx.stack, l.stack) /\ OnlyAt(fx, e, l) /\ l \in FxVars
          /\ l.anims = fx.anims /\ l.timers = fx.timers /\ l.finish = fx.finish /\ l.stack = p.stack
      BY Zenon, <1>2, <1>6, <1>8
    <3>2. \A d \in Elem : d # e => Beside(l.stack, fx.anims, d) = Beside(fx.stack, fx.anims, d)
      BY <1>9, <3>1
    <3>3. HasTurn(fx.stack, fx.anims, e) =>
            /\ \A k \in DOMAIN fx.stack : StopsOf(fx.stack[k], e) => ~Follows(fx.stack[k], fx.queue[e])
            /\ \E k \in DOMAIN l.stack : StopsOf(l.stack[k], e) /\ (l.stack[k].todo # <<>> \/ l.hooks[e].waiting = 0)
      BY <2>1, <2>2
    <3>4. Turns(EmptyFire(l, e), {}, {})
      BY ZenonT(30), <1>2, <2>2, <3>1, <3>2, <3>3, TurnsFires
    <3>5. Base(EmptyFire(l, e))
      BY <1>2, <1>4, BaseEmptyFire
    <3> QED BY <3>4, <3>5
  <2> HIDE DEF t
  <2> QED BY <1>1, <1>12, <2>3, TurnsGoes
<1> QED BY <1>11, <1>12
-----------------------------------------------------------------------------
\* The last tick of a timer: what ends by it goes on with the queue, stop does not.
LEMMA TurnsStepDone ==
    ASSUME NEW due, Base(fx), Turns(fx, {}, {}), StepDone(due)
    PROVE  Turns(fx', {}, {})
<1> DEFINE t == GoTo(fx, EndedFrame) a == Top.a v == TRUE u == Settle(t, a, "resolved") none == {}
           w == [Pop(fx) EXCEPT !.stack[Len(fx.stack) - 1].end = v] n == Len(fx.stack) stk == fx.stack an == fx.anims
<1>1. /\ At("step") /\ v \in BOOLEAN
      /\ Goes(u) \/ Goes(w)
  BY DEF StepDone, EndedFrame
<1>2. fx.stack # <<>> /\ stk[n].at = "step" /\ stk[n].a = a
  BY <1>1 DEF At, Top
<1>3. /\ n > 1 /\ n \in Nat /\ stk[n - 1].at \in {"timer", "fxticked"} /\ stk[n - 1].a = a
      /\ DOMAIN stk = 1 .. n /\ a \in Anim
  <2>1. stk[n].at \in AnimFrames
    BY <1>2 DEF AnimFrames
  <2> QED BY <1>2, <2>1, TopIs
<1>4. \A k \in DOMAIN stk : StopsOf(stk[k], an[a].of) =>
        Ends(stk[k]) /\ (stk[k].todo # <<>> => an[a].queued)
  <2>1. CASE stk[n - 1].at = "timer"
    <3>1. n - 1 \in DOMAIN stk
      BY <1>3
    <3>2. \A k \in DOMAIN stk : StopsOf(stk[k], an[a].of) => n - 1 > k /\ Ends(stk[k])
      BY <1>3, <2>1, <3>1 DEF Turns, Within
    <3> QED BY <1>3, <2>1, <3>1, <3>2 DEF Turns, Finishing, StopsOf
  <2>2. CASE stk[n - 1].at = "fxticked"
    <3>1. PICK m \in Nat : m = n
      BY <1>3
    <3>2. m - 1 \in DOMAIN stk /\ BottomOk(stk) /\ stk[m - 1].at = "fxticked" /\ m > 1
      BY <1>3, <2>2, <3>1 DEF Base
    <3>3. m - 1 = 1
      BY <3>2 DEF BottomOk
    <3> HIDE DEF n, stk
    <3>4. \A k \in DOMAIN stk : k = n - 1 \/ k = n
      BY <1>3, <3>1, <3>3
    <3> QED BY <1>2, <2>2, <3>4 DEF StopsOf, ElemFrames
  <2> QED BY <1>3, <2>1, <2>2
<1>5. /\ Base(t) /\ Stacked(fx, t) /\ Puts(stk, EndedFrame, t.stack) /\ EndedFrame.at = "ended" /\ none \in SUBSET {a}
      /\ none = {}
  BY <1>1, EndedIs
<1>6. Base(w) /\ Turns(w, {}, {})
  <2>1. v \in BOOLEAN
    OBVIOUS
  <2> HIDE DEF v
  <2> QED BY <1>1, <2>1, BaseAnswers, TurnsAnswers
<1> HIDE DEF t, w, v, none
<1>7. Turns(t, {}, {})
  <2>1. Neutral(stk, t.stack)
    BY <1>2, <1>5, PutsNeutral, FxIs DEF Base, TurnFrames
  <2> QED BY <1>5, <2>1, TurnsNeutral
<1>8. Ready(t, a, "resolved")
  <2>1. t.anims = an /\ \A k \in DOMAIN t.stack : k \in DOMAIN stk /\ (t.stack[k] = stk[k] \/ t.stack[k].at = "ended")
    BY <1>2, <1>3, <1>5 DEF Stacked, Puts
  <2>2. \A k \in DOMAIN t.stack : StopsOf(t.stack[k], an[a].of) => t.stack[k] = stk[k] /\ k \in DOMAIN stk
    BY <2>1 DEF StopsOf, ElemFrames
  <2> QED BY <1>4, <2>1, <2>2 DEF Ready
<1>9. Base(u) /\ Turns(u, {}, {})
  <2>1. Turns(t, {}, none)
    BY <1>5, <1>7
  <2> QED BY <1>3, <1>5, <1>8, <2>1, BaseSettles, TurnsSettles
<1> HIDE DEF u
<1> QED BY <1>1, <1>6, <1>9, TurnsGoes
-----------------------------------------------------------------------------
\* The first tick is over: the functions of the options are attached.  Who has ended by
\* it has the turn, and gives it to the complete function.
LEMMA TurnsTimerMade ==
    ASSUME Base(fx), Snd(fx, {}, {}, {}), Turns(fx, {}, {}), At("timer"),
           NEW W, \A e \in Elem : e \in W <=> Hands(fx.anims, Top, e)
    PROVE  Turns(TimerMade, W, {})
<1> DEFINE t == TimerMade stk == fx.stack st == t.stack an == fx.anims am == t.anims qu == fx.queue hk == fx.hooks
           fin == fx.finish tm == fx.timers tn == t.timers n == Len(stk) a == Top.a
<1>1. /\ Unique(stk, an, {}) /\ Served(stk, an, qu, {}) /\ Watched(stk, an, hk, {}) /\ Exact(stk, an, hk)
      /\ DueOk(stk, an, tm, qu, {}) /\ Within(stk, an) /\ Finishing(stk, an, qu, fin) /\ AttachOk(stk, an)
      /\ EmptiedOk(stk, an, qu, hk) /\ EndsOk(stk, an) /\ HeadOk(qu)
      /\ TimerOk(stk, an, {}) /\ LastOk(stk, an, tm)
  BY DEF Turns, Snd
<1>2. /\ stk # <<>> /\ a \in Anim
      /\ Top.end => tn = tm
      /\ ~Top.end => tn = Front(tm)
      /\ \A b \in Anim : /\ am[b].of = an[b].of /\ am[b].queued = an[b].queued /\ am[b].state = an[b].state
                         /\ am[b].elem = an[b].elem
      /\ \A b \in Anim : b # a => am[b] = an[b]
      /\ am[a].attached
      /\ Of("made", a).at = "made" /\ Of("made", a).a = a /\ Puts(stk, Of("made", a), st)
  <2>1. /\ Top.end => TimerStarted.timers = tm
        /\ ~Top.end => TimerStarted.timers = Front(tm)
        /\ Animated(TimerStarted, TimerAttached) /\ Stacked(TimerAttached, TimerMade)
    BY TimerIs
  <2>2. tn = TimerStarted.timers /\ am = TimerAttached.anims
    BY <2>1 DEF Stacked, Animated
  <2>3. /\ \A b \in Anim : /\ TimerAttached.anims[b].of = an[b].of /\ TimerAttached.anims[b].queued = an[b].queued
                          /\ TimerAttached.anims[b].state = an[b].state /\ TimerAttached.anims[b].elem = an[b].elem
        /\ \A b \in Anim : b # a => TimerAttached.anims[b] = an[b]
        /\ TimerAttached.anims[a].attached
    BY TimerIs
  <2>4. /\ stk # <<>> /\ a \in Anim
        /\ Of("made", a).at = "made" /\ Of("made", a).a = a /\ Puts(stk, Of("made", a), st)
    BY TimerIs
  <2> HIDE DEF t, stk, st, an, am, tm, tn, a
  <2> QED BY <2>1, <2>2, <2>3, <2>4
<1>3. /\ stk \in Seq(FrameVars) /\ n \in Nat \ {0} /\ DOMAIN stk = 1 .. n /\ stk[n] = Top
      /\ stk[n].at = "timer" /\ stk[n].a = a /\ stk[n].end = Top.end
  BY <1>2, TopIs DEF At, Top
<1>4. /\ DOMAIN st = 1 .. n /\ st[n].at = "made" /\ st[n].a = a /\ \A k \in 1 .. n : k # n => st[k] = stk[k]
  <2>1. /\ Len(st) = n /\ st \in Seq(FrameVars) /\ st[n] = Of("made", a)
        /\ \A k \in 1 .. n - 1 : st[k] = stk[k]
    BY <1>2 DEF Puts
  <2> HIDE DEF st, n
  <2>2. \A k \in 1 .. n : k # n => k \in 1 .. n - 1
    BY <1>3
  <2> QED BY <1>2, <2>1, <2>2
<1>5. /\ tm \in Seq(Anim) /\ FramesOk(stk, an) /\ t.queue = qu /\ t.hooks = hk /\ t.finish = fin
  <2>1. /\ Timed(fx, TimerStarted) /\ Animated(TimerStarted, TimerAttached) /\ Stacked(TimerAttached, t)
    BY TimerIs
  <2> QED BY <2>1, FxIs DEF Base, Timed, Animated, Stacked
<1>6. \A e \in Elem : e \in W <=> Hands(an, stk[n], e)
  BY <1>3
<1> HIDE DEF t, stk, st, an, am, qu, hk, fin, tm, tn, n, a
<1>7. /\ n \in DOMAIN stk /\ DOMAIN st = DOMAIN stk
      /\ \A k \in DOMAIN stk : k \in Int /\ (k = n \/ (k < n /\ st[k] = stk[k]))
      /\ \A k \in DOMAIN stk : st[k].a = stk[k].a
  BY <1>3, <1>4
<1>8. ~Stepping(stk, n)
  BY <1>3 DEF Stepping
<1>9. /\ an[a].zero => ~Top.end /\ an[a].state # "pending"
      /\ ~an[a].zero => Top.end
  BY <1>1, <1>3, <1>7, <1>8 DEF TimerOk, Over
<1>10. ~Top.end => tm # <<>> /\ tm[Len(tm)] = a
  BY <1>1, <1>3, <1>7, <1>9 DEF LastOk, Starts
<1>11. ~Top.end => Len(tn) = Len(tm) - 1 /\ tn \in Seq(Anim) /\ \A k \in 1 .. Len(tm) - 1 : tn[k] = tm[k]
  BY <1>2, <1>5, <1>10, FrontIs
<1>12. \A j \in DOMAIN tm : an[tm[j]].state = "pending" => j \in DOMAIN tn /\ tn[j] = tm[j]
  <2> SUFFICES ASSUME NEW j \in DOMAIN tm, an[tm[j]].state = "pending"
               PROVE  j \in DOMAIN tn /\ tn[j] = tm[j]
    OBVIOUS
  <2>1. CASE Top.end
    BY <1>2, <2>1
  <2>2. CASE ~Top.end
    <3>1. j # Len(tm)
      BY <1>9, <1>10, <2>2
    <3>2. j \in 1 .. Len(tm) - 1
      BY <1>5, <3>1
    <3> QED BY <1>11, <2>2, <3>2
  <2> QED BY <2>1, <2>2
<1>13. \A k \in DOMAIN stk : stk[k].at \in AnimFrames => stk[k].a \in Anim
  BY <1>5 DEF FramesOk
<1>14. \A b \in Anim, e \in Elem : Serves(am, b, e) <=> Serves(an, b, e)
  BY <1>2 DEF Serves
<1>15. \A k \in DOMAIN st, e \in Elem : Hands(am, st[k], e) <=> k # n /\ Hands(an, stk[k], e)
  <2> TAKE k \in DOMAIN st, e \in Elem
  <2>1. CASE k = n
    BY <1>4, <2>1 DEF Hands
  <2>2. CASE k # n
    <3>1. st[k] = stk[k] /\ (stk[k].at \in {"complete", "timer"} => stk[k].a \in Anim)
      BY <1>7, <1>13, <2>2 DEF AnimFrames
    <3> QED BY <1>2, <2>2, <3>1 DEF Hands
  <2> QED BY <2>1, <2>2
<1>16. /\ \A k \in DOMAIN st : st[k].at # "made" => k # n /\ st[k] = stk[k]
       /\ \A k \in DOMAIN stk : stk[k].at # "timer" => k # n /\ st[k] = stk[k]
  BY <1>3, <1>4, <1>7
<1>17. /\ \A k \in DOMAIN st, e \in Elem : StopsOf(st[k], e) => StopsOf(stk[k], e) /\ st[k] = stk[k]
       /\ \A k \in DOMAIN stk, e \in Elem : StopsOf(stk[k], e) => StopsOf(st[k], e) /\ st[k] = stk[k]
  BY <1>7, <1>16 DEF StopsOf, ElemFrames
<1>18. \A e \in Elem : /\ HasTurn(st, am, e) => HasTurn(stk, an, e)
                       /\ HasTurn(stk, an, e) => e \in W \/ HasTurn(st, am, e)
  BY <1>6, <1>7, <1>14, <1>15 DEF HasTurn
<1>19. \A e \in Elem : Beside(st, am, e) = Beside(stk, an, e)
  <2>1. \A b \in Anim : Leaving(st, b) <=> Leaving(stk, b)
    BY <1>7, <1>16 DEF Leaving
  <2> QED BY <1>2, <2>1 DEF Beside
<1>20. Unique(st, am, W)
  <2>1. \A e \in Elem : e \in W => ~HasTurn(st, am, e)
    <3> SUFFICES ASSUME NEW e \in Elem, Hands(an, stk[n], e), HasTurn(st, am, e) PROVE FALSE
      BY <1>6
    <3>1. \A b \in Anim : ~Serves(an, b, e)
      BY <1>1, <1>7 DEF Unique
    <3>2. \A k \in DOMAIN stk : Hands(an, stk[k], e) => k = n
      BY <1>1, <1>7 DEF Unique
    <3> QED BY <1>7, <1>14, <1>15, <3>1, <3>2 DEF HasTurn
  <2> QED BY <1>1, <1>7, <1>14, <1>15, <2>1 DEF Unique
<1>21. Served(st, am, qu, W)
  <2> SUFFICES ASSUME NEW e \in Elem, qu[e] # <<>>
               PROVE  e \in W \/ HasTurn(st, am, e) \/ \E k \in DOMAIN st : Will(st[k], e)
    BY DEF Served
  <2>1. HasTurn(stk, an, e) \/ \E k \in DOMAIN stk : Will(stk[k], e)
    BY <1>1 DEF Served
  <2> QED BY <1>7, <1>17, <1>18, <2>1 DEF Will
<1>22. Watched(st, am, hk, W)
  <2> SUFFICES ASSUME NEW e \in Elem, hk[e].present \/ hk[e].waiting > 0
               PROVE  \/ e \in W \/ HasTurn(st, am, e)
                      \/ \E k \in DOMAIN st : May(st[k], e)
                      \/ Beside(st, am, e) # {}
    BY DEF Watched
  <2>1. HasTurn(stk, an, e) \/ (\E k \in DOMAIN stk : May(stk[k], e)) \/ Beside(stk, an, e) # {}
    BY <1>1 DEF Watched
  <2> QED BY <1>7, <1>17, <1>18, <1>19, <2>1 DEF May
<1>23. Exact(st, am, hk)
  BY <1>1, <1>19 DEF Exact
<1>24. DueOk(st, am, tn, qu, {})
  <2> SUFFICES ASSUME NEW k \in DOMAIN st, st[k].at \in ElemFrames, NEW b \in Anim, Serves(am, b, st[k].a)
               PROVE  \/ Reaches(st, k, tn, b)
                      \/ Above(st, k, {"end"}, b)
                      \/ st[k].todo # <<>> /\ Above(st, k, {"timer", "made"}, b)
                      \/ Follows(st[k], qu[st[k].a])
    BY DEF DueOk
  <2>1. k \in DOMAIN stk /\ st[k] = stk[k] /\ Serves(an, b, stk[k].a) /\ an[b].state = "pending"
    BY <1>2, <1>7, <1>16 DEF ElemFrames, Serves
  <2>2. \/ Reaches(stk, k, tm, b)
        \/ Above(stk, k, {"end"}, b)
        \/ stk[k].todo # <<>> /\ Above(stk, k, {"timer", "made"}, b)
        \/ Follows(stk[k], qu[stk[k].a])
    BY <1>1, <2>1 DEF DueOk
  <2>3. Reaches(stk, k, tm, b) => Reaches(st, k, tn, b)
    BY <1>12, <2>1 DEF Reaches
  <2>4. Above(stk, k, {"end"}, b) => Above(st, k, {"end"}, b)
    BY <1>7, <1>16 DEF Above
  <2>5. Above(stk, k, {"timer", "made"}, b) => Above(st, k, {"timer", "made"}, b)
    BY <1>4, <1>7 DEF Above
  <2> QED BY <2>1, <2>2, <2>3, <2>4, <2>5
<1>25. Within(st, am)
  <2> SUFFICES ASSUME NEW k \in DOMAIN st, NEW l \in DOMAIN st, st[l].at \in {"end", "complete", "timer"},
                      StopsOf(st[k], am[st[l].a].of)
               PROVE  l > k /\ Ends(st[k])
    BY DEF Within
  <2>1. st[l] = stk[l] /\ st[k] = stk[k] /\ stk[l].a \in Anim
    BY <1>7, <1>13, <1>16 DEF AnimFrames, StopsOf, ElemFrames
  <2>2. StopsOf(stk[k], an[stk[l].a].of)
    BY <1>2, <2>1
  <2> QED BY <1>1, <1>7, <2>1, <2>2 DEF Within
<1>26. Finishing(st, am, qu, fin)
  <2>1. \A e \in Elem : fin[e] <=> \E k \in DOMAIN st : StopsOf(st[k], e) /\ st[k].todo # <<>>
    BY <1>1, <1>7, <1>17 DEF Finishing
  <2>2. ASSUME NEW k \in DOMAIN st, st[k].at \in ElemFrames, st[k].todo # <<>>
        PROVE  /\ st[k].end /\ qu[st[k].a] = <<>>
               /\ \A l \in DOMAIN st :
                    l > k /\ st[l].at \in {"end", "complete", "unqueue", "timer", "made"} /\ am[st[l].a].of = st[k].a
                      => am[st[l].a].queued
    <3>1. k \in DOMAIN stk /\ st[k] = stk[k]
      BY <1>7, <1>16, <2>2 DEF ElemFrames
    <3>2. /\ stk[k].end /\ qu[stk[k].a] = <<>>
          /\ \A l \in DOMAIN stk :
               l > k /\ stk[l].at \in {"end", "complete", "unqueue", "timer", "made"} /\ an[stk[l].a].of = stk[k].a
                 => an[stk[l].a].queued
      BY <1>1, <2>2, <3>1 DEF Finishing
    <3>3. \A l \in DOMAIN st : st[l].at \in {"end", "complete", "unqueue", "timer", "made"} =>
            stk[l].at \in {"end", "complete", "unqueue", "timer", "made"} /\ st[l].a = stk[l].a /\ stk[l].a \in Anim
      BY <1>3, <1>7, <1>13 DEF AnimFrames
    <3> QED BY <1>2, <1>7, <3>1, <3>2, <3>3
  <2> QED BY <2>1, <2>2 DEF Finishing
<1>27. AttachOk(st, am)
  <2>1. \A b \in Anim : am[b].state = "pending" <=> am[b].elem
    BY <1>1, <1>2 DEF AttachOk
  <2>2. ASSUME NEW b \in Anim, am[b].state = "pending", ~am[b].attached
        PROVE  \E k \in DOMAIN st : st[k].at = "timer" /\ st[k].a = b
    <3>1. b # a /\ am[b] = an[b]
      BY <1>2, <2>2
    <3>2. PICK k \in DOMAIN stk : stk[k].at = "timer" /\ stk[k].a = b
      BY <1>1, <2>2, <3>1 DEF AttachOk
    <3>3. st[k] = stk[k] /\ k \in DOMAIN st
      BY <1>3, <1>7, <3>1, <3>2
    <3> QED BY <3>2, <3>3
  <2>3. ASSUME NEW k \in DOMAIN st, st[k].at \in {"end", "made"}
        PROVE  am[st[k].a].attached
    <3>1. CASE st[k].a = a
      BY <1>2, <3>1
    <3>2. CASE st[k].a # a
      <4>1. st[k] = stk[k] /\ stk[k].a \in Anim /\ k \in DOMAIN stk
        BY <1>4, <1>7, <1>13, <2>3, <3>2 DEF AnimFrames
      <4>2. an[stk[k].a].attached
        BY <1>1, <2>3, <4>1 DEF AttachOk
      <4> QED BY <1>2, <3>2, <4>1, <4>2
    <3> QED BY <3>1, <3>2
  <2>4. ASSUME NEW k \in DOMAIN st, st[k].at = "timer"
        PROVE  ~am[st[k].a].attached
    <3>1. st[k] = stk[k] /\ stk[k].a \in Anim /\ k \in DOMAIN stk /\ k # n
      BY <1>7, <1>13, <1>16, <2>4 DEF AnimFrames
    <3>2. stk[k].a # a /\ ~an[stk[k].a].attached
      BY <1>1, <1>3, <1>7, <2>4, <3>1 DEF AttachOk
    <3> QED BY <1>2, <3>1, <3>2
  <2>5. \A k, l \in DOMAIN st : st[k].at = "timer" /\ st[l].at = "timer" /\ st[k].a = st[l].a => k = l
    BY <1>1, <1>7, <1>16 DEF AttachOk
  <2> QED BY <2>1, <2>2, <2>3, <2>4, <2>5 DEF AttachOk
<1>28. EmptiedOk(st, am, qu, hk)
  BY <1>1, <1>7, <1>17, <1>18 DEF EmptiedOk
<1>29. EndsOk(st, am)
  <2> SUFFICES ASSUME NEW l \in DOMAIN st, st[l].at = "end"
               PROVE  \E k \in DOMAIN st : StopsOf(st[k], am[st[l].a].of)
    BY DEF EndsOk
  <2>1. st[l] = stk[l] /\ stk[l].a \in Anim /\ l \in DOMAIN stk
    BY <1>7, <1>13, <1>16 DEF AnimFrames
  <2>2. PICK k \in DOMAIN stk : StopsOf(stk[k], an[stk[l].a].of)
    BY <1>1, <2>1 DEF EndsOk
  <2>3. k \in DOMAIN st /\ st[k] = stk[k]
    BY <1>7, <1>16, <2>2 DEF StopsOf, ElemFrames
  <2> QED BY <1>2, <2>1, <2>2, <2>3
<1>30. Turns(t, W, {})
  BY <1>1, <1>5, <1>20, <1>21, <1>22, <1>23, <1>24, <1>25, <1>26, <1>27, <1>28, <1>29 DEF Turns, st, am, tn
<1> QED BY <1>30 DEF t

LEMMA TurnsTimer == ASSUME Base(fx), Snd(fx, {}, {}, {}), Turns(fx, {}, {}), Timer PROVE Turns(fx', {}, {})
<1> DEFINE s == TimerMade a == Top.a u == Complete(s, a) an == fx.anims stk == fx.stack e == an[a].of
           g == Of("complete", a) w == Push(s, g) p == Push(s, User)
           none == {} one == {e} n == Len(stk)
<1>1. /\ At("timer") /\ stk # <<>> /\ stk[n].at = "timer" /\ stk[n].a = a /\ Top.at = "timer" /\ Top = stk[n]
      /\ \/ an[a].state = "resolved" /\ Goes(u)
         \/ an[a].state # "resolved" /\ Goes(s)
  BY DEF Timer, TimerMade, TimerAttached, TimerStarted, AttachedOne, At, Top
<1>2. /\ a \in Anim /\ Started(an, a) /\ Base(s)
      /\ \A b \in Anim : s.anims[b].of = an[b].of /\ s.anims[b].queued = an[b].queued /\ s.anims[b].state = an[b].state
      /\ s.queue = fx.queue /\ s.hooks = fx.hooks /\ s.finish = fx.finish /\ Puts(stk, Of("made", a), s.stack)
      /\ Of("made", a).at = "made"
  <2>1. /\ a \in Anim /\ Started(an, a) /\ Base(s) /\ Puts(stk, Of("made", a), s.stack) /\ Of("made", a).at = "made"
        /\ Timed(fx, TimerStarted) /\ Animated(TimerStarted, TimerAttached) /\ Stacked(TimerAttached, s)
        /\ \A b \in Anim : TimerAttached.anims[b].of = an[b].of /\ TimerAttached.anims[b].queued = an[b].queued
                           /\ TimerAttached.anims[b].state = an[b].state
    BY <1>1, TimerIs
  <2>2. s.queue = fx.queue /\ s.hooks = fx.hooks /\ s.finish = fx.finish /\ s.anims = TimerAttached.anims
    BY <2>1 DEF Stacked, Animated, Timed
  <2> QED BY <2>1, <2>2
<1>3. e \in Elem /\ stk \in Seq(FrameVars) /\ n \in DOMAIN stk
  BY <1>1, <1>2, TopIs, FxIs DEF Base, AnimsOk, Started
<1>4. /\ Base(u) /\ u = Push(s, IF an[a].queued THEN g ELSE User)
  <2>1. Started(s.anims, a) /\ s.anims[a].queued = an[a].queued
    BY <1>2 DEF Started
  <2>2. u = Push(s, IF s.anims[a].queued THEN g ELSE User)
    BY DEF Complete
  <2> QED BY <1>2, <2>1, <2>2, BaseComplete
<1>5. /\ g \in FrameVars /\ g.at = "complete" /\ g.a = a
  <2>1. "complete" \in AnimFrames
    BY DEF AnimFrames
  <2> QED BY <1>2, <2>1, OfAnim
<1>6. none = {} /\ one = {e} /\ e = an[a].of /\ s = TimerMade
  OBVIOUS
<1> HIDE DEF s, g, a, none, one, e, u
<1>7. /\ \A k \in DOMAIN s.stack : k \in DOMAIN stk /\ (s.stack[k] = stk[k] \/ s.stack[k].at = "made")
      /\ \A k \in DOMAIN stk : k \in DOMAIN s.stack /\ (s.stack[k] = stk[k] \/ k = n)
  BY <1>2 DEF Puts
<1>8. \A d \in Elem : Hands(an, Top, d) <=> an[a].queued /\ an[a].state = "resolved" /\ d = e
  BY <1>1, <1>6 DEF Hands
<1>9. CASE an[a].queued /\ an[a].state = "resolved"
  <2>1. \A d \in Elem : d \in one <=> Hands(an, Top, d)
    BY <1>6, <1>8, <1>9
  <2>2. Turns(s, one, none)
    BY <1>1, <1>6, <2>1, TurnsTimerMade
  <2>3. Stacked(s, w) /\ Adds(s.stack, g, w.stack) /\ u = w
    BY <1>2, <1>4, <1>5, <1>9, PushIs DEF Base
  <2>4. \A k \in DOMAIN s.stack : StopsOf(s.stack[k], e) =>
          k \in DOMAIN stk /\ s.stack[k] = stk[k] /\ Ends(s.stack[k])
    <3>1. \A k \in DOMAIN stk : StopsOf(stk[k], e) => Ends(stk[k])
      BY <1>1, <1>3, <1>6 DEF Turns, Within
    <3> QED BY <1>7, <3>1 DEF StopsOf, ElemFrames
  <2>5. s.queue[e] = <<>> =>
          \E k \in DOMAIN s.stack : StopsOf(s.stack[k], e) /\ (s.stack[k].todo # <<>> \/ s.hooks[e].waiting = 0)
    <3> HAVE s.queue[e] = <<>>
    <3>1. HasTurn(stk, an, e)
      BY <1>1, <1>3, <1>8, <1>9 DEF HasTurn
    <3>2. EmptiedOk(stk, an, fx.queue, fx.hooks)
      BY DEF Turns
    <3>3. PICK k \in DOMAIN stk : StopsOf(stk[k], e) /\ (stk[k].todo # <<>> \/ fx.hooks[e].waiting = 0)
      BY <1>2, <1>3, <3>1, <3>2 DEF EmptiedOk
    <3>4. k # n
      BY <1>1, <3>3 DEF StopsOf, ElemFrames
    <3> QED BY <1>2, <1>7, <3>3, <3>4
  <2> HIDE DEF w, stk, n, an
  <2>6. \A d \in Elem : Hands(s.anims, g, d) <=> d = e
    BY <1>2, <1>5, <1>6 DEF Hands
  <2>7. TurnFits(s, w, g, one, none, none, none)
    <3>1. w.finish = s.finish /\ s.anims[g.a].of = e /\ s.anims[g.a].queued
      BY <1>2, <1>5, <1>6, <1>9, <2>3 DEF Stacked
    <3>2. \A d \in Elem : ~StopsOf(g, d)
      BY <1>5 DEF StopsOf, ElemFrames
    <3>3. g.at # "end" /\ g.at # "stop"
      BY <1>5
    <3> QED BY <1>2, <1>5, <1>6, <2>4, <2>5, <2>6, <3>1, <3>2, <3>3 DEF TurnFits
  <2>8. Turns(w, none, none)
    <3>1. none \in SUBSET one /\ none \in SUBSET none
      BY <1>6
    <3>2. w.anims = s.anims /\ w.timers = s.timers /\ w.queue = s.queue /\ w.hooks = s.hooks
      BY <2>3 DEF Stacked
    <3> QED BY <1>2, <2>2, <2>3, <2>7, <3>1, <3>2, TurnsAdds
  <2>9. Goes(u)
    BY <1>1, <1>9
  <2> QED BY <1>4, <1>6, <2>3, <2>8, <2>9, TurnsGoes
<1>10. CASE ~(an[a].queued /\ an[a].state = "resolved")
  <2>1. \A d \in Elem : d \in none <=> Hands(an, Top, d)
    BY <1>6, <1>8, <1>10
  <2>2. Turns(s, none, none)
    BY <1>1, <1>6, <2>1, TurnsTimerMade
  <2>3. CASE Goes(s)
    BY <1>2, <1>6, <2>2, <2>3, TurnsGoes
  <2>4. CASE an[a].state = "resolved" /\ Goes(u)
    <3>1. u = p
      BY <1>4, <1>10, <2>4
    <3>2. Stacked(s, p) /\ Adds(s.stack, User, p.stack) /\ s.stack \in Seq(FrameVars)
      BY <1>2, UserIs, PushIs, FxIs DEF Base
    <3> HIDE DEF p
    <3>3. Neutral(s.stack, p.stack)
      BY <3>2, UserIs, AddsNeutral DEF TurnFrames
    <3>4. Turns(p, none, none)
      BY <1>2, <2>2, <3>2, <3>3, TurnsNeutral
    <3> QED BY <1>4, <1>6, <2>4, <3>1, <3>4, TurnsGoes
  <2> QED BY <1>1, <2>3, <2>4
<1> QED BY <1>9, <1>10
-----------------------------------------------------------------------------
\* The calls of the program that jQuery is prepared for.
LEMMA TurnsCall ==
    ASSUME NEW s, NEW kinds, Base(s), Turns(s, {}, {}), Call(s, kinds)
    PROVE  Turns(fx', {}, {})
BY TurnsSweeps DEF Call

\* A new animation has no turn yet.
LEMMA TurnsNew ==
    ASSUME NEW s, NEW a \in Anim, NEW e \in Elem, NEW queued \in BOOLEAN, NEW zero \in BOOLEAN,
           Base(s), Turns(s, {}, {}), s.anims[a].state = "new",
           NEW t, t = NewOne(s, a, e, queued, zero)
    PROVE  Turns(t, {}, {})
<1>1. /\ Animated(s, t) /\ t.anims[a].state = "queued" /\ ~t.anims[a].elem
      /\ \A b \in Anim : b # a => t.anims[b] = s.anims[b]
  BY NewIs DEF Base
<1>2. FramesOk(s.stack, s.anims) /\ AttachOk(s.stack, s.anims)
  BY DEF Base, Turns
<1>3. \A b \in Anim : Likewise(s.anims[b], t.anims[b])
  <2> TAKE b \in Anim
  <2>1. CASE b = a
    BY <1>1, <1>2, <2>1 DEF Likewise, AttachOk
  <2>2. CASE b # a
    BY <1>1, <2>2 DEF Likewise
  <2> QED BY <2>1, <2>2
<1>4. \A k \in DOMAIN s.stack : s.stack[k].at \in TurnFrames \ ElemFrames =>
        SameAnim(s.anims[s.stack[k].a], t.anims[s.stack[k].a])
  <2> SUFFICES ASSUME NEW k \in DOMAIN s.stack, s.stack[k].at \in TurnFrames \ ElemFrames
               PROVE  SameAnim(s.anims[s.stack[k].a], t.anims[s.stack[k].a])
    OBVIOUS
  <2>1. s.stack[k].a \in Anim /\ Started(s.anims, s.stack[k].a)
    BY <1>2 DEF FramesOk, TurnFrames, ElemFrames, AnimFrames
  <2>2. t.anims[s.stack[k].a] = s.anims[s.stack[k].a]
    BY <1>1, <2>1 DEF Started
  <2> QED BY <2>2 DEF SameAnim
<1>5. Alike(s.stack, s.anims, t.stack, t.anims) /\ HooksKept(s.hooks, t.hooks)
  BY <1>1, <1>3, <1>4 DEF Alike, SameRole, HooksKept, Animated
<1> QED BY <1>1, <1>5, TurnsSame DEF Animated

\* It waits in the queue, or begins the queue.
LEMMA TurnsQueued ==
    ASSUME NEW s, NEW a \in Anim, NEW e \in Elem, Base(s), Turns(s, {}, {}), NEW q, q = Append(s.queue[e], a),
           q \in Entries, Base(QueueSet(s, e, q)), \A k \in DOMAIN s.stack : ~StopsOf(s.stack[k], e)
    PROVE  Turns(Queue(s, e, q), {}, {})
<1> DEFINE p == s.queue[e] c == QueueSet(s, e, q) h == QueueHooks(c, e) none == {} t == Queue(s, e, q)
<1>1. s \in FxVars /\ p \in Seq(Anim \cup {InProgress}) /\ c \in FxVars
  BY FxIs DEF Base, Entries
<1>2. Requeued(s, e, q, c)
  BY <1>1, QueueSetIs
<1>3. Hooked(c, h) /\ OnlyAt(c, e, h) /\ Base(h)
  BY <1>1, QueueHooksIs, BaseHooked
<1>4. t = IF q # <<>> /\ Head(q) = InProgress THEN h ELSE Dequeue(h, e)
  BY DEF Queue, QueueSet
<1> HIDE DEF c, h, t
<1>5. /\ h.anims = s.anims /\ h.timers = s.timers /\ h.finish = s.finish /\ h.stack = s.stack /\ OnlyAt(s, e, h)
      /\ h.queue[e] = q /\ h.hooks[e].unqueued = s.hooks[e].unqueued /\ h.hooks[e].waiting = s.hooks[e].waiting
  BY <1>2, <1>3 DEF Requeued, Hooked, Rearranged, OnlyAt
<1>6. none \in SUBSET {e} /\ none = {}
  OBVIOUS
<1>7. ~HasTurn(s.stack, s.anims, e) \/ p # <<>>
  BY DEF Turns, EmptiedOk
<1> HIDE DEF none, p
<1>8. CASE p # <<>>
  <2>1. Head(p) = InProgress
    BY <1>8 DEF Turns, HeadOk, p
  <2>2. q # <<>> /\ Head(q) = Head(p)
    <3>1. Len(p) \in Nat /\ Len(p) > 0 /\ q = Append(p, a)
      BY <1>1, <1>8 DEF p
    <3>2. Len(q) = Len(p) + 1 /\ q[1] = p[1]
      BY <1>1, <3>1
    <3>3. q # <<>> /\ Head(q) = q[1] /\ Head(p) = p[1]
      BY <1>1, <1>8, <3>1, <3>2
    <3> QED BY <3>2, <3>3
  <2>3. HasTurn(s.stack, s.anims, e)
    BY <1>8 DEF Turns, Served, Will, p
  <2>4. AtOne(s, e, h, none)
    <3>1. h.hooks[e].unqueued = Cardinality(Beside(h.stack, h.anims, e))
      BY <1>5 DEF Turns, Exact
    <3> QED BY <1>5, <1>6, <2>1, <2>2, <2>3, <3>1 DEF AtOne
  <2>5. RolesKept(s.stack, h.stack) /\ \A d \in Elem : d # e => Beside(h.stack, s.anims, d) = Beside(s.stack, s.anims, d)
    BY <1>5, SameRoles
  <2>6. Turns(s, none, {})
    BY <1>6
  <2>7. Turns(h, none, {})
    BY <1>5, <1>6, <2>4, <2>5, <2>6, TurnsAtOne
  <2> QED BY <1>4, <1>6, <2>1, <2>2, <2>7 DEF t
<1>9. CASE p = <<>>
  <2>1. q = <<a>>
    BY <1>9 DEF p
  <2>2. Head(q) # InProgress
    BY <2>1, EffectsAssumption DEF Anim, InProgress
  <2>3. Turns(s, none, {}) /\ ~HasTurn(s.stack, s.anims, e)
    BY <1>6, <1>7, <1>9
  <2>4. Turns(Dequeue(h, e), {}, {})
    BY <1>3, <1>5, <1>6, <2>3, TurnsTakes
  <2> QED BY <1>4, <2>2, <2>4 DEF t
<1> QED BY <1>8, <1>9

LEMMA TurnsAnimate ==
    ASSUME NEW a \in Anim, NEW e \in Elem, NEW queued \in BOOLEAN, NEW zero \in BOOLEAN,
           Base(fx), Turns(fx, {}, {}), Animate(a, e, queued, zero), odd' = {}
    PROVE  Turns(fx', {}, {})
<1> DEFINE made == NewOne(fx, a, e, queued, zero) q == Append(fx.queue[e], a)
           longer == Queue(made, e, q) begun == DoAnimation(made, a) none == {}
<1>1. /\ fx.anims[a].state = "new"
      /\ Call(IF queued THEN longer ELSE begun, Odd({e}))
  <2>1. fx.anims[a].state = "new"
    BY DEF Animate, Anim
  <2> QED BY <2>1, Zenon DEF Animate, NewOne, NewAnim
<1>2. \A k \in DOMAIN fx.stack : ~StopsOf(fx.stack[k], e)
  <2>1. Odd({e}) = {}
    BY <1>1, CallIs
  <2>2. \A k \in DOMAIN fx.stack : fx.stack[k].at \in ElemFrames => fx.stack[k].a \notin {e}
    BY <2>1, OddEmpty
  <2> QED BY <2>2 DEF StopsOf
<1>3. /\ Base(made)
      /\ \A d \in Elem : \A j \in DOMAIN fx.queue[d] : fx.queue[d][j] # a
      /\ \A k \in DOMAIN fx.stack : \A j \in DOMAIN fx.stack[k].todo : j > 1 => fx.stack[k].todo[j] # a
  BY <1>1, BaseNew
<1>4. /\ made.queue = fx.queue /\ made.stack = fx.stack /\ made.anims[a].state = "queued"
      /\ made.anims[a].queued = queued /\ made.anims[a].of = e
  BY NewIs DEF Animated, Base
<1>5. Turns(made, {}, {}) /\ none = {}
  BY <1>1, TurnsNew
<1> HIDE DEF made, none
<1>6. ~queued => Base(begun) /\ Turns(begun, {}, {})
  <2> HAVE ~queued
  <2>1. MayStart(made, a, none)
    BY <1>2, <1>4, <1>5 DEF MayStart
  <2>2. none \in SUBSET {made.anims[a].of} /\ Turns(made, none, {})
    BY <1>5
  <2> QED BY <1>3, <1>4, <2>1, <2>2, BaseDoAnimation, TurnsDoAnimation
<1>7. queued => Base(longer) /\ Turns(longer, {}, {})
  <2> HAVE queued
  <2>1. q \in Entries /\ Base(QueueSet(made, e, q))
    BY ZenonT(30), <1>3, <1>4, BaseLonger
  <2>2. q = Append(made.queue[e], a)
    BY <1>4
  <2>3. \A k \in DOMAIN made.stack : ~StopsOf(made.stack[k], e)
    BY <1>2, <1>4
  <2> HIDE DEF q
  <2> QED BY <1>3, <1>5, <2>1, <2>2, <2>3, BaseQueues, TurnsQueued
<1> HIDE DEF longer, begun
<1>8. CASE queued
  BY <1>1, <1>7, <1>8, TurnsCall
<1>9. CASE ~queued
  BY <1>1, <1>6, <1>9, TurnsCall
<1> QED BY <1>8, <1>9

\* One more waits.
LEMMA TurnsPromise ==
    ASSUME NEW e \in Elem, Base(fx), Turns(fx, {}, {}), Promise(e), odd' = {}
    PROVE  Turns(fx', {}, {})
<1> DEFINE t == MoreWaiting(fx, e) none == {}
<1>1. fx.hooks[e].present /\ Call(t, Odd({e}))
  BY Zenon DEF Promise, MoreWaiting
<1>2. /\ Rearranged(fx, t) /\ t.queue = fx.queue /\ OnlyAt(fx, e, t)
      /\ \A d \in Elem : t.hooks[d].unqueued = fx.hooks[d].unqueued
  BY MoreIs DEF Base
<1>3. none = {} /\ none \in SUBSET {e} /\ Turns(fx, none, {})
  OBVIOUS
<1> HIDE DEF t, none
<1>4. Base(t)
  <2>1. CountOk(fx.stack, fx.anims, t.hooks)
    BY <1>2 DEF Base, CountOk
  <2> QED BY <1>2, <2>1, BaseRearranged
<1>5. \A k \in DOMAIN fx.stack : ~StopsOf(fx.stack[k], e)
  <2>1. Odd({e}) = {}
    BY <1>1, CallIs
  <2>2. \A k \in DOMAIN fx.stack : fx.stack[k].at \in ElemFrames => fx.stack[k].a \notin {e}
    BY <2>1, OddEmpty
  <2> QED BY <2>2 DEF StopsOf
<1>6. t.anims = fx.anims /\ t.timers = fx.timers /\ t.finish = fx.finish /\ t.stack = fx.stack
  BY <1>2 DEF Rearranged
<1>7. RolesKept(fx.stack, t.stack) /\ \A d \in Elem : d # e => Beside(t.stack, fx.anims, d) = Beside(fx.stack, fx.anims, d)
  BY <1>6, SameRoles
<1>8. AtOne(fx, e, t, none)
  <2>1. HasTurn(fx.stack, fx.anims, e) => fx.queue[e] # <<>>
    BY <1>5 DEF Turns, EmptiedOk
  <2>2. fx.queue[e] # <<>> => HasTurn(fx.stack, fx.anims, e) /\ Head(fx.queue[e]) = InProgress
    BY <1>5 DEF Turns, Served, HeadOk, Will
  <2>3. HasTurn(fx.stack, fx.anims, e) \/ Beside(fx.stack, fx.anims, e) # {}
    BY <1>1, <1>5 DEF Turns, Watched, May
  <2>4. t.hooks[e].unqueued = Cardinality(Beside(t.stack, t.anims, e))
    BY <1>2, <1>6 DEF Turns, Exact
  <2> QED BY <1>2, <1>3, <1>5, <1>6, <2>1, <2>2, <2>3, <2>4 DEF AtOne
<1>9. Turns(t, none, {})
  BY <1>2, <1>3, <1>6, <1>7, <1>8, TurnsAtOne
<1> QED BY <1>1, <1>3, <1>4, <1>9, TurnsCall

\* stop and finish come from no other, nor from the end of an animation of the element:
\* whichever has the turn of the queue has its timer.
LEMMA MayStop ==
    ASSUME NEW e \in Elem, Base(fx), Snd(fx, {}, {}, {}), Turns(fx, {}, {}), Odd(Elem) = {}, OddStop(e) = {}
    PROVE  /\ \A k \in DOMAIN fx.stack : fx.stack[k].at \notin ElemFrames
           /\ \A k \in DOMAIN fx.stack : fx.stack[k].at \in {"end", "complete", "timer"} => fx.anims[fx.stack[k].a].of # e
           /\ \A a \in Anim : Serves(fx.anims, a, e) => \E j \in DOMAIN fx.timers : fx.timers[j] = a
<1>1. \A k \in DOMAIN fx.stack : fx.stack[k].at \in ElemFrames => fx.stack[k].a \notin Elem
  BY OddEmpty
<1>2. \A k \in DOMAIN fx.stack : fx.stack[k].at \notin ElemFrames
  BY <1>1 DEF Base, FramesOk
<1>3. \A k \in DOMAIN fx.stack : fx.stack[k].at # "end"
  BY <1>2 DEF Turns, EndsOk, StopsOf
<1>4. ~Ending(e)
  <2>1. "ending" \notin OddStop(e)
    OBVIOUS
  <2> QED BY <2>1 DEF OddStop
<1>5. \A k \in DOMAIN fx.stack : fx.stack[k].at \in {"end", "complete", "timer"} => fx.anims[fx.stack[k].a].of # e
  BY <1>3, <1>4 DEF Ending
<1>6. \A a \in Anim : Serves(fx.anims, a, e) => \E j \in DOMAIN fx.timers : fx.timers[j] = a
  BY <1>3 DEF Snd, RunningOk, Over, Stops, Serves
<1> QED BY <1>2, <1>5, <1>6

LEMMA TurnsStop ==
    ASSUME NEW e \in Elem, NEW clear \in BOOLEAN, NEW end \in BOOLEAN,
           Base(fx), Snd(fx, {}, {}, {}), Turns(fx, {}, {}), Stop(e, clear, end), odd' = {}
    PROVE  Turns(fx', {}, {})
<1> DEFINE f == StopFrame(e, end) t == Push(fx, f) none == <<>> c == QueueSet(t, e, none) h == QueueHooks(c, e)
           d == Dequeue(h, e) u == Queue(t, e, none) no == {}
           more == IF clear /\ fx.hooks[e].waiting > 0 THEN Odd(Elem) \cup OddStop(e) \cup {"early"}
                   ELSE Odd(Elem) \cup OddStop(e)
<1>1. Call(IF clear THEN u ELSE t, more)
  BY Zenon DEF Stop, StopFrame
<1>2. /\ Odd(Elem) = {} /\ OddStop(e) = {}
      /\ clear => ~(fx.hooks[e].waiting > 0)
  <2>1. more = {}
    BY <1>1, CallIs
  <2>2. "early" \notin more
    BY <2>1
  <2> QED BY <2>1, <2>2
<1>3. f \in FrameVars /\ f.at = "stop" /\ f.a = e /\ f.todo = <<>> /\ f.dequeue
  BY StopFrameIs
<1>4. u = IF none # <<>> /\ Head(none) = InProgress THEN h ELSE d
  BY DEF Queue, QueueSet
<1>5. no = {} /\ none = <<>> /\ no \in SUBSET {e}
  OBVIOUS
<1> HIDE DEF f, u, d, more, no
<1>6. FrameFits(fx.stack, fx.anims, f)
  BY <1>3 DEF FrameFits, AnimFrames
<1>7. Stacked(fx, t) /\ Adds(fx.stack, f, t.stack) /\ Base(t)
  BY <1>3, <1>6, PushIs, BaseAdds DEF Base
<1> HIDE DEF t, none, c, h
<1>8. /\ \A k \in DOMAIN fx.stack : fx.stack[k].at \notin ElemFrames
      /\ \A k \in DOMAIN fx.stack : fx.stack[k].at \in {"end", "complete", "timer"} => fx.anims[fx.stack[k].a].of # e
      /\ \A a \in Anim : Serves(fx.anims, a, e) => \E j \in DOMAIN fx.timers : fx.timers[j] = a
  BY <1>2, MayStop
<1>9. Turns(t, no, no)
  <2>1. TurnFits(fx, t, f, no, no, no, no)
    <3>1. t.finish = fx.finish
      BY <1>7 DEF Stacked
    <3>2. \A g \in Elem : ~Hands(fx.anims, f, g)
      BY <1>3 DEF Hands
    <3> QED BY <1>3, <1>5, <1>8, <3>1, <3>2 DEF TurnFits, AnimFrames
  <2>2. no \in SUBSET no /\ Turns(fx, no, no)
    BY <1>5
  <2>3. t.anims = fx.anims /\ t.timers = fx.timers /\ t.queue = fx.queue /\ t.hooks = fx.hooks
    BY <1>7 DEF Stacked
  <2> QED BY <1>7, <2>1, <2>2, <2>3, TurnsAdds
<1>10. CASE ~clear
  BY <1>1, <1>5, <1>7, <1>9, <1>10, TurnsCall
<1>11. CASE clear
  <2>1. none \in Entries /\ Base(c)
    BY <1>5, <1>7, EmptySeq, BaseEmptied DEF Entries, c
  <2>2. Requeued(t, e, none, c)
    BY <1>7, <2>1, QueueSetIs DEF Base, c
  <2>3. Hooked(c, h) /\ OnlyAt(c, e, h) /\ Base(h)
    BY <2>1, QueueHooksIs, BaseHooked DEF h, Base
  <2>4. /\ h.anims = t.anims /\ h.timers = t.timers /\ h.finish = t.finish /\ h.stack = t.stack /\ OnlyAt(t, e, h)
        /\ h.queue[e] = <<>> /\ h.hooks[e].unqueued = t.hooks[e].unqueued /\ h.hooks[e].waiting = t.hooks[e].waiting
    BY <1>5, <2>2, <2>3 DEF Requeued, Hooked, Rearranged, OnlyAt
  <2>5. t.hooks[e].waiting = 0
    <3>1. fx.hooks[e].waiting \in Nat
      BY FxIs DEF Base, HookVars
    <3> QED BY <1>2, <1>7, <1>11, <3>1 DEF Stacked
  <2>6. /\ \A k \in DOMAIN t.stack : StopsOf(t.stack[k], e) => ~Follows(t.stack[k], t.queue[e])
        /\ \E k \in DOMAIN t.stack : StopsOf(t.stack[k], e)
    <3>1. fx.stack \in Seq(FrameVars)
      BY FxIs DEF Base
    <3>2. /\ \A k \in DOMAIN t.stack : (k \in DOMAIN fx.stack /\ t.stack[k] = fx.stack[k]) \/ t.stack[k] = f
          /\ \E k \in DOMAIN t.stack : t.stack[k] = f
      BY <1>7, <3>1 DEF Adds
    <3> QED BY <1>3, <1>8, <3>2 DEF StopsOf, Follows, ElemFrames
  <2>7. HasTurn(t.stack, t.anims, e) =>
          /\ h.queue[e] = <<>>
          /\ \A k \in DOMAIN t.stack : StopsOf(t.stack[k], e) => ~Follows(t.stack[k], t.queue[e])
          /\ \E k \in DOMAIN t.stack : StopsOf(t.stack[k], e) /\ (t.stack[k].todo # <<>> \/ h.hooks[e].waiting = 0)
    BY <2>4, <2>5, <2>6
  <2>8. Turns(d, {}, {}) /\ Base(d)
    <3>1. Turns(t, no, {})
      BY <1>5, <1>9
    <3>2. Turns(Dequeue(h, e), {}, {})
      BY <1>5, <1>7, <2>3, <2>4, <2>7, <3>1, TurnsTakes
    <3> QED BY <2>3, <3>2, BaseDequeues DEF d
  <2>9. u = d
    BY <1>4, <1>5
  <2> QED BY <1>1, <1>11, <2>8, <2>9, TurnsCall
<1> QED BY <1>10, <1>11

\* finish empties the queue, and the animation that has its turn is within its reach.
LEMMA TurnsFinishFrame ==
    ASSUME NEW s, NEW t, NEW f, NEW e \in Elem, Base(s), Turns(s, {}, {}),
           t.anims = s.anims, t.timers = s.timers, t.hooks = s.hooks, Adds(s.stack, f, t.stack),
           f.at = "stop", f.a = e, f.end, f.todo # <<>>,
           t.queue[e] = <<>>, \A d \in Elem : d # e => t.queue[d] = s.queue[d],
           t.finish[e], \A d \in Elem : d # e => t.finish[d] = s.finish[d],
           \A k \in DOMAIN s.stack : s.stack[k].at \notin ElemFrames,
           \A k \in DOMAIN s.stack : s.stack[k].at \in {"end", "complete", "timer"} => s.anims[s.stack[k].a].of # e,
           \A a \in Anim : Serves(s.anims, a, e) => \E j \in DOMAIN s.timers : s.timers[j] = a
    PROVE  Turns(t, {}, {})
<1> DEFINE stk == s.stack st == t.stack an == s.anims qu == s.queue qn == t.queue tm == s.timers
           hk == s.hooks fin == s.finish fn == t.finish n == Len(stk) + 1
<1>1. /\ Unique(stk, an, {}) /\ Served(stk, an, qu, {}) /\ Watched(stk, an, hk, {}) /\ Exact(stk, an, hk)
      /\ Within(stk, an) /\ Finishing(stk, an, qu, fin) /\ AttachOk(stk, an)
      /\ EmptiedOk(stk, an, qu, hk) /\ EndsOk(stk, an) /\ HeadOk(qu)
  BY DEF Turns
<1>2. /\ t.anims = an /\ t.timers = tm /\ t.hooks = hk
      /\ qn[e] = <<>> /\ \A d \in Elem : d # e => qn[d] = qu[d]
      /\ fn[e] /\ \A d \in Elem : d # e => fn[d] = fin[d]
      /\ \A k \in DOMAIN stk : stk[k].at \notin ElemFrames
      /\ \A k \in DOMAIN stk : stk[k].at \in {"end", "complete", "timer"} => an[stk[k].a].of # e
      /\ \A a \in Anim : Serves(an, a, e) => \E j \in DOMAIN tm : tm[j] = a
  OBVIOUS
<1>3. /\ \A k \in DOMAIN stk : k \in DOMAIN st /\ st[k] = stk[k] /\ k < n
      /\ \A k \in DOMAIN st : k \in DOMAIN stk \/ k = n
      /\ \A k \in DOMAIN st : ~(k > n)
      /\ n \in DOMAIN st /\ n \notin DOMAIN stk /\ st[n] = f
  <2>1. stk \in Seq(FrameVars)
    BY FxIs DEF Base
  <2> QED BY <2>1, AddedIs
<1> HIDE DEF stk, st, an, qu, qn, tm, hk, fin, fn, n
<1>4. \A k \in DOMAIN st : st[k].at # "stop" => k \in DOMAIN stk /\ st[k] = stk[k]
  BY <1>3
<1>5. \A k \in DOMAIN st : st[k].at \in ElemFrames => k = n
  BY <1>2, <1>3
<1>6. /\ \A k \in DOMAIN st, d \in Elem : Hands(an, st[k], d) => k \in DOMAIN stk /\ Hands(an, stk[k], d)
      /\ \A k \in DOMAIN stk, d \in Elem : Hands(an, stk[k], d) => k \in DOMAIN st /\ Hands(an, st[k], d)
  BY <1>3 DEF Hands
<1>7. \A d \in Elem : HasTurn(st, an, d) <=> HasTurn(stk, an, d)
  BY <1>6 DEF HasTurn
<1>8. \A d \in Elem : Beside(st, an, d) = Beside(stk, an, d)
  <2>1. \A a : Leaving(st, a) <=> Leaving(stk, a)
    BY <1>3 DEF Leaving
  <2> QED BY <2>1 DEF Beside
<1>9. Unique(st, an, {})
  BY <1>1, <1>6 DEF Unique
<1>10. Served(st, an, qn, {})
  BY <1>1, <1>2, <1>7 DEF Served, Will, StopsOf
<1>11. Watched(st, an, hk, {})
  BY <1>1, <1>2, <1>7, <1>8 DEF Watched, May, StopsOf
<1>12. Exact(st, an, hk)
  BY <1>1, <1>8 DEF Exact
<1>13. DueOk(st, an, tm, qn, {})
  BY <1>2, <1>3, <1>5 DEF DueOk, Reaches
<1>14. Within(st, an)
  BY <1>2, <1>3, <1>4, <1>5 DEF Within, StopsOf
<1>15. Finishing(st, an, qn, fn)
  <2>1. \A d \in Elem : fn[d] <=> \E k \in DOMAIN st : StopsOf(st[k], d) /\ st[k].todo # <<>>
    <3>1. \A d \in Elem : d # e => ~fn[d]
      BY <1>1, <1>2 DEF Finishing, StopsOf
    <3>2. \A d \in Elem : (\E k \in DOMAIN st : StopsOf(st[k], d) /\ st[k].todo # <<>>) => d = e
      BY <1>3, <1>5 DEF StopsOf
    <3>3. StopsOf(st[n], e) /\ st[n].todo # <<>>
      BY <1>3 DEF StopsOf, ElemFrames
    <3> QED BY <1>2, <1>3, <3>1, <3>2, <3>3
  <2> QED BY <1>2, <1>3, <1>5, <2>1 DEF Finishing
<1>16. AttachOk(st, an)
  BY <1>1, <1>3, <1>4 DEF AttachOk
<1>17. EmptiedOk(st, an, qn, hk)
  <2> SUFFICES ASSUME NEW d \in Elem, qn[d] = <<>>, HasTurn(st, an, d)
               PROVE  \E k \in DOMAIN st : StopsOf(st[k], d) /\ (st[k].todo # <<>> \/ hk[d].waiting = 0)
    BY DEF EmptiedOk
  <2>1. CASE d = e
    BY <1>3, <2>1 DEF StopsOf, ElemFrames
  <2>2. CASE d # e
    BY <1>1, <1>2, <1>7, <2>2 DEF EmptiedOk, StopsOf
  <2> QED BY <2>1, <2>2
<1>18. EndsOk(st, an)
  BY <1>1, <1>2, <1>3, <1>4 DEF EndsOk, StopsOf, ElemFrames
<1>19. HeadOk(qn)
  BY <1>1, <1>2 DEF HeadOk
<1> QED BY <1>2, <1>9, <1>10, <1>11, <1>12, <1>13, <1>14, <1>15, <1>16, <1>17, <1>18, <1>19 DEF Turns, st, qn, fn

LEMMA TurnsFinish ==
    ASSUME NEW e \in Elem, Base(fx), Snd(fx, {}, {}, {}), Turns(fx, {}, {}), Finish(e), odd' = {}
    PROVE  Turns(fx', {}, {})
<1> DEFINE u == FinishSet(fx, e, TRUE) none == <<>> v == FinishStart(e) f == FinishCall(e) t == Push(v, f)
<1>1. /\ Base(v) /\ v.anims = fx.anims /\ v.stack = fx.stack /\ v.timers = fx.timers
      /\ Base(t) /\ Stacked(v, t) /\ Adds(fx.stack, f, t.stack) /\ f.at = "stop"
  BY FinishStarts
<1>2. Call(t, Odd(Elem) \cup OddStop(e))
  BY FinishIsCall
<1>3. Odd(Elem) = {} /\ OddStop(e) = {}
  BY <1>2, CallIs
<1>4. f.a = e /\ f.end /\ f.todo # <<>>
  BY OldQueueIs
<1>5. Flagged(fx, u) /\ u.finish[e] /\ \A d \in Elem : d # e => u.finish[d] = fx.finish[d]
  BY FinishSetIs, FinishSetAt DEF Base
<1>6. Requeued(u, e, <<>>, v)
  <2>1. none \in Entries /\ none = <<>>
    BY EmptySeq DEF Entries
  <2>2. u \in FxVars
    BY <1>5 DEF Flagged
  <2>3. v = QueueSet(u, e, none)
    BY DEF FinishStart
  <2> HIDE DEF u, v, none
  <2> QED BY <2>1, <2>2, <2>3, QueueSetIs
<1>7. /\ t.anims = fx.anims /\ t.timers = fx.timers /\ t.hooks = fx.hooks
      /\ t.queue[e] = <<>> /\ \A d \in Elem : d # e => t.queue[d] = fx.queue[d]
      /\ t.finish[e] /\ \A d \in Elem : d # e => t.finish[d] = fx.finish[d]
  <2> HIDE DEF u, v, f, t
  <2> QED BY <1>1, <1>5, <1>6 DEF Stacked, Requeued, Rearranged, Flagged
<1>8. /\ \A k \in DOMAIN fx.stack : fx.stack[k].at \notin ElemFrames
      /\ \A k \in DOMAIN fx.stack : fx.stack[k].at \in {"end", "complete", "timer"} => fx.anims[fx.stack[k].a].of # e
      /\ \A a \in Anim : Serves(fx.anims, a, e) => \E j \in DOMAIN fx.timers : fx.timers[j] = a
  BY <1>3, MayStop
<1> HIDE DEF u, v, f, t
<1>9. Turns(t, {}, {})
  BY <1>1, <1>4, <1>7, <1>8, TurnsFinishFrame
<1> QED BY <1>1, <1>2, <1>9, TurnsCall

-----------------------------------------------------------------------------
LEMMA InitTurns == ASSUME Init PROVE Turns(fx, {}, {})
<1>1. /\ fx.stack = <<>> /\ \A a \in Anim : fx.anims[a] = NotMade
      /\ \A e \in Elem : fx.queue[e] = <<>> /\ fx.hooks[e] = NoHooks /\ ~fx.finish[e]
  BY InitIs
<1>2. \A a \in Anim : fx.anims[a].state = "new" /\ ~fx.anims[a].elem
  BY <1>1, NotMadeIs
<1>3. \A e \in Elem : ~HasTurn(fx.stack, fx.anims, e)
  BY <1>1, <1>2 DEF HasTurn, Serves
<1>4. \A e \in Elem : Beside(fx.stack, fx.anims, e) = {}
  BY <1>1, <1>2 DEF Beside, Leaving
<1>5. Exact(fx.stack, fx.anims, fx.hooks)
  <2>1. \A e \in Elem : Cardinality(Beside(fx.stack, fx.anims, e)) = 0
    BY <1>4, FS_EmptySet
  <2> QED BY <1>1, <2>1, NoHooksIs DEF Exact
<1>6. Unique(fx.stack, fx.anims, {}) /\ Served(fx.stack, fx.anims, fx.queue, {})
  BY <1>1, <1>2 DEF Unique, Served, Serves
<1>7. Watched(fx.stack, fx.anims, fx.hooks, {})
  BY <1>1, NoHooksIs DEF Watched
<1>8. /\ DueOk(fx.stack, fx.anims, fx.timers, fx.queue, {}) /\ Within(fx.stack, fx.anims)
      /\ Finishing(fx.stack, fx.anims, fx.queue, fx.finish) /\ EndsOk(fx.stack, fx.anims)
  BY <1>1 DEF DueOk, Within, Finishing, EndsOk
<1>9. AttachOk(fx.stack, fx.anims)
  BY <1>1, <1>2 DEF AttachOk
<1>10. EmptiedOk(fx.stack, fx.anims, fx.queue, fx.hooks) /\ HeadOk(fx.queue)
  BY <1>1, <1>3 DEF EmptiedOk, HeadOk
<1> QED BY <1>5, <1>6, <1>7, <1>8, <1>9, <1>10 DEF Turns

LEMMA TurnsNext == ASSUME Base(fx), Snd(fx, {}, {}, {}), Turns(fx, {}, {}), Next, odd' = {} PROVE Turns(fx', {}, {})
<1>1. CASE Return \/ DequeueNext \/ End \/ Unqueue \/ Ended \/ Timer \/ Made
  BY <1>1, TurnsReturn, TurnsDequeueNext, TurnsEnd, TurnsUnqueue, TurnsEnded, TurnsTimer, TurnsMade
<1>2. CASE StopStart \/ StopLoop \/ Splice \/ StopEnds \/ FinishNext
  BY <1>2, TurnsStopStart, TurnsStopLoop, TurnsSplice, TurnsStopEnds, TurnsFinishNext
<1>3. CASE FxTick \/ TickNext \/ Ticked \/ TickEnds
  BY <1>3, TurnsFxTick, TurnsTickNext, TurnsTicked, TurnsTickEnds
<1>4. CASE \E due \in BOOLEAN : StepDone(due)
  BY <1>4, TurnsStepDone
<1>5. CASE Program
  <2>1. PICK e \in Elem :
          \/ \E a \in Anim, queued, zero \in BOOLEAN : Animate(a, e, queued, zero)
          \/ \E clear, end \in BOOLEAN : Stop(e, clear, end)
          \/ Finish(e) \/ ClearQueue(e) \/ Promise(e)
    BY <1>5 DEF Program
  <2>2. CASE \E a \in Anim, queued, zero \in BOOLEAN : Animate(a, e, queued, zero)
    BY <2>2, TurnsAnimate
  <2>3. CASE \E clear, end \in BOOLEAN : Stop(e, clear, end)
    BY <2>3, TurnsStop
  <2>4. CASE Finish(e) \/ Promise(e)
    BY <2>4, TurnsFinish, TurnsPromise
  <2>5. CASE ClearQueue(e)
    BY <2>5, CallIs DEF ClearQueue
  <2> QED BY <2>1, <2>2, <2>3, <2>4, <2>5
<1> QED BY <1>1, <1>2, <1>3, <1>4, <1>5 DEF Next, Continue

\* The invariant of the module: the queues and the promises besides the timers.
EffectsIInv == Base(fx) /\ (odd = {} => Snd(fx, {}, {}, {}) /\ Turns(fx, {}, {}))

LEMMA EffectsIInvNext == ASSUME EffectsIInv, [Next]_vars PROVE EffectsIInv'
<1>1. CASE Next
  <2>1. Base(fx')
    BY <1>1, BaseNext DEF EffectsIInv
  <2>2. ASSUME odd' = {} PROVE Snd(fx', {}, {}, {}) /\ Turns(fx', {}, {})
    <3>1. odd = {}
      BY <1>1, <2>2, OddGrows
    <3> QED BY <1>1, <2>2, <3>1, SndNext, TurnsNext DEF EffectsIInv
  <2> QED BY <2>1, <2>2 DEF EffectsIInv
<1>2. CASE UNCHANGED vars
  BY <1>2 DEF vars, EffectsIInv
<1> QED BY <1>1, <1>2

LEMMA EffectsAlways == Spec => []EffectsIInv
<1>1. Init => EffectsIInv
  BY InitBase, InitSnd, InitTurns DEF EffectsIInv
<1>2. EffectsIInv /\ [Next]_vars => EffectsIInv'
  BY EffectsIInvNext
<1> QED BY <1>1, <1>2, PTL DEF Spec

LEMMA OneOrNone ==
    ASSUME NEW S, IsFiniteSet(S), \A a, b \in S : a = b
    PROVE  Cardinality(S) <= 1
<1>1. CASE S = {}
  <2>1. Cardinality(S) = 0
    BY <1>1, FS_EmptySet
  <2> QED BY <2>1
<1>2. CASE S # {}
  <2>1. PICK a : a \in S
    BY <1>2
  <2>2. S = {a}
    BY <2>1
  <2>3. Cardinality(S) = 1
    BY <2>2, FS_Singleton
  <2> QED BY <2>3
<1> QED BY <1>1, <1>2

LEMMA QueuesImplied == ASSUME EffectsIInv PROVE QueuesInv
<1>1. QueueGoesOn
  <2> SUFFICES ASSUME Quiet, Sound, NEW e \in Elem, fx.queue[e] # <<>>
               PROVE  Head(fx.queue[e]) = InProgress /\ \E a \in Pending(e) : fx.anims[a].queued
    BY DEF QueueGoesOn
  <2>1. Turns(fx, {}, {}) /\ fx.stack = <<>>
    BY DEF EffectsIInv, Sound, Quiet
  <2>2. Head(fx.queue[e]) = InProgress
    BY <2>1 DEF Turns, HeadOk
  <2>3. HasTurn(fx.stack, fx.anims, e)
    BY <2>1 DEF Turns, Served
  <2>4. PICK a \in Anim : Serves(fx.anims, a, e)
    BY <2>1, <2>3 DEF HasTurn
  <2>5. a \in Pending(e) /\ fx.anims[a].queued
    BY <2>4 DEF Serves, Pending
  <2> QED BY <2>2, <2>5
<1>2. OneAtATime
  <2> SUFFICES ASSUME Sound, NEW e \in Elem PROVE Cardinality({a \in Pending(e) : fx.anims[a].queued}) <= 1
    BY DEF OneAtATime
  <2> DEFINE S == {a \in Pending(e) : fx.anims[a].queued}
  <2>1. Unique(fx.stack, fx.anims, {})
    BY DEF EffectsIInv, Sound, Turns
  <2>2. \A a, b \in S : a = b
    BY <2>1 DEF Unique, Serves, Pending
  <2>3. IsFiniteSet(S)
    <3>1. IsFiniteSet(Anim) /\ S \subseteq Anim
      BY EffectsAssumption, FS_Interval DEF Anim, Pending
    <3> QED BY <3>1, FS_Subset
  <2> HIDE DEF S
  <2>4. Cardinality(S) <= 1
    BY <2>2, <2>3, OneOrNone
  <2> QED BY <2>4 DEF S
<1> QED BY <1>1, <1>2 DEF QueuesInv

LEMMA PromisesImplied == ASSUME EffectsIInv PROVE PromisesKept
<1> SUFFICES ASSUME Quiet, Sound, NEW e \in Elem, fx.hooks[e].waiting > 0 PROVE Pending(e) # {}
  BY DEF PromisesKept
<1>1. Turns(fx, {}, {}) /\ fx.stack = <<>>
  BY DEF EffectsIInv, Sound, Quiet
<1>2. HasTurn(fx.stack, fx.anims, e) \/ Beside(fx.stack, fx.anims, e) # {}
  BY <1>1 DEF Turns, Watched
<1>3. CASE HasTurn(fx.stack, fx.anims, e)
  BY <1>1, <1>3 DEF HasTurn, Serves, Pending
<1>4. CASE Beside(fx.stack, fx.anims, e) # {}
  <2>1. PICK a : a \in Beside(fx.stack, fx.anims, e)
    BY <1>4
  <2>2. a \in Anim /\ fx.anims[a].of = e /\ fx.anims[a].state = "pending"
    BY <1>1, <2>1 DEF Beside, Leaving
  <2> QED BY <2>2 DEF Pending
<1> QED BY <1>2, <1>3, <1>4

\* No queue is left that nobody goes on with, and the animations of a queue run one
\* after the other, wherever stop, finish and the end of an animation meet: whatever
\* leaves the queue not empty leaves one call that has its turn (EffectsIInv).
THEOREM EffectsQueuesInv == Spec => []QueuesInv
BY EffectsAlways, QueuesImplied, PTL

\* Nobody waits for an element on which nothing moves any more: the last animation, of
\* the queue or beside it, fires hooks.empty.
THEOREM EffectsPromisesKept == Spec => []PromisesKept
BY EffectsAlways, PromisesImplied, PTL

-----------------------------------------------------------------------------
\* Who waits for an element is told when nothing moves on it any more, not before.
StillWait(s, t) == \A e \in Elem : s.hooks[e].waiting > 0 => t.hooks[e].waiting > 0
ToldWhenIdle(e) == fx.hooks[e].waiting > 0 /\ fx'.hooks[e].waiting = 0 => Pending(e)' = {}

LEMMA SweptHooks == ASSUME NEW s \in FxVars PROVE Sweep(s).hooks = s.hooks
BY SweepIs DEF Sweeps, Animated

LEMMA StillGoes ==
    ASSUME NEW s, Base(fx), s \in FxVars, StillWait(fx, s), fx' = Sweep(s), NEW e \in Elem
    PROVE  ToldWhenIdle(e)
<1>1. fx'.hooks = s.hooks
  BY SweptHooks
<1>2. s.hooks[e].waiting \in Nat
  BY FxIs DEF HookVars
<1> QED BY <1>1, <1>2 DEF StillWait, ToldWhenIdle

LEMMA IdleGoes ==
    ASSUME NEW s, NEW e \in Elem, s \in FxVars, fx' = Sweep(s), Turns(fx', {}, {}),
           s.hooks[e].unqueued = 0, \A a \in Anim : ~Serves(s.anims, a, e)
    PROVE  ToldWhenIdle(e)
<1> SUFFICES ASSUME NEW a \in Anim, fx'.anims[a].of = e, fx'.anims[a].state = "pending" PROVE FALSE
  BY DEF ToldWhenIdle, Pending
<1>1. fx'.hooks = s.hooks
  BY SweptHooks
<1>2. fx'.anims[a] \in {s.anims[a], Gone}
  BY SweptIs
<1>3. Gone.state = "gone"
  BY NotMadeIs
<1>4. fx'.anims[a] = s.anims[a]
  BY <1>2, <1>3
<1>5. ~fx'.anims[a].queued
  BY <1>4 DEF Serves
<1>6. a \in Beside(fx'.stack, fx'.anims, e)
  BY <1>5 DEF Beside
<1>7. Cardinality(Beside(fx'.stack, fx'.anims, e)) = 0
  BY <1>1 DEF Turns, Exact
<1> QED BY <1>6, <1>7, BesideFinite, FS_EmptySet

LEMMA DoAnimationWaits ==
    ASSUME NEW s \in FxVars, NEW a \in Anim, s.anims[a].of \in Elem
    PROVE  \A e \in Elem : DoAnimation(s, a).hooks[e].waiting = s.hooks[e].waiting
<1> DEFINE b == BegunOne(s, a) f == Of("timer", a) g == Of("step", a) u == Push(b, f) t == Push(u, g)
<1>1. Begins(s, a, b) /\ DoAnimation(s, a) = t
  BY DoAnimationIs
<1>2. b \in FxVars
  BY <1>1 DEF Begins
<1> HIDE DEF b
<1>3. Stacked(b, u) /\ Stacked(u, t)
  BY <1>2, TwoPushes
<1> HIDE DEF f, g, u, t
<1> QED BY <1>1, <1>3 DEF Begins, Stacked

LEMMA DequeueTells ==
    ASSUME NEW s, NEW e \in Elem, Base(s), StillWait(fx, s), fx' = Sweep(Dequeue(s, e)),
           Turns(fx', {}, {}), Base(fx), NEW d \in Elem, d = e => \A a \in Anim : ~Serves(s.anims, a, e)
    PROVE  ToldWhenIdle(d)
<1> DEFINE t == Dequeue(s, e)
<1>1. t \in FxVars /\ s \in FxVars
  BY BaseDequeues DEF Base
<1>2. PICK u : /\ Base(u) /\ Rearranged(s, u)
               /\ \A c \in Elem : u.hooks[c].waiting = s.hooks[c].waiting
               /\ \/ u.queue[e] = <<>> /\ t = EmptyFire(u, e)
                  \/ \E a : Fresh(u, a) /\ t = DoAnimation(u, a) /\ s.anims[a].of = e
  BY DequeueIs
<1>3. fx' = Sweep(t) /\ u \in FxVars /\ u.anims = s.anims
  BY <1>2 DEF Base, Rearranged
<1> HIDE DEF t
<1>4. CASE u.queue[e] = <<>> /\ t = EmptyFire(u, e)
  <2>1. /\ t.anims = u.anims /\ OnlyAt(u, e, t)
        /\ t.hooks = u.hooks \/ t.hooks[e].unqueued = 0
    BY <1>3, <1>4, FireKeeps
  <2>2. CASE t.hooks = u.hooks
    BY <1>1, <1>2, <1>3, <2>2, StillGoes DEF StillWait
  <2>3. CASE d # e
    <3>1. t.hooks[d].waiting \in Nat
      BY <1>1, FxIs DEF HookVars
    <3>2. t.hooks[d].waiting = s.hooks[d].waiting /\ fx'.hooks = t.hooks
      BY <1>1, <1>2, <1>3, <2>1, <2>3, SweptHooks DEF OnlyAt
    <3>3. fx.hooks[d].waiting > 0 => t.hooks[d].waiting # 0
      BY <3>1, <3>2 DEF StillWait
    <3> QED BY <3>2, <3>3 DEF ToldWhenIdle
  <2>4. CASE d = e /\ t.hooks[e].unqueued = 0
    BY <1>1, <1>3, <2>1, <2>4, IdleGoes
  <2> QED BY <2>1, <2>2, <2>3, <2>4
<1>5. CASE \E a : Fresh(u, a) /\ t = DoAnimation(u, a) /\ s.anims[a].of = e
  <2>1. PICK a : Fresh(u, a) /\ t = DoAnimation(u, a) /\ s.anims[a].of = e
    BY <1>5
  <2>2. a \in Anim /\ u.anims[a].of \in Elem
    BY <1>3, <2>1 DEF Fresh
  <2>3. \A c \in Elem : t.hooks[c].waiting = u.hooks[c].waiting
    BY <1>3, <2>1, <2>2, DoAnimationWaits
  <2>4. StillWait(fx, t)
    BY <1>2, <2>3 DEF StillWait
  <2> QED BY <1>1, <1>3, <2>4, StillGoes
<1> QED BY <1>2, <1>4, <1>5

LEMMA TellsDequeueNext ==
    ASSUME Base(fx), Turns(fx, {}, {}), Turns(fx', {}, {}), DequeueNext, NEW d \in Elem
    PROVE  ToldWhenIdle(d)
<1> DEFINE f == fx.stack[Len(fx.stack)] e == fx.anims[Top.a].of s == Pop(fx)
<1>1. fx.stack # <<>> /\ f.at = "complete" /\ fx.anims[f.a].of = e /\ fx' = Sweep(Dequeue(s, e))
  BY DEF DequeueNext, At, Top, Goes
<1>2. e \in Elem /\ Len(fx.stack) \in DOMAIN fx.stack
  BY <1>1, TopIs DEF AnimFrames
<1>3. Base(s) /\ s.anims = fx.anims /\ StillWait(fx, s)
  BY <1>1, BasePop, PopIs DEF Base, Stacked, StillWait
<1> HIDE DEF s, e
<1>4. \A a \in Anim : ~Serves(fx.anims, a, e)
  BY <1>1, <1>2 DEF Turns, Unique, Hands
<1> QED BY <1>1, <1>2, <1>3, <1>4, DequeueTells

LEMMA TellsStopEnds ==
    ASSUME Base(fx), Turns(fx, {}, {}), Turns(fx', {}, {}), StopEnds, NEW d \in Elem
    PROVE  ToldWhenIdle(d)
<1> DEFINE f == fx.stack[Len(fx.stack)] e == f.a s == Pop(fx)
<1>1. fx.stack # <<>> /\ f.at = "loop" /\ f.i = 0
      /\ (((f.dequeue \/ ~f.end) /\ fx' = Sweep(Dequeue(s, e))) \/ fx' = Sweep(s))
  BY DEF StopEnds, At, Top, Goes
<1>2. e \in Elem
  BY <1>1, TopIs DEF ElemFrames
<1>3. Base(s) /\ s \in FxVars /\ s.anims = fx.anims /\ StillWait(fx, s)
  BY <1>1, BasePop, PopIs DEF Base, Stacked, StillWait
<1>4. \A a \in Anim : Serves(fx.anims, a, e) => Follows(f, fx.queue[e])
  BY <1>1, StopIsOver
<1> HIDE DEF s, e, f
<1>5. CASE (f.dequeue \/ ~f.end) /\ fx' = Sweep(Dequeue(s, e))
  BY <1>2, <1>3, <1>4, <1>5, DequeueTells DEF Follows
<1>6. CASE fx' = Sweep(s)
  BY <1>3, <1>6, StillGoes
<1> QED BY <1>1, <1>5, <1>6

LEMMA TellsUnqueue ==
    ASSUME Base(fx), Turns(fx, {}, {}), Turns(fx', {}, {}), Unqueue, NEW d \in Elem
    PROVE  ToldWhenIdle(d)
<1> DEFINE f == fx.stack[Len(fx.stack)] a == Top.a e == fx.anims[a].of p == Pop(fx) l == LessOne(p, e) t == EmptyFire(l, e)
<1>1. fx.stack # <<>> /\ At("unqueue") /\ f.at = "unqueue" /\ f.a = a
      /\ fx' = Sweep(IF fx.queue[e] = <<>> THEN t ELSE l)
  BY DEF Unqueue, At, LessOne, Top, Goes
<1>2. e \in Elem /\ f = fx.stack[Len(fx.stack)] /\ e = fx.anims[f.a].of
  BY <1>1, TopIs DEF AnimFrames
<1>3. Base(p) /\ Stacked(fx, p)
  BY <1>1, BasePop, PopIs DEF Base
<1>4. Base(l) /\ l \in FxVars
  BY <1>1, BaseLess DEF Base
<1>5. /\ Rearranged(p, l) /\ l.queue = p.queue
      /\ \A c \in Elem : l.hooks[c].waiting = p.hooks[c].waiting
  BY <1>2, <1>3, LessIs DEF Base
<1>6. t \in FxVars
  BY <1>2, <1>4, BaseEmptyFire DEF Base
<1> HIDE DEF p, e, a, f, l
<1>7. l.anims = fx.anims /\ l.queue = fx.queue /\ StillWait(fx, l)
  BY <1>3, <1>5 DEF Rearranged, Stacked, StillWait
<1>8. CASE fx.queue[e] # <<>>
  BY <1>1, <1>4, <1>7, <1>8, StillGoes
<1>9. CASE fx.queue[e] = <<>>
  <2>1. /\ t.anims = l.anims /\ OnlyAt(l, e, t)
        /\ t.hooks = l.hooks \/ t.hooks[e].unqueued = 0
    BY ZenonT(30), <1>2, <1>4, <1>7, <1>9, FireKeeps
  <2>2. fx' = Sweep(t)
    BY <1>1, <1>9
  <2> HIDE DEF t
  <2>3. CASE t.hooks = l.hooks
    BY <1>6, <1>7, <2>2, <2>3, StillGoes DEF StillWait
  <2>4. CASE d # e
    <3>1. t.hooks[d].waiting \in Nat
      BY <1>6, FxIs DEF HookVars
    <3>2. t.hooks[d].waiting = l.hooks[d].waiting /\ fx'.hooks = t.hooks
      BY <1>6, <2>1, <2>2, <2>4, SweptHooks DEF OnlyAt
    <3>3. fx.hooks[d].waiting > 0 => t.hooks[d].waiting # 0
      BY <1>7, <3>1, <3>2 DEF StillWait
    <3> QED BY <3>2, <3>3 DEF ToldWhenIdle
  <2>5. CASE d = e /\ t.hooks[e].unqueued = 0
    <3>1. CASE fx.hooks[e].waiting > 0
      <4>1. ASSUME NEW b \in Anim, Serves(fx.anims, b, e) PROVE FALSE
        <5>1. PICK k \in DOMAIN fx.stack : StopsOf(fx.stack[k], e) /\ fx.stack[k].todo # <<>>
          <6>1. HasTurn(fx.stack, fx.anims, e)
            BY <4>1 DEF HasTurn
          <6>2. ~(fx.hooks[e].waiting = 0)
            BY <3>1
          <6> QED BY <1>2, <1>9, <6>1, <6>2 DEF Turns, EmptiedOk
        <5>2. Len(fx.stack) \in DOMAIN fx.stack /\ Len(fx.stack) > k
          <6>1. Len(fx.stack) \in DOMAIN fx.stack /\ DOMAIN fx.stack = 1 .. Len(fx.stack) /\ Len(fx.stack) \in Nat
            BY <1>1, TopIs
          <6>2. k # Len(fx.stack)
            BY <1>1, <1>2, <5>1 DEF StopsOf, ElemFrames
          <6> QED BY <6>1, <6>2
        <5>3. fx.anims[f.a].queued
          <6>1. Finishing(fx.stack, fx.anims, fx.queue, fx.finish)
            BY DEF Turns
          <6>2. \A i \in DOMAIN fx.stack :
                  i > k /\ fx.stack[i].at \in {"end", "complete", "unqueue", "timer", "made"}
                    /\ fx.anims[fx.stack[i].a].of = e => fx.anims[fx.stack[i].a].queued
            BY <5>1, <6>1 DEF Finishing, StopsOf
          <6> QED BY <1>1, <1>2, <5>2, <6>2
        <5>4. ~fx.anims[f.a].queued
          BY <1>1, <1>2, <5>2 DEF Base, LeaveOk
        <5> QED BY <5>3, <5>4
      <4> QED BY <1>2, <1>6, <1>7, <2>1, <2>2, <2>5, <4>1, IdleGoes
    <3>2. CASE ~(fx.hooks[e].waiting > 0)
      BY <2>5, <3>2 DEF ToldWhenIdle
    <3> QED BY <3>1, <3>2
  <2> QED BY <2>1, <2>3, <2>4, <2>5
<1> QED BY <1>8, <1>9


\* Whatever the other fields are, the hooks are left alone.
Whole(s) ==
    \E tm, id, an, qu, hk, fi, st :
        s = [timers |-> tm, timerId |-> id, anims |-> an, queue |-> qu, hooks |-> hk, finish |-> fi, stack |-> st]
Leaves(s, t) == Whole(t) /\ t.hooks = s.hooks

LEMMA WholeIs ==
    ASSUME NEW s, Whole(s), NEW t, NEW x,
           \/ t = [s EXCEPT !.stack = x] \/ t = [s EXCEPT !.anims = x] \/ t = [s EXCEPT !.timers = x]
           \/ t = [s EXCEPT !.timerId = x] \/ t = [s EXCEPT !.finish = x] \/ t = [s EXCEPT !.queue = x]
    PROVE  Leaves(s, t)
<1>1. PICK tm, id, an, qu, hk, fi, st :
        s = [timers |-> tm, timerId |-> id, anims |-> an, queue |-> qu, hooks |-> hk, finish |-> fi, stack |-> st]
  BY DEF Whole
<1>2. s.hooks = hk
  BY <1>1
<1>3. \E tn, ie, am, qn, fj, su :
        t = [timers |-> tn, timerId |-> ie, anims |-> am, queue |-> qn, hooks |-> hk, finish |-> fj, stack |-> su]
  BY <1>1
<1>4. t.hooks = hk
  BY <1>3
<1> QED BY <1>2, <1>3, <1>4 DEF Leaves, Whole

LEMMA WholeFx == ASSUME NEW s \in FxVars PROVE Whole(s)
BY DEF FxVars, Whole

LEMMA StackLeaves ==
    ASSUME NEW s, Whole(s), NEW f
    PROVE  Leaves(s, Push(s, f)) /\ Leaves(s, Pop(s)) /\ Leaves(s, GoTo(s, f))
<1>1. GoTo(s, f) = [s EXCEPT !.stack = [s.stack EXCEPT ![Len(s.stack)] = f]]
  BY Zenon DEF GoTo
<1>2. Push(s, f) = [s EXCEPT !.stack = Append(s.stack, f)]
  BY Zenon DEF Push
<1>3. Pop(s) = [s EXCEPT !.stack = Front(s.stack)]
  BY Zenon DEF Pop
<1>4. Leaves(s, Push(s, f))
  BY <1>2, WholeIs, Zenon
<1>5. Leaves(s, Pop(s))
  BY <1>3, WholeIs, Zenon
<1>6. Leaves(s, GoTo(s, f))
  BY <1>1, WholeIs, Zenon
<1> QED BY <1>4, <1>5, <1>6

LEMMA SweepLeaves == ASSUME NEW s, Whole(s) PROVE Leaves(s, Sweep(s))
<1> DEFINE kept == ToSet(s.timers) \cup {s.stack[i].a : i \in DOMAIN s.stack}
                     \cup (UNION {ToSet(s.queue[e]) : e \in Elem})
                     \cup (UNION {ToSet(s.stack[i].todo) : i \in DOMAIN s.stack})
           x == [b \in Anim |-> IF s.anims[b].state \notin {"new", "pending"} /\ b \notin kept
                                  THEN Gone ELSE s.anims[b]]
<1>1. Sweep(s) = [s EXCEPT !.anims = x]
  BY Zenon DEF Sweep
<1> HIDE DEF x, kept
<1> QED BY <1>1, WholeIs, Zenon

LEMMA SettleLeaves == ASSUME NEW s, Whole(s), NEW a, NEW out PROVE Leaves(s, Settle(s, a, out))
<1> DEFINE u == SettledOne(s, a, out) g == Of("unqueue", a) c == IF s.anims[a].queued THEN u ELSE Push(u, g)
           x == [s.anims EXCEPT ![a].state = out, ![a].elem = FALSE]
           h == IF c.anims[a].queued THEN Of("complete", a) ELSE User
<1>1. u = [s EXCEPT !.anims = x]
  BY Zenon DEF SettledOne
<1>2. Settle(s, a, out) = IF s.anims[a].state # "pending" THEN s
                          ELSE IF out = "resolved" /\ s.anims[a].attached THEN Push(c, h) ELSE c
  BY DEF Settle, SettledOne, Complete
<1> HIDE DEF x, u, g, h
<1>3. Leaves(s, u)
  BY <1>1, WholeIs
<1>4. Leaves(s, c)
  BY <1>3, StackLeaves DEF Leaves
<1> HIDE DEF c
<1>5. Leaves(s, Push(c, h))
  BY <1>4, StackLeaves DEF Leaves
<1>6. Leaves(s, s)
  BY DEF Leaves
<1> QED BY <1>2, <1>4, <1>5, <1>6

LEMMA StopAnimLeaves == ASSUME NEW s, Whole(s), NEW a, NEW end PROVE Leaves(s, StopAnim(s, a, end))
<1> DEFINE u == StoppedOne(s, a) g == Of("end", a) x == [s.anims EXCEPT ![a].stopped = TRUE]
<1>1. u = [s EXCEPT !.anims = x]
  BY Zenon DEF StoppedOne
<1>2. StopAnim(s, a, end) = IF s.anims[a].stopped THEN s ELSE IF end THEN Push(u, g) ELSE Settle(u, a, "rejected")
  BY DEF StopAnim, StoppedOne
<1> HIDE DEF x, u, g
<1>3. Leaves(s, u)
  BY <1>1, WholeIs
<1>4. Leaves(s, Push(u, g)) /\ Leaves(s, Settle(u, a, "rejected"))
  BY <1>3, StackLeaves, SettleLeaves DEF Leaves
<1>5. Leaves(s, s)
  BY DEF Leaves
<1> QED BY <1>2, <1>4, <1>5

\* The hooks are not touched: nobody is told.
LEMMA NobodyTold ==
    ASSUME NEW s, Base(fx), Leaves(fx, s), fx' = Sweep(s), NEW d \in Elem
    PROVE  ToldWhenIdle(d)
<1>1. fx'.hooks = fx.hooks
  BY SweepLeaves DEF Leaves
<1>2. fx.hooks[d].waiting \in Nat
  BY FxIs DEF Base, HookVars
<1> QED BY <1>1, <1>2 DEF ToldWhenIdle

LEMMA LeavesOn == ASSUME NEW s, NEW t, NEW u, Leaves(s, t), Leaves(t, u) PROVE Leaves(s, u)
BY DEF Leaves

LEMMA AnswerLeaves ==
    ASSUME NEW s, Whole(s), NEW n, NEW b
    PROVE  Leaves(s, [s EXCEPT !.stack[n].end = b])
<1> DEFINE x == [s.stack EXCEPT ![n].end = b] t == [s EXCEPT !.stack[n].end = b]
<1>1. t = [s EXCEPT !.stack = x]
  BY Zenon
<1> HIDE DEF x, t
<1>2. Leaves(s, t)
  BY <1>1, WholeIs, Zenon
<1> QED BY <1>2 DEF t

LEMMA TellsTick ==
    ASSUME Base(fx), NEW d \in Elem, Return \/ FxTick \/ TickNext \/ Ticked \/ TickEnds
    PROVE  ToldWhenIdle(d)
<1>1. Whole(fx)
  BY WholeFx DEF Base
<1>2. CASE Return
  <2>1. fx' = Sweep(Pop(fx)) /\ Leaves(fx, Pop(fx))
    BY <1>1, <1>2, StackLeaves DEF Return, Goes
  <2> QED BY <2>1, NobodyTold
<1>3. CASE FxTick
  <2>1. PICK f : fx' = Sweep(Push(fx, f))
    BY <1>3 DEF FxTick, Goes
  <2>2. Leaves(fx, Push(fx, f))
    BY <1>1, StackLeaves
  <2> QED BY <2>1, <2>2, NobodyTold
<1>4. CASE TickNext
  <2>1. PICK f, g : fx' = Sweep(GoTo(GoTo(fx, f), g)) \/ fx' = Sweep(Push(GoTo(fx, f), g))
    BY <1>4 DEF TickNext, Goes
  <2>2. Leaves(fx, GoTo(fx, f))
    BY <1>1, StackLeaves
  <2>3. Leaves(fx, GoTo(GoTo(fx, f), g)) /\ Leaves(fx, Push(GoTo(fx, f), g))
    <3>1. Leaves(GoTo(fx, f), GoTo(GoTo(fx, f), g)) /\ Leaves(GoTo(fx, f), Push(GoTo(fx, f), g))
      BY <2>2, StackLeaves DEF Leaves
    <3> QED BY <2>2, <3>1, LeavesOn
  <2> QED BY <2>1, <2>3, NobodyTold
<1>5. CASE Ticked
  <2>1. PICK u, f, x : fx' = Sweep(GoTo(u, f)) /\ (u = fx \/ u = [fx EXCEPT !.timers = x])
    <3> DEFINE x == RemoveAt(fx.timers, Top.i) u == [fx EXCEPT !.timers = x]
    <3>1. u = [fx EXCEPT !.timers = RemoveAt(@, Top.i)]
      OBVIOUS
    <3>2. \E f : fx' = Sweep(GoTo(u, f)) \/ fx' = Sweep(GoTo(fx, f))
      BY <1>5, <3>1, Zenon DEF Ticked, Goes
    <3> QED BY <3>2, Zenon
  <2>2. Leaves(fx, u)
    BY <1>1, <2>1, WholeIs, Zenon DEF Leaves
  <2>3. Leaves(fx, GoTo(u, f))
    BY <2>2, StackLeaves, LeavesOn DEF Leaves
  <2> QED BY <2>1, <2>3, NobodyTold
<1>6. CASE TickEnds
  <2>1. fx' = Sweep([Pop(fx) EXCEPT !.timerId = fx.timers # <<>>])
    BY <1>6 DEF TickEnds, Goes
  <2> DEFINE p == Pop(fx) x == fx.timers # <<>> t == [p EXCEPT !.timerId = x]
  <2>2. fx' = Sweep(t) /\ t = [p EXCEPT !.timerId = x]
    BY <2>1
  <2>3. Leaves(fx, p)
    BY <1>1, StackLeaves
  <2> HIDE DEF p, x, t
  <2>4. Leaves(p, t)
    BY <2>2, <2>3, WholeIs, Zenon DEF Leaves
  <2> QED BY <2>2, <2>3, <2>4, LeavesOn, NobodyTold
<1> QED BY <1>2, <1>3, <1>4, <1>5, <1>6

LEMMA TellsEnd ==
    ASSUME Base(fx), NEW d \in Elem, End \/ Ended \/ Timer \/ Made \/ \E due \in BOOLEAN : StepDone(due)
    PROVE  ToldWhenIdle(d)
<1>1. Whole(fx)
  BY WholeFx DEF Base
<1> DEFINE p == Pop(fx) a == Top.a n == Len(fx.stack) - 1
<1>2. Leaves(fx, p)
  BY <1>1, StackLeaves
<1>3. Whole(p)
  BY <1>2 DEF Leaves
<1>4. CASE End
  <2>1. fx' = Sweep(Settle(p, a, "resolved"))
    BY <1>4 DEF End, Goes
  <2>2. Leaves(p, Settle(p, a, "resolved"))
    BY <1>3, SettleLeaves
  <2> HIDE DEF p, a
  <2> QED BY <1>2, <2>1, <2>2, LeavesOn, NobodyTold
<1>5. CASE Ended
  <2>1. fx' = Sweep([p EXCEPT !.stack[n].end = FALSE])
    BY <1>5 DEF Ended, Goes
  <2> HIDE DEF p, a, n
  <2>2. Leaves(p, [p EXCEPT !.stack[n].end = FALSE])
    BY <1>3, AnswerLeaves, Zenon
  <2> QED BY <1>2, <2>1, <2>2, LeavesOn, NobodyTold
<1>6. CASE Timer
  <2>1. fx' = Sweep(TimerMade) \/ fx' = Sweep(Complete(TimerMade, a))
    BY <1>6 DEF Timer, TimerMade, TimerAttached, TimerStarted, AttachedOne, Goes
  <2>2. Leaves(fx, TimerStarted)
    <3> DEFINE yes == TRUE x == Front(fx.timers)
    <3>1. TimerStarted = [fx EXCEPT !.timerId = yes] \/ TimerStarted = [fx EXCEPT !.timers = x]
      BY Zenon DEF TimerStarted
    <3> HIDE DEF yes, x
    <3> QED BY <1>1, <3>1, WholeIs, Zenon
  <2>3. Leaves(TimerStarted, TimerAttached)
    <3> DEFINE x == [TimerStarted.anims EXCEPT ![a].attached = TRUE]
    <3>1. TimerAttached = [TimerStarted EXCEPT !.anims = x]
      BY Zenon DEF TimerAttached, AttachedOne
    <3> HIDE DEF x
    <3> QED BY <2>2, <3>1, WholeIs, Zenon DEF Leaves
  <2>4. Leaves(TimerAttached, TimerMade)
    BY <2>3, StackLeaves DEF Leaves, TimerMade
  <2>5. Leaves(TimerMade, Complete(TimerMade, a))
    BY <2>4, StackLeaves DEF Leaves, Complete
  <2>6. Leaves(fx, TimerMade)
    BY <2>2, <2>3, <2>4, LeavesOn
  <2>7. Leaves(fx, Complete(TimerMade, a))
    BY <2>5, <2>6, LeavesOn
  <2> QED BY <2>1, <2>6, <2>7, NobodyTold
<1>7. CASE Made
  <2>1. fx' = Sweep(StopAnim(p, a, TRUE)) \/ fx' = Sweep(p)
    BY <1>7 DEF Made, Goes
  <2>2. Leaves(p, StopAnim(p, a, TRUE))
    BY <1>3, StopAnimLeaves
  <2> HIDE DEF p, a
  <2> QED BY <1>2, <2>1, <2>2, LeavesOn, NobodyTold
<1>8. CASE \E due \in BOOLEAN : StepDone(due)
  <2>1. \/ fx' = Sweep(Settle(GoTo(fx, EndedFrame), a, "resolved"))
        \/ fx' = Sweep([p EXCEPT !.stack[n].end = TRUE])
    BY <1>8 DEF StepDone, EndedFrame, Goes
  <2>2. Leaves(fx, GoTo(fx, EndedFrame))
    BY <1>1, StackLeaves
  <2> HIDE DEF p, a, n
  <2>3. Leaves(GoTo(fx, EndedFrame), Settle(GoTo(fx, EndedFrame), a, "resolved"))
    BY <2>2, SettleLeaves DEF Leaves
  <2>4. Leaves(p, [p EXCEPT !.stack[n].end = TRUE])
    BY <1>3, AnswerLeaves, Zenon
  <2> QED BY <1>2, <2>1, <2>2, <2>3, <2>4, LeavesOn, NobodyTold
<1> QED BY <1>4, <1>5, <1>6, <1>7, <1>8

LEMMA HooksTold == ASSUME Base(fx), fx'.hooks = fx.hooks, NEW d \in Elem PROVE ToldWhenIdle(d)
<1>1. fx.hooks[d].waiting \in Nat
  BY FxIs DEF Base, HookVars
<1> QED BY <1>1 DEF ToldWhenIdle

LEMMA TellsLoop ==
    ASSUME Base(fx), NEW d \in Elem, StopStart \/ StopLoop \/ Splice \/ FinishNext
    PROVE  ToldWhenIdle(d)
<1>1. Whole(fx) /\ fx \in FxVars
  BY WholeFx DEF Base
<1>2. CASE StopStart
  <2>1. PICK f : fx' = Sweep(GoTo(fx, f))
    BY <1>2 DEF StopStart, Goes
  <2>2. Leaves(fx, GoTo(fx, f))
    BY <1>1, StackLeaves
  <2> QED BY <2>1, <2>2, NobodyTold
<1>3. CASE StopLoop
  <2>1. \/ \E f, a, end : fx' = Sweep(StopAnim(GoTo(fx, f), a, end))
        \/ \E f : fx' = Sweep(GoTo(fx, f))
        \/ fx' = [fx EXCEPT !.stack = <<>>]
    BY <1>3 DEF StopLoop, Goes
  <2>2. CASE \E f, a, end : fx' = Sweep(StopAnim(GoTo(fx, f), a, end))
    <3>1. PICK f, a, end : fx' = Sweep(StopAnim(GoTo(fx, f), a, end))
      BY <2>2
    <3>2. Leaves(fx, GoTo(fx, f))
      BY <1>1, StackLeaves
    <3>3. Leaves(GoTo(fx, f), StopAnim(GoTo(fx, f), a, end))
      BY <3>2, StopAnimLeaves DEF Leaves
    <3> QED BY <3>1, <3>2, <3>3, LeavesOn, NobodyTold
  <2>3. CASE \E f : fx' = Sweep(GoTo(fx, f))
    <3>1. PICK f : fx' = Sweep(GoTo(fx, f))
      BY <2>3
    <3>2. Leaves(fx, GoTo(fx, f))
      BY <1>1, StackLeaves
    <3> QED BY <3>1, <3>2, NobodyTold
  <2>4. CASE fx' = [fx EXCEPT !.stack = <<>>]
    <3>1. Leaves(fx, fx')
      BY <1>1, <2>4, WholeIs, Zenon
    <3> QED BY <3>1, HooksTold DEF Leaves
  <2> QED BY <2>1, <2>2, <2>3, <2>4
<1>4. CASE Splice
  <2> DEFINE x == SplicedTimers u == [fx EXCEPT !.timers = x]
  <2>1. PICK f : fx' = Sweep(GoTo(u, f))
    BY <1>4, Zenon DEF Splice, SplicedTimers, Goes
  <2>2. u = [fx EXCEPT !.timers = x]
    OBVIOUS
  <2> HIDE DEF x, u
  <2>3. Leaves(fx, u)
    BY <1>1, <2>2, WholeIs, Zenon
  <2>4. Leaves(u, GoTo(u, f))
    BY <2>3, StackLeaves DEF Leaves
  <2> QED BY <2>1, <2>3, <2>4, LeavesOn, NobodyTold
<1>5. CASE FinishNext
  <2> DEFINE f == Top q == f.todo r == Tail(q) p == FinishSet(Pop(fx), f.a, FALSE) t == GoTo(fx, FinishFrame)
             u == DoAnimation(t, Head(r))
  <2>1. /\ fx.stack # <<>> /\ Top.at = "loop" /\ Top.i = 0 /\ Top.todo # <<>> /\ f = fx.stack[Len(fx.stack)]
        /\ fx' = Sweep(IF r = <<>> THEN p ELSE IF Head(r) = InProgress THEN t ELSE u)
    BY <1>5 DEF FinishNext, At, FinishSet, FinishFrame, Top, Goes
  <2>2. /\ f.a \in Elem /\ Stacked(fx, t)
        /\ r # <<>> => Head(r) = q[2] /\ 2 \in DOMAIN q
    BY <2>1, FinishIs
  <2>3. Leaves(fx, t)
    BY <1>1, StackLeaves
  <2>4. Leaves(fx, p)
    <3> DEFINE s == Pop(fx) no == FALSE x == [s.finish EXCEPT ![f.a] = no]
    <3>1. p = [s EXCEPT !.finish = x]
      BY Zenon DEF FinishSet
    <3>2. Leaves(fx, s)
      BY <1>1, StackLeaves
    <3> HIDE DEF p, s, x
    <3>3. Leaves(s, p)
      BY <3>1, <3>2, WholeIs, Zenon DEF Leaves
    <3> QED BY <3>2, <3>3, LeavesOn
  <2> HIDE DEF p, t, r, q, f
  <2>5. CASE r = <<>> \/ Head(r) = InProgress
    BY <2>1, <2>3, <2>4, <2>5, NobodyTold
  <2>6. CASE r # <<>> /\ Head(r) # InProgress
    <3> DEFINE a == Head(r)
    <3>1. 2 \in DOMAIN f.todo /\ a = f.todo[2] /\ a # InProgress /\ f.at = "loop" /\ f = fx.stack[Len(fx.stack)]
      BY <2>1, <2>2, <2>6 DEF q, f
    <3> HIDE DEF a
    <3>2. a \in Anim /\ fx.anims[a].of \in Elem
      BY <2>1, <2>2, <3>1, NextIs
    <3>3. t \in FxVars /\ t.anims = fx.anims /\ t.hooks = fx.hooks
      BY <2>2 DEF Stacked
    <3>4. \A c \in Elem : DoAnimation(t, a).hooks[c].waiting = t.hooks[c].waiting
      BY <3>2, <3>3, DoAnimationWaits
    <3>5. fx' = Sweep(u) /\ u = DoAnimation(t, a)
      BY <2>1, <2>6 DEF a
    <3>6. u \in FxVars
      BY <2>1, <2>6, BaseFinishes DEF Base, a, u, r, q, f, t
    <3> HIDE DEF u
    <3>7. StillWait(fx, u)
      BY <3>3, <3>4, <3>5 DEF StillWait
    <3> QED BY <3>5, <3>6, <3>7, StillGoes
  <2> QED BY <2>5, <2>6
<1> QED BY <1>2, <1>3, <1>4, <1>5

LEMMA TellsPromise ==
    ASSUME NEW e \in Elem, Base(fx), Promise(e), NEW d \in Elem
    PROVE  ToldWhenIdle(d)
<1> DEFINE t == MoreWaiting(fx, e)
<1>1. fx' = Sweep(t)
  BY Zenon DEF Promise, MoreWaiting, Call
<1>2. t \in FxVars /\ OnlyAt(fx, e, t) /\ t.hooks[e].waiting = fx.hooks[e].waiting + 1
  BY MoreIs DEF Rearranged, Base
<1> HIDE DEF t
<1>3. fx.hooks[e].waiting \in Nat
  BY FxIs DEF Base, HookVars
<1>4. StillWait(fx, t)
  BY <1>2, <1>3 DEF StillWait, OnlyAt
<1> QED BY <1>1, <1>2, <1>4, StillGoes

LEMMA TellsFinish ==
    ASSUME NEW e \in Elem, Base(fx), Finish(e), NEW d \in Elem
    PROVE  ToldWhenIdle(d)
<1> DEFINE v == FinishStart(e) t == Push(v, FinishCall(e))
<1>1. fx' = Sweep(t)
  BY FinishIsCall DEF Call
<1>2. Whole(fx)
  BY WholeFx DEF Base
<1>3. Leaves(fx, v)
  <2> DEFINE x == [fx.finish EXCEPT ![e] = TRUE] u == FinishSet(fx, e, TRUE) y == [u.queue EXCEPT ![e] = <<>>]
  <2>1. u = [fx EXCEPT !.finish = x]
    BY Zenon DEF FinishSet
  <2>2. v = [u EXCEPT !.queue = y]
    BY Zenon DEF FinishStart, QueueSet
  <2> HIDE DEF x, u, y, v
  <2>3. Leaves(fx, u)
    BY <1>2, <2>1, WholeIs, Zenon
  <2>4. Leaves(u, v)
    BY <2>2, <2>3, WholeIs, Zenon DEF Leaves
  <2> QED BY <2>3, <2>4, LeavesOn
<1> HIDE DEF v
<1>4. Leaves(v, t)
  BY <1>3, StackLeaves DEF Leaves
<1> QED BY <1>1, <1>3, <1>4, LeavesOn, NobodyTold

LEMMA TellsStop ==
    ASSUME NEW e \in Elem, NEW clear \in BOOLEAN, NEW end \in BOOLEAN, Base(fx), Turns(fx', {}, {}),
           Stop(e, clear, end), odd' = {}, NEW d \in Elem
    PROVE  ToldWhenIdle(d)
<1> DEFINE f == StopFrame(e, end) t == Push(fx, f) none == <<>> c == QueueSet(t, e, none) h == QueueHooks(c, e)
           u == Queue(t, e, none)
           more == IF clear /\ fx.hooks[e].waiting > 0 THEN Odd(Elem) \cup OddStop(e) \cup {"early"}
                   ELSE Odd(Elem) \cup OddStop(e)
<1>1. Call(IF clear THEN u ELSE t, more)
  BY Zenon DEF Stop, StopFrame
<1>2. clear => ~(fx.hooks[e].waiting > 0)
  <2>1. more = {}
    BY <1>1, CallIs
  <2>2. "early" \notin more
    BY <2>1
  <2> QED BY <2>2
<1>3. f \in FrameVars /\ f.at = "stop" /\ f.a = e /\ f.todo = <<>>
  BY StopFrameIs
<1>4. u = IF none # <<>> /\ Head(none) = InProgress THEN h ELSE Dequeue(h, e)
  BY DEF Queue, QueueSet
<1>5. none = <<>> /\ none \in Entries
  BY EmptySeq DEF Entries
<1>6. fx' = Sweep(IF clear THEN u ELSE t)
  BY <1>1 DEF Call
<1> HIDE DEF f, u, more
<1>7. FrameFits(fx.stack, fx.anims, f)
  BY <1>3 DEF FrameFits, AnimFrames
<1>8. Stacked(fx, t) /\ Base(t)
  BY <1>3, <1>7, PushIs, BaseAdds DEF Base
<1> HIDE DEF t, none, c, h
<1>9. CASE ~clear
  <2>1. StillWait(fx, t) /\ t \in FxVars
    BY <1>8 DEF Stacked, StillWait
  <2> QED BY <1>6, <1>9, <2>1, StillGoes
<1>10. CASE clear
  <2>1. Base(c)
    BY <1>5, <1>8, BaseEmptied DEF c
  <2>2. Requeued(t, e, none, c)
    BY <1>5, <1>8, QueueSetIs DEF Base, c
  <2>3. Hooked(c, h) /\ Base(h)
    BY <2>1, QueueHooksIs, BaseHooked DEF h, Base
  <2>4. StillWait(fx, h)
    BY <1>8, <2>2, <2>3 DEF Requeued, Hooked, Stacked, StillWait
  <2>5. fx' = Sweep(Dequeue(h, e))
    BY <1>4, <1>5, <1>6, <1>10
  <2>6. CASE d # e
    BY <2>3, <2>4, <2>5, <2>6, DequeueTells
  <2>7. CASE d = e
    BY <1>2, <1>10, <2>7 DEF ToldWhenIdle
  <2> QED BY <2>6, <2>7
<1> QED BY <1>9, <1>10

LEMMA TellsQueued ==
    ASSUME NEW s, NEW a \in Anim, NEW e \in Elem, Base(fx), Base(s), StillWait(fx, s), Turns(s, {}, {}), Turns(fx', {}, {}),
           NEW q, q = Append(s.queue[e], a), q \in Entries, Base(QueueSet(s, e, q)), fx' = Sweep(Queue(s, e, q)),
           \A k \in DOMAIN s.stack : ~StopsOf(s.stack[k], e), NEW d \in Elem
    PROVE  ToldWhenIdle(d)
<1> DEFINE p == s.queue[e] c == QueueSet(s, e, q) h == QueueHooks(c, e) t == Queue(s, e, q)
<1>1. s \in FxVars /\ p \in Seq(Anim \cup {InProgress}) /\ c \in FxVars
  BY FxIs DEF Base, Entries
<1>2. Requeued(s, e, q, c)
  BY <1>1, QueueSetIs
<1>3. Hooked(c, h) /\ Base(h)
  BY <1>1, QueueHooksIs, BaseHooked
<1>4. t = IF q # <<>> /\ Head(q) = InProgress THEN h ELSE Dequeue(h, e)
  BY DEF Queue, QueueSet
<1> HIDE DEF c, h
<1>5. StillWait(fx, h) /\ h.anims = s.anims
  BY <1>2, <1>3 DEF Requeued, Hooked, Rearranged, StillWait
<1>6. ~HasTurn(s.stack, s.anims, e) \/ p # <<>>
  BY DEF Turns, EmptiedOk
<1>7. CASE t = h
  BY <1>3, <1>5, <1>7, StillGoes DEF Base
<1>8. CASE t = Dequeue(h, e) /\ ~HasTurn(s.stack, s.anims, e)
  BY <1>3, <1>5, <1>8, DequeueTells DEF HasTurn
<1>9. CASE t = Dequeue(h, e) /\ t # h /\ p # <<>>
  <2> HIDE DEF t, p
  <2>1. Head(p) = InProgress
    BY <1>9 DEF Turns, HeadOk, p
  <2>2. q # <<>> /\ Head(q) = Head(p)
    <3>1. Len(p) \in Nat /\ Len(p) > 0 /\ q = Append(p, a)
      BY <1>1, <1>9 DEF p
    <3>2. Len(q) = Len(p) + 1 /\ q[1] = p[1]
      BY <1>1, <3>1
    <3>3. q # <<>> /\ Head(q) = q[1] /\ Head(p) = p[1]
      BY <1>1, <1>9, <3>1, <3>2
    <3> QED BY <3>2, <3>3
  <2> QED BY <1>4, <1>9, <2>1, <2>2
<1> QED BY <1>4, <1>6, <1>7, <1>8, <1>9

LEMMA TellsAnimate ==
    ASSUME NEW a \in Anim, NEW e \in Elem, NEW queued \in BOOLEAN, NEW zero \in BOOLEAN,
           Base(fx), Turns(fx, {}, {}), Turns(fx', {}, {}), Animate(a, e, queued, zero), odd' = {}, NEW d \in Elem
    PROVE  ToldWhenIdle(d)
<1> DEFINE made == NewOne(fx, a, e, queued, zero) q == Append(fx.queue[e], a)
           longer == Queue(made, e, q) begun == DoAnimation(made, a)
<1>1. /\ fx.anims[a].state = "new"
      /\ Call(IF queued THEN longer ELSE begun, Odd({e}))
  <2>1. fx.anims[a].state = "new"
    BY DEF Animate, Anim
  <2> QED BY <2>1, Zenon DEF Animate, NewOne, NewAnim
<1>2. fx' = Sweep(IF queued THEN longer ELSE begun)
  BY <1>1 DEF Call
<1>3. \A k \in DOMAIN fx.stack : ~StopsOf(fx.stack[k], e)
  <2>1. Odd({e}) = {}
    BY <1>1, CallIs
  <2>2. \A k \in DOMAIN fx.stack : fx.stack[k].at \in ElemFrames => fx.stack[k].a \notin {e}
    BY <2>1, OddEmpty
  <2> QED BY <2>2 DEF StopsOf
<1>4. /\ Base(made)
      /\ \A b \in Elem : \A j \in DOMAIN fx.queue[b] : fx.queue[b][j] # a
      /\ \A k \in DOMAIN fx.stack : \A j \in DOMAIN fx.stack[k].todo : j > 1 => fx.stack[k].todo[j] # a
  BY <1>1, BaseNew
<1>5. /\ made.queue = fx.queue /\ made.stack = fx.stack /\ made.hooks = fx.hooks
      /\ made.anims[a].state = "queued" /\ made.anims[a].queued = queued /\ made.anims[a].of = e
  BY NewIs DEF Animated, Base
<1>6. Turns(made, {}, {})
  BY <1>1, TurnsNew
<1>7. made \in FxVars /\ StillWait(fx, made)
  BY <1>4, <1>5 DEF Base, StillWait
<1> HIDE DEF made
<1>8. CASE queued
  <2>1. q \in Entries /\ Base(QueueSet(made, e, q))
    BY ZenonT(30), <1>4, <1>5, <1>8, BaseLonger
  <2>2. q = Append(made.queue[e], a)
    BY <1>5
  <2>3. \A k \in DOMAIN made.stack : ~StopsOf(made.stack[k], e)
    BY <1>3, <1>5
  <2>4. fx' = Sweep(Queue(made, e, q))
    BY <1>2, <1>8
  <2> HIDE DEF q, longer
  <2> QED BY <1>4, <1>6, <1>7, <2>1, <2>2, <2>3, <2>4, TellsQueued
<1>9. CASE ~queued
  <2>1. Base(begun)
    BY <1>4, <1>5, BaseDoAnimation
  <2>2. begun \in FxVars /\ fx' = Sweep(begun)
    BY <1>2, <1>9, <2>1 DEF Base
  <2>3. \A c \in Elem : begun.hooks[c].waiting = made.hooks[c].waiting
    BY <1>5, <1>7, DoAnimationWaits
  <2> HIDE DEF begun
  <2>4. StillWait(fx, begun)
    BY <1>5, <2>3 DEF StillWait
  <2> QED BY <2>2, <2>4, StillGoes
<1> QED BY <1>8, <1>9

LEMMA TellsNext ==
    ASSUME Base(fx), Turns(fx, {}, {}), Turns(fx', {}, {}), Next, odd' = {}, NEW d \in Elem
    PROVE  ToldWhenIdle(d)
<1>1. CASE DequeueNext \/ StopEnds \/ Unqueue
  BY <1>1, TellsDequeueNext, TellsStopEnds, TellsUnqueue
<1>2. CASE StopStart \/ StopLoop \/ Splice \/ FinishNext
  BY <1>2, TellsLoop
<1>3. CASE Return \/ FxTick \/ TickNext \/ Ticked \/ TickEnds
  BY <1>3, TellsTick
<1>4. CASE End \/ Ended \/ Timer \/ Made \/ \E due \in BOOLEAN : StepDone(due)
  BY <1>4, TellsEnd
<1>5. CASE Program
  <2>1. PICK e \in Elem :
          \/ \E a \in Anim, queued, zero \in BOOLEAN : Animate(a, e, queued, zero)
          \/ \E clear, end \in BOOLEAN : Stop(e, clear, end)
          \/ Finish(e) \/ ClearQueue(e) \/ Promise(e)
    BY <1>5 DEF Program
  <2>2. CASE \E a \in Anim, queued, zero \in BOOLEAN : Animate(a, e, queued, zero)
    BY <2>2, TellsAnimate
  <2>3. CASE \E clear, end \in BOOLEAN : Stop(e, clear, end)
    BY <2>3, TellsStop
  <2>4. CASE Finish(e) \/ Promise(e)
    BY <2>4, TellsFinish, TellsPromise
  <2>5. CASE ClearQueue(e)
    BY <2>5, CallIs DEF ClearQueue
  <2> QED BY <2>1, <2>2, <2>3, <2>4, <2>5
<1> QED BY <1>1, <1>2, <1>3, <1>4, <1>5 DEF Next, Continue

LEMMA TellsStep ==
    ASSUME EffectsIInv, EffectsIInv', [Next]_vars
    PROVE  [\A e \in Elem : fx.hooks[e].waiting > 0 /\ fx'.hooks[e].waiting = 0 /\ odd' = {} => Pending(e)' = {}]_vars
<1> SUFFICES ASSUME Next, NEW d \in Elem, odd' = {} PROVE ToldWhenIdle(d)
  BY DEF ToldWhenIdle
<1>1. odd = {}
  BY OddGrows
<1>2. Base(fx) /\ Turns(fx, {}, {}) /\ Turns(fx', {}, {})
  BY <1>1 DEF EffectsIInv
<1> QED BY <1>2, TellsNext

\* hooks.empty tells the promises only when no animation of the element is under way,
\* whichever call fires it: a dequeue has the turn, and no other animation runs; the
\* end of the last one beside the queue finds the queue served or idle.
THEOREM EffectsPromiseMeansIdle == Spec => PromiseMeansIdle
<1>1. EffectsIInv /\ EffectsIInv' /\ [Next]_vars
        => [\A e \in Elem : fx.hooks[e].waiting > 0 /\ fx'.hooks[e].waiting = 0 /\ odd' = {} => Pending(e)' = {}]_vars
  BY TellsStep
<1>2. Spec => [][Next]_vars
  BY PTL DEF Spec
<1> QED BY <1>1, <1>2, EffectsAlways, PTL DEF PromiseMeansIdle
=============================================================================
