--------------------------- MODULE CallbackProofs ---------------------------
(***************************************************************************)
(* A Deferred serves every handler of its outcome and implements Promise,  *)
(* and a list made with any of the options implements Dispatch, for any    *)
(* functions, values and number of calls, whatever the functions register, *)
(* remove, settle, fire, lock, empty and throw on the way.                 *)
(***************************************************************************)
EXTENDS Deferred, CallbackList, SequenceTheorems, FiniteSetTheorems,
        NaturalsInduction, WellFoundedInduction, TLAPS

ListVars ==
    [options : Options, list : Seq(Callable), disabled : BOOLEAN, stack : Seq(Data),
     locked : BOOLEAN, memory : Data \cup {NoData}, fired : BOOLEAN, firing : BOOLEAN,
     data : Data \cup {NoData}, firingStart : Nat, firingLength : Nat, firingIndex : Int]

FrameVars == [of : Lists, at : {"loop", "call"}, fn : Callable \cup {NoData}]

Types ==
    /\ lists \in [Lists -> ListVars]
    /\ frames \in Seq(FrameVars)
    /\ ops \in Nat /\ thrown \in BOOLEAN
    /\ state \in {"pending", "resolved", "rejected"}
    /\ added \in [Lists -> [Fn -> Nat]] /\ called \in [Lists -> [Fn -> Nat]]
    /\ noted \subseteq Data

\* A list that begins with the functions of the Deferred, and what follows them.
Wires(cb) ==
    /\ Len(cb.list) >= 3
    /\ cb.list[1] = "state" /\ cb.list[2] = "disable" /\ cb.list[3] = "lock"
    /\ \A i \in 4 .. Len(cb.list) : cb.list[i] \in Fn

Plain(cb) == \A i \in 1 .. Len(cb.list) : cb.list[i] \in Fn

\* It fires and has not called the three yet.
Early(cb) == cb.firing /\ Wires(cb) /\ cb.firingIndex < 3

\* A list of an outcome is fired with its three functions and what was registered
\* before, or it is disabled and is never fired.  When it has fired it is empty:
\* who is added is called at once, and so is who is added meanwhile.
OutcomeOk(cb) ==
    /\ cb.options = OnceMemory /\ cb.locked /\ cb.stack = <<>> /\ cb.firingStart = 0
    /\ cb.disabled => ~cb.fired /\ cb.list = <<>>
    /\ ~cb.fired => ~cb.firing /\ cb.memory = NoData
    /\ ~cb.fired /\ ~cb.disabled => Wires(cb)
    /\ cb.fired => cb.memory # NoData
    /\ cb.fired /\ ~cb.firing => cb.list = <<>>
    /\ cb.firing => /\ cb.firingLength = Len(cb.list) /\ cb.firingIndex >= 0
                    /\ Wires(cb) \/ Plain(cb)

OutcomesOk == \A l \in Outcomes : OutcomeOk(lists[l])

\* The list of progress has seen the values that were notified, and no others.
ProgressOk(cb, values) ==
    /\ cb.options = Memory /\ cb.firingStart = 0
    /\ Plain(cb)
    /\ \A i \in 1 .. Len(cb.stack) : cb.stack[i] \in values
    /\ cb.memory # NoData => cb.fired /\ cb.memory \in values
    /\ cb.firing => cb.data \in values /\ cb.firingIndex >= 0
    /\ cb.firing /\ ~cb.disabled => cb.firingLength = Len(cb.list)

Closed(cb) == cb.disabled \/ (cb.locked /\ cb.fired)

\* The state is set by the first function of the list that fires first, the second
\* disables the other list and the third locks the list of progress.
StateOk ==
    /\ state = "pending" =>
         \A l \in Outcomes :
            /\ ~lists[l].disabled
            /\ lists[l].fired => Early(lists[l]) /\ lists[l].firingIndex = 0
    /\ \A l \in Outcomes : state = Settled(l) =>
         /\ lists[l].fired /\ ~lists[Other(l)].fired
         /\ Early(lists[l]) => lists[l].firingIndex >= 1
         /\ ~lists[Other(l)].disabled => Early(lists[l]) /\ lists[l].firingIndex = 1
    /\ state # "pending" /\ (\A l \in Outcomes : ~Early(lists[l])) => Closed(lists["progress"])

\* The calls of fire are of different lists.  All but the innermost run a function
\* of the program, and what runs is the element at firingIndex.
FrameOk(fr, cb) ==
    /\ cb.firing
    /\ fr.at = "call" /\ fr.of \in Outcomes => fr.fn = cb.list[cb.firingIndex + 1]
    /\ fr.at = "call" /\ fr.of = "progress" => fr.fn \in Fn

FramesOk ==
    /\ \A i \in DOMAIN frames : FrameOk(frames[i], lists[frames[i].of])
    /\ \A i \in DOMAIN frames : i # Len(frames) => frames[i].at = "call" /\ frames[i].fn \in Fn
    /\ \A i, j \in DOMAIN frames : frames[i].of = frames[j].of => i = j
    /\ ~thrown => \A l \in Lists : lists[l].firing => \E i \in DOMAIN frames : frames[i].of = l
    /\ \A l \in Outcomes : Early(lists[l]) => frames # <<>> /\ Top.of = l

\* What the loop of fire has still to call: of a list that does not fire, all.
Looping(l) == frames # <<>> /\ Top.of = l /\ Top.at = "loop"

\* The index does not pass the end of the list.
LoopOk == \A l \in Outcomes :
    lists[l].firing => lists[l].firingIndex < Len(lists[l].list) + (IF Looping(l) THEN 1 ELSE 0)

From(cb, looping) == IF cb.firing THEN cb.firingIndex + (IF looping THEN 1 ELSE 2) ELSE 1
Places(cb, looping, f) == {i \in 1 .. Len(cb.list) : i >= From(cb, looping) /\ cb.list[i] = f}

\* A handler was called as often as it was registered, but for the calls to come.
CountOk ==
    \A l \in Outcomes, f \in Fn : state # Settled(Other(l)) =>
        added[l][f] = called[l][f] + Cardinality(Places(lists[l], Looping(l), f))

IInv == Types /\ OutcomesOk /\ ProgressOk(lists["progress"], noted) /\ StateOk /\ FramesOk
        /\ LoopOk /\ CountOk
-----------------------------------------------------------------------------
\* What the operations do to the variables of a list.  A function is put at its end.
Grown(cb, f, d) ==
    /\ d \in ListVars
    /\ d.options = cb.options /\ d.disabled = cb.disabled /\ d.stack = cb.stack
    /\ d.locked = cb.locked /\ d.memory = cb.memory /\ d.fired = cb.fired
    /\ d.firing = cb.firing /\ d.data = cb.data /\ d.firingStart = cb.firingStart
    /\ d.firingIndex = cb.firingIndex
    /\ d.list = Append(cb.list, f)
    /\ cb.firing => d.firingLength = Len(d.list)

\* It is fired with v, for the functions s from position n on.
Begun(cb, s, v, n, d) ==
    /\ d \in ListVars
    /\ d.options = cb.options /\ d.disabled = cb.disabled /\ d.locked = cb.locked
    /\ d.list = s /\ d.memory = v /\ d.data = v /\ d.fired /\ d.firing
    /\ d.firingStart = 0 /\ d.firingLength = Len(s) /\ d.firingIndex = n

\* Its loop goes on.
Moved(cb, d) ==
    /\ d \in ListVars
    /\ d.options = cb.options /\ d.disabled = cb.disabled /\ d.stack = cb.stack
    /\ d.locked = cb.locked /\ d.memory = cb.memory /\ d.fired = cb.fired
    /\ d.firing = cb.firing /\ d.data = cb.data /\ d.firingStart = cb.firingStart
    /\ d.list = cb.list /\ d.firingLength = cb.firingLength
    /\ d.firingIndex = cb.firingIndex + 1

\* Its loop has ended.
Ended(cb, d) ==
    /\ d \in ListVars
    /\ d.options = cb.options /\ d.fired = cb.fired /\ ~d.firing
    /\ d.firingStart = cb.firingStart /\ (cb.disabled => d.disabled) /\ (cb.locked => d.locked)

LEMMA VarsAre ==
    ASSUME NEW cb \in ListVars
    PROVE  /\ cb.options \in Options /\ cb.list \in Seq(Callable) /\ cb.disabled \in BOOLEAN
           /\ cb.stack \in Seq(Data) /\ cb.locked \in BOOLEAN /\ cb.memory \in Data \cup {NoData}
           /\ cb.fired \in BOOLEAN /\ cb.firing \in BOOLEAN /\ cb.data \in Data \cup {NoData}
           /\ cb.firingStart \in Nat /\ cb.firingLength \in Nat /\ cb.firingIndex \in Int
           /\ Len(cb.list) \in Nat
BY DEF ListVars

LEMMA PushedIs ==
    ASSUME NEW cb, ~cb.options.unique, NEW f
    PROVE  Pushed(cb, f) = [cb EXCEPT !.list = Append(@, f)]
BY DEF Pushed

LEMMA GrowsTo ==
    ASSUME NEW cb \in ListVars, ~cb.options.unique, NEW f \in Callable
    PROVE  /\ cb.firing => Grown(cb, f, [Pushed(cb, f) EXCEPT !.firingLength = Len(Pushed(cb, f).list)])
           /\ ~cb.firing => Grown(cb, f, Pushed(cb, f))
<1> DEFINE p == [cb EXCEPT !.list = Append(cb.list, f)]
           q == [p EXCEPT !.firingLength = Len(p.list)]
<1>1. Append(cb.list, f) \in Seq(Callable)
  BY VarsAre
<1>2. Grown(cb, f, p) \/ cb.firing
  BY <1>1 DEF Grown, ListVars
<1>3. /\ p \in ListVars /\ p.list = Append(cb.list, f) /\ p.options = cb.options
      /\ p.disabled = cb.disabled /\ p.stack = cb.stack
      /\ p.locked = cb.locked /\ p.memory = cb.memory /\ p.fired = cb.fired
      /\ p.firing = cb.firing /\ p.data = cb.data /\ p.firingStart = cb.firingStart
      /\ p.firingIndex = cb.firingIndex
  BY <1>1 DEF ListVars
<1>4. p = Pushed(cb, f)
  BY PushedIs
<1> HIDE DEF p
<1>5. Len(p.list) \in Nat
  BY <1>3, VarsAre
<1>6. Grown(cb, f, q)
  BY <1>3, <1>5 DEF Grown, ListVars
<1> QED
  BY <1>2, <1>4, <1>6

LEMMA FireIs ==
    ASSUME NEW cb \in ListVars, cb.options.memory, NEW v \in Data
    PROVE  /\ Begun(cb, cb.list, v, cb.firingStart, Fire(cb, v))
           /\ Fire(cb, v).stack = cb.stack
<1> DEFINE a == [cb EXCEPT !.memory = v, !.data = v, !.fired = TRUE]
           b == [a EXCEPT !.firingIndex = cb.firingStart, !.firingStart = 0]
           d == [b EXCEPT !.firingLength = Len(cb.list), !.firing = TRUE]
<1>1. Fire(cb, v) = d
  BY DEF Fire
<1>2. /\ a \in ListVars /\ a.memory = v /\ a.data = v /\ a.fired /\ a.options = cb.options
      /\ a.disabled = cb.disabled /\ a.locked = cb.locked /\ a.list = cb.list /\ a.stack = cb.stack
  BY DEF ListVars
<1> HIDE DEF a
<1>3. cb.firingStart \in Nat /\ cb.firingStart \in Int /\ Len(cb.list) \in Nat
  BY VarsAre
<1>4. /\ b \in ListVars /\ b.memory = v /\ b.data = v /\ b.fired /\ b.options = cb.options
      /\ b.disabled = cb.disabled /\ b.locked = cb.locked /\ b.list = cb.list /\ b.stack = cb.stack
      /\ b.firingIndex = cb.firingStart /\ b.firingStart = 0
  BY <1>2, <1>3 DEF ListVars
<1> HIDE DEF b
<1>5. /\ d \in ListVars /\ d.memory = v /\ d.data = v /\ d.fired /\ d.options = cb.options
      /\ d.disabled = cb.disabled /\ d.locked = cb.locked /\ d.list = cb.list /\ d.stack = cb.stack
      /\ d.firingIndex = cb.firingStart /\ d.firingStart = 0
      /\ d.firingLength = Len(cb.list) /\ d.firing
  BY <1>3, <1>4 DEF ListVars
<1> HIDE DEF d
<1> QED
  BY <1>1, <1>5 DEF Begun

\* add() to a list that has fired.
LEMMA AddFires ==
    ASSUME NEW cb \in ListVars, ~cb.options.unique, cb.options.memory, NEW f \in Callable, cb.memory \in Data
    PROVE  LET d == Fire([Pushed(cb, f) EXCEPT !.firingStart = Len(cb.list)], cb.memory)
           IN  Begun(cb, Append(cb.list, f), cb.memory, Len(cb.list), d) /\ d.stack = cb.stack
<1> DEFINE p == [cb EXCEPT !.list = Append(cb.list, f)]
           q == [p EXCEPT !.firingStart = Len(cb.list)]
<1>1. Append(cb.list, f) \in Seq(Callable) /\ Len(cb.list) \in Nat
  BY VarsAre
<1>2. /\ q \in ListVars /\ q.list = Append(cb.list, f) /\ q.options = cb.options
      /\ q.disabled = cb.disabled /\ q.locked = cb.locked /\ q.firingStart = Len(cb.list)
      /\ q.stack = cb.stack
  BY <1>1 DEF ListVars
<1>3. q = [Pushed(cb, f) EXCEPT !.firingStart = Len(cb.list)]
  BY PushedIs
<1> HIDE DEF q
<1>4. Begun(q, q.list, cb.memory, q.firingStart, Fire(q, cb.memory)) /\ Fire(q, cb.memory).stack = q.stack
  BY <1>2, FireIs
<1> QED
  BY <1>2, <1>3, <1>4 DEF Begun

LEMMA MovesTo == ASSUME NEW cb \in ListVars PROVE Moved(cb, [cb EXCEPT !.firingIndex = @ + 1])
<1>1. cb.firingIndex + 1 \in Int
  BY VarsAre
<1> QED
  BY <1>1 DEF Moved, ListVars

LEMMA DisableIs ==
    ASSUME NEW cb \in ListVars
    PROVE  LET d == Disable(cb) IN
           /\ d \in ListVars /\ d.options = cb.options /\ d.fired = cb.fired /\ d.firing = cb.firing
           /\ d.firingStart = cb.firingStart /\ d.firingLength = cb.firingLength
           /\ d.firingIndex = cb.firingIndex /\ d.data = cb.data
           /\ d.disabled /\ d.list = <<>> /\ d.locked /\ d.stack = <<>> /\ d.memory = NoData
<1> DEFINE a == [cb EXCEPT !.disabled = TRUE, !.list = <<>>]
           b == [a EXCEPT !.locked = TRUE, !.stack = <<>>]
           d == [b EXCEPT !.memory = NoData]
<1>1. Disable(cb) = d
  BY DEF Disable
<1>2. <<>> \in Seq(Callable) /\ <<>> \in Seq(Data)
  OBVIOUS
<1>3. /\ a \in ListVars /\ a.options = cb.options /\ a.fired = cb.fired /\ a.firing = cb.firing
      /\ a.firingStart = cb.firingStart /\ a.firingLength = cb.firingLength
      /\ a.firingIndex = cb.firingIndex /\ a.data = cb.data
      /\ a.disabled /\ a.list = <<>>
  BY <1>2 DEF ListVars
<1> HIDE DEF a
<1>4. /\ b \in ListVars /\ b.options = cb.options /\ b.fired = cb.fired /\ b.firing = cb.firing
      /\ b.firingStart = cb.firingStart /\ b.firingLength = cb.firingLength
      /\ b.firingIndex = cb.firingIndex /\ b.data = cb.data
      /\ b.disabled /\ b.list = <<>> /\ b.locked /\ b.stack = <<>>
  BY <1>2, <1>3 DEF ListVars
<1> HIDE DEF b
<1>5. /\ d \in ListVars /\ d.options = cb.options /\ d.fired = cb.fired /\ d.firing = cb.firing
      /\ d.firingStart = cb.firingStart /\ d.firingLength = cb.firingLength
      /\ d.firingIndex = cb.firingIndex /\ d.data = cb.data
      /\ d.disabled /\ d.list = <<>> /\ d.locked /\ d.stack = <<>> /\ d.memory = NoData
  BY <1>4 DEF ListVars
<1> QED
  BY <1>1, <1>5

LEMMA LockIs ==
    ASSUME NEW cb \in ListVars
    PROVE  LET d == Lock(cb) IN
           /\ d \in ListVars /\ d.options = cb.options /\ d.fired = cb.fired /\ d.firing = cb.firing
           /\ d.firingStart = cb.firingStart /\ d.firingLength = cb.firingLength
           /\ d.firingIndex = cb.firingIndex /\ d.data = cb.data
           /\ d.locked /\ d.stack = <<>> /\ d.memory = cb.memory
           /\ IF cb.memory = NoData THEN d.disabled /\ d.list = <<>>
                                    ELSE d.disabled = cb.disabled /\ d.list = cb.list
<1> DEFINE a == [cb EXCEPT !.locked = TRUE, !.stack = <<>>]
<1>1. <<>> \in Seq(Data)
  OBVIOUS
<1>2. /\ a \in ListVars /\ a.options = cb.options /\ a.fired = cb.fired /\ a.firing = cb.firing
      /\ a.firingStart = cb.firingStart /\ a.firingLength = cb.firingLength
      /\ a.firingIndex = cb.firingIndex /\ a.data = cb.data
      /\ a.locked /\ a.stack = <<>> /\ a.memory = cb.memory
      /\ a.disabled = cb.disabled /\ a.list = cb.list
  BY <1>1 DEF ListVars
<1>3. Lock(cb) = IF cb.memory = NoData THEN Disable(a) ELSE a
  BY DEF Lock
<1> HIDE DEF a
<1> QED
  BY <1>2, <1>3, DisableIs

\* After the loop of fire.
LEMMA FinishIs ==
    ASSUME NEW cb \in ListVars
    PROVE  LET done == [cb EXCEPT !.firing = FALSE] IN
           /\ done \in ListVars /\ Ended(cb, done) /\ done.disabled = cb.disabled
           /\ done.locked = cb.locked /\ done.list = cb.list /\ done.memory = cb.memory
           /\ done.stack = cb.stack /\ done.options = cb.options /\ done.firingStart = cb.firingStart
<1>1. cb.firingStart \in Nat
  BY VarsAre
<1> QED
  BY <1>1 DEF Ended, ListVars

LEMMA FinishEmpties ==
    ASSUME NEW cb \in ListVars, NEW d,
           d = IF cb.memory # NoData THEN [[cb EXCEPT !.firing = FALSE] EXCEPT !.list = <<>>]
                                     ELSE Disable([cb EXCEPT !.firing = FALSE])
    PROVE  /\ Ended(cb, d) /\ d.list = <<>> /\ d.memory = cb.memory
           /\ d.disabled = IF cb.memory # NoData THEN cb.disabled ELSE TRUE
           /\ d.locked = IF cb.memory # NoData THEN cb.locked ELSE TRUE
           /\ d.stack = IF cb.memory # NoData THEN cb.stack ELSE <<>>
<1> DEFINE a == [cb EXCEPT !.firing = FALSE]
<1>1. /\ a \in ListVars /\ Ended(cb, a) /\ a.disabled = cb.disabled
      /\ a.locked = cb.locked /\ a.list = cb.list /\ a.memory = cb.memory
      /\ a.stack = cb.stack /\ a.options = cb.options /\ a.firingStart = cb.firingStart
  BY FinishIs
<1>2. d = IF cb.memory # NoData THEN [a EXCEPT !.list = <<>>] ELSE Disable(a)
  OBVIOUS
<1> HIDE DEF a
<1>3. <<>> \in Seq(Callable)
  OBVIOUS
<1>4. CASE cb.memory # NoData
  BY <1>1, <1>2, <1>3, <1>4 DEF Ended, ListVars
<1>5. CASE cb.memory = NoData
  BY <1>1, <1>2, <1>5, DisableIs, ZenonT(30) DEF Ended
<1> QED
  BY <1>4, <1>5

LEMMA FinishFires ==
    ASSUME NEW cb \in ListVars, cb.options.memory, cb.stack # <<>>, NEW d,
           d = Fire([[cb EXCEPT !.firing = FALSE] EXCEPT !.stack = Tail(@)], Head(cb.stack))
    PROVE  Begun(cb, cb.list, Head(cb.stack), cb.firingStart, d) /\ d.stack = Tail(cb.stack)
<1> DEFINE a == [cb EXCEPT !.firing = FALSE]
           b == [a EXCEPT !.stack = Tail(@)]
<1>1. /\ a \in ListVars /\ Ended(cb, a) /\ a.disabled = cb.disabled
      /\ a.locked = cb.locked /\ a.list = cb.list /\ a.memory = cb.memory
      /\ a.stack = cb.stack /\ a.options = cb.options /\ a.firingStart = cb.firingStart
  BY FinishIs
<1>2. d = Fire(b, Head(cb.stack))
  OBVIOUS
<1> HIDE DEF a
<1>3. Head(cb.stack) \in Data /\ Tail(cb.stack) \in Seq(Data)
  BY VarsAre, HeadTailProperties
<1>4. /\ b \in ListVars /\ b.list = cb.list /\ b.disabled = cb.disabled /\ b.locked = cb.locked
      /\ b.stack = Tail(cb.stack) /\ b.options = cb.options /\ b.firingStart = cb.firingStart
  BY <1>1, <1>3 DEF ListVars
<1> HIDE DEF b
<1>5. Begun(b, b.list, Head(cb.stack), b.firingStart, Fire(b, Head(cb.stack)))
      /\ Fire(b, Head(cb.stack)).stack = b.stack
  BY <1>3, <1>4, FireIs
<1> QED
  BY <1>2, <1>4, <1>5 DEF Begun
-----------------------------------------------------------------------------
\* The functions of the Deferred are not functions of the program.
LEMMA Named ==
    /\ Fn \subseteq Callable /\ Wiring \in Seq(Callable)
    /\ "state" \notin Fn /\ "disable" \notin Fn /\ "lock" \notin Fn
BY CallbacksAssumption DEF Callable, Wiring

LEMMA AppendIs ==
    ASSUME NEW s \in Seq(Callable), NEW f \in Callable, NEW t, t = Append(s, f)
    PROVE  /\ t \in Seq(Callable) /\ Len(t) = Len(s) + 1 /\ Len(s) \in Nat /\ t # <<>>
           /\ \A i \in 1 .. Len(s) : t[i] = s[i]
           /\ t[Len(s) + 1] = f
BY AppendProperties

LEMMA WiresAppend ==
    ASSUME NEW cb \in ListVars, NEW d \in ListVars, NEW f \in Fn, d.list = Append(cb.list, f)
    PROVE  /\ Wires(cb) => Wires(d)
           /\ Plain(cb) => Plain(d) /\ ~Wires(d)
<1>1. /\ Len(d.list) = Len(cb.list) + 1 /\ Len(cb.list) \in Nat
      /\ \A i \in 1 .. Len(cb.list) : d.list[i] = cb.list[i]
      /\ d.list[Len(cb.list) + 1] = f
  BY AppendIs, VarsAre, Named
<1>2. ASSUME Wires(cb) PROVE Wires(d)
  <2>1. Len(cb.list) >= 3 /\ Len(d.list) >= 3
    BY <1>1, <1>2 DEF Wires
  <2>2. d.list[1] = "state" /\ d.list[2] = "disable" /\ d.list[3] = "lock"
    BY <1>1, <1>2, <2>1 DEF Wires
  <2>3. ASSUME NEW i \in 4 .. Len(d.list) PROVE d.list[i] \in Fn
    <3>1. i \in 4 .. Len(cb.list) \/ i = Len(cb.list) + 1
      BY <1>1
    <3> QED
      BY <3>1, <1>1, <1>2 DEF Wires
  <2> QED
    BY <2>1, <2>2, <2>3 DEF Wires
<1>3. ASSUME Plain(cb) PROVE Plain(d)
  <2> SUFFICES ASSUME NEW i \in 1 .. Len(d.list) PROVE d.list[i] \in Fn
    BY DEF Plain
  <2>1. i \in 1 .. Len(cb.list) \/ i = Len(cb.list) + 1
    BY <1>1
  <2> QED
    BY <2>1, <1>1, <1>3 DEF Plain
<1>4. ASSUME Plain(d) PROVE ~Wires(d)
  <2>1. 1 \in 1 .. Len(d.list)
    BY <1>1
  <2> QED
    BY <2>1, <1>4, Named DEF Plain, Wires
<1> QED
  BY <1>2, <1>3, <1>4

\* An outcome's list takes one more function.
LEMMA OutcomeGrows ==
    ASSUME NEW cb \in ListVars, OutcomeOk(cb), ~cb.disabled, cb.firing \/ cb.memory = NoData,
           NEW f \in Fn, NEW d, Grown(cb, f, d)
    PROVE  OutcomeOk(d) /\ (Early(d) <=> Early(cb))
<1>1. d \in ListVars
  BY DEF Grown
<1>2. cb.fired => cb.firing
  BY DEF OutcomeOk
<1>3. Wires(cb) \/ Plain(cb)
  BY <1>2 DEF OutcomeOk
<1>4. (Wires(cb) => Wires(d)) /\ (Plain(cb) => Plain(d) /\ ~Wires(d))
  BY <1>1, WiresAppend DEF Grown
<1>5. Early(d) <=> Early(cb)
  BY <1>3, <1>4 DEF Early, Grown, Wires, Plain
<1>6. ~d.fired => Wires(d)
  BY <1>4 DEF OutcomeOk, Grown
<1>7. /\ d.options = OnceMemory /\ d.locked /\ d.stack = <<>> /\ d.firingStart = 0
      /\ ~d.disabled
      /\ ~d.fired => ~d.firing /\ d.memory = NoData
      /\ d.fired => d.memory # NoData
  BY DEF OutcomeOk, Grown
<1>8. d.fired => d.firing
  BY <1>2 DEF Grown
<1>9. d.firing => d.firingLength = Len(d.list) /\ d.firingIndex >= 0 /\ (Wires(d) \/ Plain(d))
  BY <1>3, <1>4 DEF OutcomeOk, Grown
<1> QED
  BY <1>5, <1>6, <1>7, <1>8, <1>9 DEF OutcomeOk

\* It has fired before: the function that is added runs alone.
LEMMA OutcomeRefires ==
    ASSUME NEW cb \in ListVars, OutcomeOk(cb), ~cb.disabled, ~cb.firing, cb.memory # NoData,
           NEW f \in Fn, NEW d,
           Begun(cb, Append(cb.list, f), cb.memory, Len(cb.list), d), d.stack = cb.stack
    PROVE  /\ OutcomeOk(d) /\ ~Early(d) /\ cb.fired /\ cb.list = <<>>
           /\ d.firingIndex = 0 /\ Len(d.list) = 1 /\ d.list[1] = f
<1>1. cb.fired /\ cb.list = <<>>
  BY DEF OutcomeOk
<1>2. d \in ListVars /\ d.list = Append(<<>>, f) /\ d.firingIndex = Len(cb.list)
  BY <1>1 DEF Begun
<1>3. Len(cb.list) = 0
  BY <1>1
<1>4. Len(d.list) = 1 /\ d.list[1] = f
  BY <1>2
<1>5. Plain(d) /\ ~Wires(d)
  BY <1>4 DEF Plain, Wires
<1>6. /\ d.options = OnceMemory /\ d.locked /\ d.stack = <<>> /\ d.firingStart = 0
      /\ ~d.disabled /\ d.fired /\ d.firing /\ d.memory # NoData
      /\ d.firingLength = Len(d.list)
  BY DEF OutcomeOk, Begun
<1> QED
  BY <1>1, <1>2, <1>3, <1>4, <1>5, <1>6 DEF OutcomeOk, Early

\* It is fired for the first time.
LEMMA OutcomeFires ==
    ASSUME NEW cb \in ListVars, OutcomeOk(cb), ~cb.disabled, ~cb.fired, NEW v \in Data, NEW d,
           Begun(cb, cb.list, v, cb.firingStart, d), d.stack = cb.stack
    PROVE  /\ OutcomeOk(d) /\ Early(d) /\ ~cb.firing
           /\ d.firingIndex = 0 /\ Len(d.list) >= 3 /\ d.list = cb.list
<1>1. Wires(cb) /\ ~cb.firing
  BY DEF OutcomeOk
<1>2. d \in ListVars /\ d.list = cb.list /\ d.firingIndex = 0
  BY DEF Begun, OutcomeOk
<1>3. Wires(d)
  BY <1>1, <1>2 DEF Wires
<1>4. /\ d.options = OnceMemory /\ d.locked /\ d.stack = <<>> /\ d.firingStart = 0
      /\ ~d.disabled /\ d.fired /\ d.firing /\ d.memory # NoData
      /\ d.firingLength = Len(d.list)
  BY CallbacksAssumption DEF OutcomeOk, Begun
<1>5. Len(d.list) >= 3
  BY <1>3 DEF Wires
<1> QED
  BY <1>1, <1>2, <1>3, <1>4, <1>5 DEF OutcomeOk, Early

LEMMA OutcomeMoves ==
    ASSUME NEW cb \in ListVars, OutcomeOk(cb), cb.firing, NEW d, Moved(cb, d)
    PROVE  OutcomeOk(d) /\ (Early(d) => Early(cb)) /\ (Wires(d) <=> Wires(cb))
<1>1. d.firingIndex = cb.firingIndex + 1 /\ cb.firingIndex \in Int /\ d.list = cb.list
  BY VarsAre DEF Moved
<1>2. (Wires(d) <=> Wires(cb)) /\ (Plain(d) <=> Plain(cb))
  BY <1>1 DEF Wires, Plain
<1>3. d.firingLength = Len(d.list) /\ d.firingIndex >= 0 /\ (Wires(d) \/ Plain(d))
  BY <1>1, <1>2 DEF OutcomeOk, Moved
<1>4. /\ d.options = OnceMemory /\ d.locked /\ d.stack = <<>> /\ d.firingStart = 0
      /\ ~d.disabled /\ d.fired /\ d.firing /\ d.memory # NoData
  BY DEF OutcomeOk, Moved
<1>5. Early(d) => Early(cb)
  BY <1>1, <1>2 DEF Early
<1> QED
  BY <1>2, <1>3, <1>4, <1>5 DEF OutcomeOk

LEMMA OutcomeEnds ==
    ASSUME NEW cb \in ListVars, OutcomeOk(cb), cb.firing, NEW d,
           d = IF cb.memory # NoData THEN [[cb EXCEPT !.firing = FALSE] EXCEPT !.list = <<>>]
                                     ELSE Disable([cb EXCEPT !.firing = FALSE])
    PROVE  OutcomeOk(d) /\ ~Early(d) /\ Ended(cb, d) /\ d.list = <<>> /\ ~d.disabled
<1>1. cb.fired /\ ~cb.disabled /\ cb.memory # NoData
  BY DEF OutcomeOk
<1>2. /\ Ended(cb, d) /\ d.list = <<>> /\ d.memory = cb.memory
      /\ d.disabled = IF cb.memory # NoData THEN cb.disabled ELSE TRUE
      /\ d.locked = IF cb.memory # NoData THEN cb.locked ELSE TRUE
      /\ d.stack = IF cb.memory # NoData THEN cb.stack ELSE <<>>
  BY FinishEmpties, Zenon
<1>3. d.disabled = cb.disabled /\ d.locked = cb.locked /\ d.stack = cb.stack
  BY <1>1, <1>2, Zenon
<1> QED
  BY <1>1, <1>2, <1>3 DEF OutcomeOk, Ended, Early

LEMMA OutcomeDisabled ==
    ASSUME NEW cb \in ListVars, OutcomeOk(cb), ~cb.fired
    PROVE  LET d == Disable(cb) IN
           /\ OutcomeOk(d) /\ ~Early(d) /\ d \in ListVars
           /\ d.disabled /\ ~d.fired /\ ~d.firing /\ d.list = <<>>
<1>1. ~cb.firing
  BY DEF OutcomeOk
<1> QED
  BY <1>1, DisableIs DEF OutcomeOk, Early

\* A list fires with its three functions to come only once it has begun.
LEMMA EarlyFired == ASSUME NEW cb, OutcomeOk(cb), Early(cb) PROVE cb.fired
BY DEF OutcomeOk, Early
-----------------------------------------------------------------------------
\* The list of progress.
LEMMA ProgressGrows ==
    ASSUME NEW cb \in ListVars, NEW seen \in SUBSET Data, ProgressOk(cb, seen),
           NEW f \in Fn, NEW d, Grown(cb, f, d)
    PROVE  ProgressOk(d, seen)
<1>1. Plain(d)
  BY WiresAppend DEF ProgressOk, Grown
<1> QED
  BY <1>1 DEF ProgressOk, Grown

LEMMA ProgressFires ==
    ASSUME NEW cb \in ListVars, NEW seen \in SUBSET Data, ProgressOk(cb, seen),
           NEW s, NEW v \in seen, NEW n \in Nat, NEW d, Begun(cb, s, v, n, d),
           \A i \in 1 .. Len(s) : s[i] \in Fn,
           \A i \in 1 .. Len(d.stack) : d.stack[i] \in seen
    PROVE  ProgressOk(d, seen)
BY DEF ProgressOk, Begun, Plain

LEMMA ProgressMoves ==
    ASSUME NEW cb \in ListVars, NEW seen \in SUBSET Data, ProgressOk(cb, seen),
           NEW d, Moved(cb, d)
    PROVE  ProgressOk(d, seen)
<1>1. cb.firingIndex \in Int /\ d.firingIndex = cb.firingIndex + 1
  BY VarsAre DEF Moved
<1> QED
  BY <1>1 DEF ProgressOk, Moved, Plain

LEMMA ProgressEnds ==
    ASSUME NEW cb \in ListVars, NEW seen \in SUBSET Data, ProgressOk(cb, seen),
           NEW d, Ended(cb, d), d.list = cb.list \/ d.list = <<>>,
           d.memory = cb.memory, d.stack = cb.stack \/ d.stack = <<>>
    PROVE  ProgressOk(d, seen)
<1>1. Plain(d)
  BY DEF ProgressOk, Plain
<1>2. \A i \in 1 .. Len(d.stack) : d.stack[i] \in seen
  BY DEF ProgressOk
<1> QED
  BY <1>1, <1>2 DEF ProgressOk, Ended

LEMMA ProgressEmpties ==
    ASSUME NEW cb \in ListVars, NEW seen \in SUBSET Data, ProgressOk(cb, seen), NEW d,
           d = IF cb.memory # NoData THEN [[cb EXCEPT !.firing = FALSE] EXCEPT !.list = <<>>]
                                     ELSE Disable([cb EXCEPT !.firing = FALSE])
    PROVE  ProgressOk(d, seen) /\ Ended(cb, d)
<1>1. /\ Ended(cb, d) /\ d.list = <<>> /\ d.memory = cb.memory
      /\ d.disabled = IF cb.memory # NoData THEN cb.disabled ELSE TRUE
      /\ d.locked = IF cb.memory # NoData THEN cb.locked ELSE TRUE
      /\ d.stack = IF cb.memory # NoData THEN cb.stack ELSE <<>>
  BY FinishEmpties, Zenon
<1>2. d.stack = cb.stack \/ d.stack = <<>>
  BY <1>1, Zenon
<1> QED
  BY <1>1, <1>2, ProgressEnds

LEMMA ProgressLocks ==
    ASSUME NEW cb \in ListVars, NEW seen \in SUBSET Data, ProgressOk(cb, seen)
    PROVE  ProgressOk(Lock(cb), seen) /\ Closed(Lock(cb))
<1> DEFINE d == Lock(cb)
<1>1. /\ d \in ListVars /\ d.options = cb.options /\ d.fired = cb.fired /\ d.firing = cb.firing
      /\ d.firingStart = cb.firingStart /\ d.firingLength = cb.firingLength
      /\ d.firingIndex = cb.firingIndex /\ d.data = cb.data
      /\ d.locked /\ d.stack = <<>> /\ d.memory = cb.memory
      /\ IF cb.memory = NoData THEN d.disabled /\ d.list = <<>>
                               ELSE d.disabled = cb.disabled /\ d.list = cb.list
  BY LockIs
<1> HIDE DEF d
<1>2. Plain(d)
  BY <1>1 DEF ProgressOk, Plain
<1>3. cb.memory # NoData => cb.fired
  BY DEF ProgressOk
<1>4. Closed(d)
  BY <1>1, <1>3 DEF Closed
<1>5. \A i \in 1 .. Len(d.stack) : d.stack[i] \in seen
  BY <1>1
<1>6. ProgressOk(d, seen)
  BY <1>1, <1>2, <1>5 DEF ProgressOk
<1> QED
  BY <1>4, <1>6 DEF d

LEMMA ProgressQueues ==
    ASSUME NEW cb \in ListVars, NEW seen \in SUBSET Data, ProgressOk(cb, seen), NEW v \in seen,
           NEW d, d = [cb EXCEPT !.stack = Append(@, v)]
    PROVE  ProgressOk(d, seen) /\ d \in ListVars
<1>1. cb.stack \in Seq(Data) /\ v \in Data
  BY VarsAre
<1>2. Append(cb.stack, v) \in Seq(Data)
  BY <1>1
<1>3. /\ d \in ListVars /\ d.stack = Append(cb.stack, v) /\ d.options = cb.options
      /\ d.firingStart = cb.firingStart /\ d.list = cb.list /\ d.memory = cb.memory
      /\ d.fired = cb.fired /\ d.firing = cb.firing /\ d.data = cb.data
      /\ d.firingIndex = cb.firingIndex /\ d.firingLength = cb.firingLength
      /\ d.disabled = cb.disabled
  BY <1>2 DEF ListVars
<1>4. Plain(d)
  BY <1>3 DEF ProgressOk, Plain
<1>5. \A i \in 1 .. Len(d.stack) : d.stack[i] \in seen
  BY <1>1, <1>3, AppendProperties DEF ProgressOk
<1> QED
  BY <1>3, <1>4, <1>5 DEF ProgressOk

LEMMA ProgressMore ==
    ASSUME NEW cb, NEW seen, NEW more, seen \subseteq more, ProgressOk(cb, seen)
    PROVE  ProgressOk(cb, more)
BY DEF ProgressOk
-----------------------------------------------------------------------------
\* One list changes.
LEMMA OneList ==
    ASSUME lists \in [Lists -> ListVars], NEW l \in Lists, NEW d \in ListVars,
           lists' = [lists EXCEPT ![l] = d]
    PROVE  /\ lists' \in [Lists -> ListVars] /\ lists'[l] = d
           /\ \A m \in Lists : m # l => lists'[m] = lists[m]
OBVIOUS

LEMMA OtherIs ==
    /\ Outcomes \subseteq Lists /\ "progress" \in Lists /\ "progress" \notin Outcomes
    /\ Lists = Outcomes \cup {"progress"}
    /\ \A l \in Outcomes :
         /\ Other(l) \in Outcomes /\ Other(l) # l /\ Other(Other(l)) = l
         /\ Settled(l) \in {"resolved", "rejected"} /\ Settled(Other(l)) # Settled(l)
         /\ \A m \in Outcomes : m = l \/ m = Other(l)
         /\ \A s \in {"pending", "resolved", "rejected"} :
              s = "pending" \/ s = Settled(l) \/ s = Settled(Other(l))
         /\ Settled(l) # "pending"
BY DEF Outcomes, Lists, Other, Settled

\* The stack after a step: its first n calls, and one more or none.
Keeps(n) ==
    /\ frames' \in Seq(FrameVars) /\ Len(frames') = n /\ n \in 0 .. Len(frames)
    /\ \A i \in 1 .. n : frames'[i] = frames[i]

Pushes(n, c) ==
    /\ frames' \in Seq(FrameVars) /\ Len(frames') = n + 1 /\ n \in 0 .. Len(frames)
    /\ \A i \in 1 .. n : frames'[i] = frames[i]
    /\ frames'[n + 1] = c

LEMMA TopIs ==
    ASSUME frames \in Seq(FrameVars), frames # <<>>
    PROVE  /\ Len(frames) \in Nat \ {0} /\ Len(frames) - 1 \in 0 .. Len(frames)
           /\ Len(frames) \in DOMAIN frames /\ Top \in FrameVars
           /\ Top.of \in Lists /\ Top.at \in {"loop", "call"} /\ Top.fn \in Callable \cup {NoData}
<1>1. Len(frames) \in Nat \ {0} /\ Len(frames) - 1 \in 0 .. Len(frames) /\ Len(frames) \in DOMAIN frames
  BY EmptySeq
<1>2. Top \in FrameVars
  BY <1>1 DEF Top
<1> QED
  BY <1>1, <1>2 DEF FrameVars

LEMMA FrameIs == ASSUME frames \in Seq(FrameVars), NEW i \in DOMAIN frames PROVE frames[i].of \in Lists
<1>1. frames[i] \in FrameVars
  OBVIOUS
<1> QED
  BY <1>1 DEF FrameVars

\* The calls below the innermost one.
LEMMA PopIs ==
    ASSUME frames \in Seq(FrameVars), frames # <<>>
    PROVE  LET n == Len(frames) - 1 IN
           Pop \in Seq(FrameVars) /\ Len(Pop) = n /\ \A i \in 1 .. n : Pop[i] = frames[i]
<1> DEFINE n == Len(frames) - 1
<1>1. n \in 0 .. Len(frames) /\ Len(frames) \in Nat
  BY TopIs
<1>2. Pop = SubSeq(frames, 1, n)
  BY DEF Pop
<1> HIDE DEF n
<1>3. \A i \in 1 .. n : frames[i] \in FrameVars
  BY <1>1
<1>4. /\ SubSeq(frames, 1, n) \in Seq(FrameVars)
      /\ Len(SubSeq(frames, 1, n)) = IF 1 <= n THEN n - 1 + 1 ELSE 0
      /\ \A i \in 1 .. n - 1 + 1 : SubSeq(frames, 1, n)[i] = frames[1 + i - 1]
  BY <1>1, <1>3, SubSeqProperties
<1>5. Pop \in Seq(FrameVars) /\ Len(Pop) = n /\ \A i \in 1 .. n : Pop[i] = frames[i]
  BY <1>1, <1>2, <1>4
<1> QED
  BY <1>5 DEF n

LEMMA PopKeeps ==
    ASSUME frames \in Seq(FrameVars), frames # <<>>, frames' = Pop
    PROVE  Keeps(Len(frames) - 1)
BY TopIs, PopIs DEF Keeps

LEMMA AppendPushes ==
    ASSUME frames \in Seq(FrameVars), NEW c \in FrameVars, frames' = Append(frames, c)
    PROVE  Pushes(Len(frames), c)
BY AppendProperties DEF Pushes

LEMMA PopAppendPushes ==
    ASSUME frames \in Seq(FrameVars), frames # <<>>, NEW c \in FrameVars, frames' = Append(Pop, c)
    PROVE  Pushes(Len(frames) - 1, c)
<1> DEFINE n == Len(frames) - 1
<1>1. n \in 0 .. Len(frames)
  BY TopIs
<1>2. Pop \in Seq(FrameVars) /\ Len(Pop) = n /\ \A i \in 1 .. n : Pop[i] = frames[i]
  BY PopIs
<1> HIDE DEF n
<1>3. Pushes(n, c)
  BY <1>1, <1>2, AppendProperties DEF Pushes
<1> QED
  BY <1>3 DEF n

\* The innermost call goes on to another point.
LEMMA TopPushes ==
    ASSUME frames \in Seq(FrameVars), frames # <<>>, NEW c \in FrameVars,
           frames' = [frames EXCEPT ![Len(frames)] = c]
    PROVE  Pushes(Len(frames) - 1, c)
<1>1. Len(frames) \in Nat \ {0} /\ Len(frames) - 1 \in 0 .. Len(frames) /\ Len(frames) \in DOMAIN frames
  BY TopIs
<1>2. frames' \in Seq(FrameVars) /\ Len(frames') = Len(frames)
  BY <1>1
<1>3. frames'[Len(frames)] = c /\ \A i \in 1 .. Len(frames) - 1 : frames'[i] = frames[i]
  BY <1>1
<1>4. (Len(frames) - 1) + 1 = Len(frames)
  BY <1>1
<1> QED
  BY <1>1, <1>2, <1>3, <1>4 DEF Pushes

LEMMA PushedTop ==
    ASSUME NEW n, NEW c, Pushes(n, c)
    PROVE  /\ frames' # <<>> /\ Top' = c
           /\ DOMAIN frames' = 1 .. n + 1 /\ n \in Nat /\ Len(frames') = n + 1
<1>1. n \in Nat /\ Len(frames') = n + 1 /\ frames'[n + 1] = c /\ frames' \in Seq(FrameVars)
  BY DEF Pushes
<1>2. frames' # <<>> /\ DOMAIN frames' = 1 .. n + 1
  BY <1>1
<1> QED
  BY <1>1, <1>2 DEF Top

LEMMA Below ==
    ASSUME NEW k \in Nat, NEW n \in 0 .. k
    PROVE  /\ \A i \in 1 .. n : i \in 1 .. k
           /\ n = k - 1 => n # k /\ k \in 1 .. k
           /\ n # k => \A i \in 1 .. n : i # k
           /\ n = k \/ n = k - 1 => \A i \in 1 .. k : i # k => i \in 1 .. n
           /\ n = k => \A i \in 1 .. k : i \in 1 .. n
OBVIOUS
-----------------------------------------------------------------------------
\* FramesOk when the stack stays as it is.
LEMMA FramesKeep ==
    ASSUME Types, FramesOk, frames' = frames, thrown' = thrown,
           \A m \in Lists : lists'[m].firing = lists[m].firing,
           \A i \in DOMAIN frames : FrameOk(frames[i], lists'[frames[i].of]),
           \A m \in Outcomes : Early(lists'[m]) => Early(lists[m])
    PROVE  FramesOk'
<1>1. \A i \in DOMAIN frames' : FrameOk(frames'[i], lists'[frames'[i].of])
  OBVIOUS
<1>2. /\ \A i \in DOMAIN frames' : i # Len(frames') => frames'[i].at = "call" /\ frames'[i].fn \in Fn
      /\ \A i, j \in DOMAIN frames' : frames'[i].of = frames'[j].of => i = j
  BY DEF FramesOk
<1>3. ~thrown' => \A l \in Lists : lists'[l].firing => \E i \in DOMAIN frames' : frames'[i].of = l
  BY DEF FramesOk
<1>4. \A l \in Outcomes : Early(lists'[l]) => frames' # <<>> /\ Top'.of = l
  BY DEF FramesOk, Top
<1> QED
  BY <1>1, <1>2, <1>3, <1>4 DEF FramesOk

\* When a call begins, inside the innermost one or in its place.
LEMMA FramesPush ==
    ASSUME Types, FramesOk, thrown' = thrown, NEW n, NEW c \in FrameVars, Pushes(n, c),
           \/ n = Len(frames) /\ ProgramRuns /\ ~lists[c.of].firing
           \/ n = Len(frames) - 1 /\ frames # <<>> /\ c.of = Top.of,
           \A i \in 1 .. n : FrameOk(frames[i], lists'[frames[i].of]),
           FrameOk(c, lists'[c.of]),
           \A m \in Lists : m # c.of => lists'[m].firing = lists[m].firing,
           \A m \in Outcomes : m # c.of => ~Early(lists'[m])
    PROVE  FramesOk'
<1>1. /\ frames' # <<>> /\ Top' = c /\ DOMAIN frames' = 1 .. n + 1 /\ n \in Nat
      /\ Len(frames') = n + 1 /\ frames'[n + 1] = c
  BY PushedTop DEF Pushes
<1>2. \A i \in 1 .. n : frames'[i] = frames[i]
  BY DEF Pushes
<1>3. /\ DOMAIN frames = 1 .. Len(frames) /\ Len(frames) \in Nat /\ frames \in Seq(FrameVars)
      /\ n \in 0 .. Len(frames)
  BY DEF Types, Pushes
<1> DEFINE k == Len(frames)
<1> HIDE DEF k
<1>13. /\ \A i \in 1 .. n : i \in 1 .. k
       /\ n = k - 1 => n # k /\ k \in 1 .. k
       /\ n # k => \A i \in 1 .. n : i # k
       /\ n = k \/ n = k - 1 => \A i \in 1 .. k : i # k => i \in 1 .. n
       /\ n = k => \A i \in 1 .. k : i \in 1 .. n
  BY <1>3, Below DEF k
<1>4. \A i \in 1 .. n : i \in DOMAIN frames
  BY <1>3, <1>13 DEF k
<1>5. \A i \in 1 .. n : frames[i].of # c.of
  <2> TAKE i \in 1 .. n
  <2>1. i \in DOMAIN frames
    BY <1>4
  <2>2. CASE n = Len(frames) /\ ~lists[c.of].firing
    BY <2>1, <2>2 DEF FramesOk, FrameOk
  <2>3. CASE n = Len(frames) - 1 /\ frames # <<>> /\ c.of = Top.of
    <3>1. Len(frames) \in DOMAIN frames
      BY <1>3, <2>3, TopIs
    <3>2. i # Len(frames)
      BY <1>13, <2>3 DEF k
    <3> QED
      BY <2>1, <2>3, <3>1, <3>2 DEF FramesOk, Top
  <2> QED
    BY <2>2, <2>3
<1>6. \A i \in 1 .. n : frames[i].at = "call" /\ frames[i].fn \in Fn
  <2> TAKE i \in 1 .. n
  <2>1. CASE i # Len(frames)
    BY <2>1, <1>4 DEF FramesOk
  <2>2. CASE i = Len(frames)
    <3>1. n = Len(frames)
      BY <1>13, <2>2 DEF k
    <3>4. frames # <<>>
      BY <2>2, <1>3, <1>4, EmptySeq
    <3>2. n # Len(frames) - 1
      BY <1>13, <3>1 DEF k
    <3>3. ProgramRuns
      BY <3>2
    <3> QED
      BY <2>2, <3>1, <3>3, <3>4 DEF ProgramRuns, Top
  <2> QED
    BY <2>1, <2>2
<1>7. \A i \in 1 .. n + 1 : i \in 1 .. n \/ i = n + 1
  BY <1>1
<1>8. \A i \in DOMAIN frames' : FrameOk(frames'[i], lists'[frames'[i].of])
  BY <1>1, <1>2, <1>7
<1>9. \A i \in DOMAIN frames' : i # Len(frames') => frames'[i].at = "call" /\ frames'[i].fn \in Fn
  BY <1>1, <1>2, <1>6, <1>7
<1>10. \A i, j \in DOMAIN frames' : frames'[i].of = frames'[j].of => i = j
  <2> SUFFICES ASSUME NEW i \in 1 .. n + 1, NEW j \in 1 .. n + 1, frames'[i].of = frames'[j].of
               PROVE i = j
    BY <1>1
  <2>1. CASE i \in 1 .. n /\ j \in 1 .. n
    BY <2>1, <1>2, <1>4 DEF FramesOk
  <2>2. CASE i = n + 1 \/ j = n + 1
    BY <2>2, <1>1, <1>2, <1>5, <1>7
  <2> QED
    BY <2>1, <2>2, <1>7
<1>11. ~thrown' => \A l \in Lists : lists'[l].firing => \E i \in DOMAIN frames' : frames'[i].of = l
  <2> SUFFICES ASSUME ~thrown, NEW l \in Lists, lists'[l].firing
               PROVE \E i \in 1 .. n + 1 : frames'[i].of = l
    BY <1>1
  <2>1. CASE l = c.of
    BY <2>1, <1>1
  <2>2. CASE l # c.of
    <3>1. PICK i \in DOMAIN frames : frames[i].of = l
      BY <2>2 DEF FramesOk
    <3>2. i \in 1 .. n
      <4>1. CASE n = k
        BY <4>1, <1>3, <1>13 DEF k
      <4>2. CASE n = k - 1 /\ c.of = Top.of
        <5>1. i # k
          BY <4>2, <2>2, <3>1 DEF Top, k
        <5> QED
          BY <4>2, <5>1, <1>3, <1>13 DEF k
      <4> QED
        BY <4>1, <4>2 DEF k
    <3> QED
      BY <3>1, <3>2, <1>1, <1>2
  <2> QED
    BY <2>1, <2>2
<1>12. \A l \in Outcomes : Early(lists'[l]) => frames' # <<>> /\ Top'.of = l
  BY <1>1
<1> QED
  BY <1>8, <1>9, <1>10, <1>11, <1>12 DEF FramesOk

\* When the innermost call ends.
LEMMA FramesPop ==
    ASSUME Types, FramesOk, thrown' = thrown, frames # <<>>, Keeps(Len(frames) - 1),
           \A i \in 1 .. Len(frames) - 1 : FrameOk(frames[i], lists'[frames[i].of]),
           ~lists'[Top.of].firing,
           \A m \in Lists : m # Top.of => lists'[m].firing = lists[m].firing,
           \A m \in Outcomes : ~Early(lists'[m])
    PROVE  FramesOk'
<1> DEFINE n == Len(frames) - 1
<1>1. n \in Nat /\ n \in 0 .. Len(frames) /\ DOMAIN frames = 1 .. Len(frames)
      /\ Len(frames) \in Nat /\ Len(frames) \in DOMAIN frames
  BY TopIs DEF Types
<1>2. frames' \in Seq(FrameVars) /\ Len(frames') = n /\ \A i \in 1 .. n : frames'[i] = frames[i]
  BY DEF Keeps
<1>3. DOMAIN frames' = 1 .. n
  BY <1>2
<1> DEFINE k == Len(frames)
<1>12. n = k - 1
  BY DEF k
<1> HIDE DEF k, n
<1>13. k \in Nat /\ n \in 0 .. k
  BY <1>1 DEF k
<1>11. /\ \A i \in 1 .. n : i \in 1 .. k /\ i # k
       /\ \A i \in 1 .. k : i # k => i \in 1 .. n
  BY <1>13, <1>12, Below
<1>4. \A i \in 1 .. n : i \in DOMAIN frames /\ i # Len(frames)
  BY <1>1, <1>11 DEF k
<1>5. \A i \in DOMAIN frames' : FrameOk(frames'[i], lists'[frames'[i].of])
  BY <1>2, <1>3 DEF n
<1>6. \A i \in DOMAIN frames : i # Len(frames) => i \in 1 .. n
  BY <1>1, <1>11 DEF k
<1>7. \A i \in DOMAIN frames' : i # Len(frames') => frames'[i].at = "call" /\ frames'[i].fn \in Fn
  BY <1>2, <1>3, <1>4 DEF FramesOk
<1>8. \A i, j \in DOMAIN frames' : frames'[i].of = frames'[j].of => i = j
  BY <1>2, <1>3, <1>4 DEF FramesOk
<1>9. ~thrown' => \A l \in Lists : lists'[l].firing => \E i \in DOMAIN frames' : frames'[i].of = l
  <2> SUFFICES ASSUME ~thrown, NEW l \in Lists, lists'[l].firing
               PROVE \E i \in 1 .. n : frames'[i].of = l
    BY <1>3
  <2>1. l # Top.of
    OBVIOUS
  <2>2. PICK i \in DOMAIN frames : frames[i].of = l
    BY <2>1 DEF FramesOk
  <2> QED
    BY <2>1, <2>2, <1>2, <1>6 DEF Top
<1>10. \A l \in Outcomes : Early(lists'[l]) => frames' # <<>> /\ Top'.of = l
  OBVIOUS
<1> QED
  BY <1>5, <1>7, <1>8, <1>9, <1>10 DEF FramesOk
-----------------------------------------------------------------------------
\* The program runs only when the three functions of a list that fires are done.
LEMMA ProgramNotEarly ==
    ASSUME Types, OutcomesOk, FramesOk, ProgramRuns
    PROVE  \A l \in Outcomes : ~Early(lists[l]) /\ ~Looping(l)
<1> TAKE l \in Outcomes
<1>1. CASE frames = <<>>
  BY <1>1 DEF FramesOk, Looping
<1>2. CASE frames # <<>>
  <2>1. Top.at = "call" /\ Top.fn \in Fn
    BY <1>2 DEF ProgramRuns
  <2>2. ASSUME Early(lists[l]) PROVE FALSE
    <3>1. Top.of = l
      BY <2>2 DEF FramesOk
    <3>2. Len(frames) \in DOMAIN frames
      BY <1>2, TopIs DEF Types
    <3>3. FrameOk(Top, lists[l])
      BY <3>1, <3>2 DEF FramesOk, Top
    <3> DEFINE cb == lists[l]
    <3>4. cb \in ListVars /\ OutcomeOk(cb)
      BY OtherIs DEF Types, OutcomesOk
    <3>5. Early(cb) /\ Top.fn = cb.list[cb.firingIndex + 1]
      BY <2>1, <2>2, <3>1, <3>3 DEF FrameOk
    <3> HIDE DEF cb
    <3>6. cb.firingIndex \in Int /\ cb.firingIndex >= 0 /\ cb.firingIndex < 3
      BY <3>4, <3>5, VarsAre DEF Early, OutcomeOk
    <3>7. cb.firingIndex + 1 \in {1, 2, 3}
      BY <3>6
    <3> QED
      BY <2>1, <3>5, <3>7, Named DEF Early, Wires
  <2> QED
    BY <2>1, <2>2 DEF Looping
<1> QED
  BY <1>1, <1>2

LEMMA FrameOkIf ==
    ASSUME NEW fr, NEW cb, NEW d, FrameOk(fr, cb), d.firing,
           fr.of \in Outcomes => d.list[d.firingIndex + 1] = cb.list[cb.firingIndex + 1]
    PROVE  FrameOk(fr, d)
BY DEF FrameOk

\* What is not the list of the innermost call is not in a loop.
LEMMA LoopingPushed ==
    ASSUME NEW n, NEW c, Pushes(n, c)
    PROVE  \A m \in Lists : Looping(m)' <=> c.of = m /\ c.at = "loop"
BY PushedTop DEF Looping

LEMMA LoopingPopped ==
    ASSUME Types, FramesOk, frames # <<>>, Keeps(Len(frames) - 1)
    PROVE  \A m \in Lists : ~Looping(m)'
<1> SUFFICES ASSUME frames' # <<>> PROVE Top'.at = "call"
  BY DEF Looping
<1> DEFINE n == Len(frames) - 1
<1>1. n \in 0 .. Len(frames) /\ Len(frames) \in Nat /\ n # Len(frames)
      /\ DOMAIN frames = 1 .. Len(frames)
  BY TopIs DEF Types
<1>2. frames' \in Seq(FrameVars) /\ Len(frames') = n /\ \A i \in 1 .. n : frames'[i] = frames[i]
  BY DEF Keeps
<1> HIDE DEF n
<1>3. n # 0
  BY <1>2, EmptySeq
<1> DEFINE k == Len(frames)
<1>6. n \in 0 .. k /\ k \in Nat
  BY <1>1 DEF k
<1> HIDE DEF k
<1>7. n \in 1 .. n /\ n \in 1 .. k
  BY <1>3, <1>6
<1>4. n \in 1 .. n /\ n \in DOMAIN frames
  BY <1>1, <1>7 DEF k
<1>5. frames[n].at = "call"
  BY <1>1, <1>4 DEF FramesOk
<1> QED
  BY <1>2, <1>4, <1>5 DEF Top

\* The parts that a step of the program, or the end of a loop, leaves alone.
LEMMA StateSame ==
    ASSUME StateOk, state' = state,
           \A l \in Outcomes :
              /\ lists'[l].disabled = lists[l].disabled /\ lists'[l].fired = lists[l].fired
              /\ ~Early(lists[l]) /\ ~Early(lists'[l]),
           Closed(lists["progress"]) => Closed(lists'["progress"])
    PROVE  StateOk'
<1>1. \A l \in Outcomes : Other(l) \in Outcomes
  BY OtherIs
<1>2. state' = "pending" => \A l \in Outcomes : ~lists'[l].disabled /\ ~lists'[l].fired
  BY DEF StateOk
<1>3. \A l \in Outcomes : state' = Settled(l) =>
         /\ lists'[l].fired /\ ~lists'[Other(l)].fired /\ lists'[Other(l)].disabled
  BY <1>1 DEF StateOk
<1>4. state' # "pending" => Closed(lists'["progress"])
  BY DEF StateOk
<1> QED
  BY <1>2, <1>3, <1>4 DEF StateOk

LEMMA CountUp ==
    ASSUME NEW g \in [Lists -> [Fn -> Nat]], NEW l \in Lists, NEW f \in Fn,
           NEW h, h = [g EXCEPT ![l][f] = @ + 1]
    PROVE  /\ h \in [Lists -> [Fn -> Nat]] /\ h[l][f] = g[l][f] + 1
           /\ \A m \in Lists, e \in Fn : m # l \/ e # f => h[m][e] = g[m][e]
OBVIOUS

Counts == [Lists -> [Fn -> Nat]]
OneMore(g, l, f) == [g EXCEPT ![l][f] = @ + 1]
CountsUp(g, h, l, f) ==
    /\ h[l][f] = g[l][f] + 1
    /\ \A m \in Lists, e \in Fn : m # l \/ e # f => h[m][e] = g[m][e]

\* One more call of f is counted.
LEMMA Counted ==
    ASSUME NEW g \in Counts, NEW l \in Lists, NEW f \in Fn
    PROVE  OneMore(g, l, f) \in Counts /\ CountsUp(g, OneMore(g, l, f), l, f)
BY DEF Counts, OneMore, CountsUp

-----------------------------------------------------------------------------
\* The calls that the loop of fire has still to make.
LEMMA PlacesFinite ==
    ASSUME NEW cb \in ListVars, NEW b, NEW f
    PROVE  IsFiniteSet(Places(cb, b, f)) /\ Cardinality(Places(cb, b, f)) \in Nat
<1>1. Places(cb, b, f) \subseteq 1 .. Len(cb.list) /\ IsFiniteSet(1 .. Len(cb.list))
  BY VarsAre, FS_Interval DEF Places
<1>2. IsFiniteSet(Places(cb, b, f))
  BY <1>1, FS_Subset
<1> QED
  BY <1>2, FS_CardinalityType

LEMMA PlacesSame ==
    ASSUME NEW cb, NEW d, d.list = cb.list, NEW a, NEW b, From(d, b) = From(cb, a), NEW f
    PROVE  Places(d, b, f) = Places(cb, a, f)
BY DEF Places

LEMMA PlacesGrow ==
    ASSUME NEW cb \in ListVars, NEW d \in ListVars, NEW f \in Fn, d.list = Append(cb.list, f),
           NEW b, From(d, b) = From(cb, b), From(cb, b) \in Int, From(cb, b) <= Len(cb.list) + 1
    PROVE  /\ Cardinality(Places(d, b, f)) = Cardinality(Places(cb, b, f)) + 1
           /\ \A g \in Fn : g # f => Places(d, b, g) = Places(cb, b, g)
<1> DEFINE n == Len(cb.list)
<1>1. /\ Len(d.list) = n + 1 /\ n \in Nat
      /\ \A i \in 1 .. n : d.list[i] = cb.list[i]
      /\ d.list[n + 1] = f
  BY AppendIs, VarsAre, Named
<1>2. From(cb, b) <= n + 1
  OBVIOUS
<1>3. \A g \in Fn : Places(cb, b, g) = {i \in 1 .. n : i >= From(cb, b) /\ cb.list[i] = g}
  BY DEF Places
<1>4. \A g \in Fn : Places(d, b, g) = {i \in 1 .. n + 1 : i >= From(cb, b) /\ d.list[i] = g}
  BY <1>1 DEF Places
<1> HIDE DEF n
<1>5. 1 .. n + 1 = 1 .. n \cup {n + 1} /\ n + 1 \notin 1 .. n /\ n + 1 \in Nat
  BY <1>1
<1>6. Places(d, b, f) = Places(cb, b, f) \cup {n + 1} /\ n + 1 \notin Places(cb, b, f)
  BY <1>1, <1>2, <1>3, <1>4, <1>5
<1>7. \A g \in Fn : g # f => Places(d, b, g) = Places(cb, b, g)
  <2> SUFFICES ASSUME NEW g \in Fn, g # f PROVE Places(d, b, g) = Places(cb, b, g)
    OBVIOUS
  <2>1. Places(d, b, g) \subseteq Places(cb, b, g)
    BY <1>1, <1>3, <1>4, <1>5
  <2>2. Places(cb, b, g) \subseteq Places(d, b, g)
    BY <1>1, <1>3, <1>4, <1>5
  <2> QED
    BY <2>1, <2>2
<1>8. Cardinality(Places(d, b, f)) = Cardinality(Places(cb, b, f)) + 1
  BY <1>6, PlacesFinite, FS_AddElement
<1> QED
  BY <1>7, <1>8

LEMMA PlacesNone ==
    ASSUME NEW cb \in ListVars, NEW b, From(cb, b) \in Int, From(cb, b) > Len(cb.list), NEW f
    PROVE  Places(cb, b, f) = {}
<1>1. Len(cb.list) \in Nat
  BY VarsAre
<1> QED
  BY <1>1 DEF Places

LEMMA PlacesOne ==
    ASSUME NEW d \in ListVars, Len(d.list) = 1, NEW b, From(d, b) = 1, NEW f \in Fn, d.list[1] = f
    PROVE  Cardinality(Places(d, b, f)) = 1 /\ \A g \in Fn : g # f => Places(d, b, g) = {}
<1>1. Places(d, b, f) = {1}
  BY DEF Places
<1>2. \A g \in Fn : g # f => Places(d, b, g) = {}
  BY DEF Places
<1> QED
  BY <1>1, <1>2, FS_Singleton

\* The loop calls the element at its index and goes on to the next.
LEMMA PlacesCall ==
    ASSUME NEW cb \in ListVars, cb.firing, cb.firingIndex >= 0, cb.firingIndex < Len(cb.list),
           NEW f \in Fn
    PROVE  IF cb.list[cb.firingIndex + 1] = f
             THEN Cardinality(Places(cb, TRUE, f)) = Cardinality(Places(cb, FALSE, f)) + 1
             ELSE Places(cb, TRUE, f) = Places(cb, FALSE, f)
<1> DEFINE n == Len(cb.list)
           k == cb.firingIndex + 1
<1>1. n \in Nat /\ k \in 1 .. n /\ cb.firingIndex + 2 = k + 1
  BY VarsAre
<1>2. Places(cb, TRUE, f) = {i \in 1 .. n : i >= k /\ cb.list[i] = f}
  BY DEF Places, From
<1>3. Places(cb, FALSE, f) = {i \in 1 .. n : i >= k + 1 /\ cb.list[i] = f}
  BY <1>1 DEF Places, From
<1>4. \A i \in 1 .. n : i >= k <=> i = k \/ i >= k + 1
  BY <1>1
<1>5. ~(k >= k + 1)
  BY <1>1
<1>6. cb.list[k] = cb.list[cb.firingIndex + 1]
  OBVIOUS
<1> HIDE DEF n, k
<1>7. CASE cb.list[k] = f
  <2>1. Places(cb, TRUE, f) = Places(cb, FALSE, f) \cup {k} /\ k \notin Places(cb, FALSE, f)
    BY <1>1, <1>2, <1>3, <1>4, <1>5, <1>7
  <2>2. Cardinality(Places(cb, TRUE, f)) = Cardinality(Places(cb, FALSE, f)) + 1
    BY <2>1, PlacesFinite, FS_AddElement
  <2> QED
    BY <1>6, <1>7, <2>2
<1>8. CASE cb.list[k] # f
  <2>1. Places(cb, TRUE, f) = Places(cb, FALSE, f)
    BY <1>1, <1>2, <1>3, <1>4, <1>8
  <2> QED
    BY <1>6, <1>8, <2>1
<1> QED
  BY <1>7, <1>8
-----------------------------------------------------------------------------
\* done, fail and progress.
LEMMA ListIs ==
    ASSUME Types, OutcomesOk, ProgressOk(lists["progress"], noted), NEW l \in Lists
    PROVE  /\ lists[l] \in ListVars /\ ~lists[l].options.unique /\ lists[l].options.memory
           /\ lists[l].firingStart = 0 /\ (l \in Outcomes => OutcomeOk(lists[l]))
<1>1. ~OnceMemory.unique /\ OnceMemory.memory /\ ~Memory.unique /\ Memory.memory
  BY DEF OnceMemory, Memory
<1>2. CASE l \in Outcomes
  BY <1>1, <1>2, OtherIs DEF Types, OutcomesOk, OutcomeOk
<1>3. CASE l = "progress"
  BY <1>1, <1>3, OtherIs DEF Types, ProgressOk
<1> QED
  BY <1>2, <1>3, OtherIs

LEMMA AddIs ==
    ASSUME Types, OutcomesOk, ProgressOk(lists["progress"], noted),
           NEW l \in Lists, NEW f \in Fn, Add(l, f)
    PROVE  /\ ProgramRuns /\ thrown' = thrown /\ ops' \in Nat
           /\ \/ lists[l].disabled /\ lists' = lists /\ frames' = frames
              \/ /\ ~lists[l].disabled /\ (lists[l].firing \/ lists[l].memory = NoData)
                 /\ \E d \in ListVars : Grown(lists[l], f, d) /\ lists' = [lists EXCEPT ![l] = d]
                 /\ frames' = frames
              \/ /\ ~lists[l].disabled /\ ~lists[l].firing /\ lists[l].memory # NoData
                 /\ \E d \in ListVars :
                      /\ Begun(lists[l], Append(lists[l].list, f), lists[l].memory, Len(lists[l].list), d)
                      /\ d.stack = lists[l].stack
                      /\ lists' = [lists EXCEPT ![l] = d]
                 /\ frames' = Append(frames, Frame(l))
<1> DEFINE cb == lists[l]
           p == Pushed(cb, f)
<1>1. cb \in ListVars /\ ~cb.options.unique /\ cb.options.memory /\ f \in Callable
  BY ListIs, Named
<1>7. ProgramRuns /\ thrown' = thrown /\ ops' = ops + 1 /\ ops \in Nat
  BY DEF Add, Op, Types
<1>2. ProgramRuns /\ thrown' = thrown /\ ops' \in Nat
  BY <1>7
<1>3. CASE cb.disabled
  BY <1>2, <1>3 DEF Add
<1>4. CASE ~cb.disabled /\ cb.firing
  <2> DEFINE d == [p EXCEPT !.firingLength = Len(p.list)]
  <2>1. Grown(cb, f, d)
    BY <1>1, <1>4, GrowsTo
  <2>2. d \in ListVars
    BY <2>1 DEF Grown
  <2>3. lists' = [lists EXCEPT ![l] = d] /\ frames' = frames
    BY <1>4 DEF Add
  <2> HIDE DEF d
  <2>4. \E e \in ListVars : Grown(lists[l], f, e) /\ lists' = [lists EXCEPT ![l] = e]
    BY <2>1, <2>2, <2>3
  <2> QED
    BY <1>2, <1>4, <2>3, <2>4
<1>5. CASE ~cb.disabled /\ ~cb.firing /\ cb.memory = NoData
  <2>1. Grown(cb, f, p)
    BY <1>1, <1>5, GrowsTo
  <2>2. p \in ListVars
    BY <2>1 DEF Grown
  <2>3. lists' = [lists EXCEPT ![l] = p] /\ frames' = frames
    BY <1>5 DEF Add
  <2> HIDE DEF p
  <2>4. \E e \in ListVars : Grown(lists[l], f, e) /\ lists' = [lists EXCEPT ![l] = e]
    BY <2>1, <2>2, <2>3
  <2> QED
    BY <1>2, <1>5, <2>3, <2>4
<1>6. CASE ~cb.disabled /\ ~cb.firing /\ cb.memory # NoData
  <2> DEFINE d == Fire([p EXCEPT !.firingStart = Len(cb.list)], cb.memory)
  <2>1. cb.memory \in Data
    BY <1>1, <1>6, VarsAre
  <2>2. Begun(cb, Append(cb.list, f), cb.memory, Len(cb.list), d) /\ d.stack = cb.stack
    BY <1>1, <2>1, AddFires
  <2>3. d \in ListVars
    BY <2>2 DEF Begun
  <2>4. lists' = [lists EXCEPT ![l] = d] /\ frames' = Append(frames, Frame(l))
    BY <1>6 DEF Add
  <2> HIDE DEF d
  <2>5. \E e \in ListVars :
          /\ Begun(lists[l], Append(lists[l].list, f), lists[l].memory, Len(lists[l].list), e)
          /\ e.stack = lists[l].stack
          /\ lists' = [lists EXCEPT ![l] = e]
    BY <2>2, <2>3, <2>4
  <2> QED
    BY <1>2, <1>6, <2>4, <2>5
<1> QED
  BY <1>3, <1>4, <1>5, <1>6

\* The handler is put into a list that fires, or that has nothing to fire it with.
LEMMA RegisterGrows ==
    ASSUME IInv, ProgramRuns, NEW l \in Lists, NEW f \in Fn, NEW d,
           ~lists[l].disabled, lists[l].firing \/ lists[l].memory = NoData,
           Grown(lists[l], f, d), lists' = [lists EXCEPT ![l] = d], frames' = frames,
           thrown' = thrown, ops' \in Nat, added' = [added EXCEPT ![l][f] = @ + 1],
           state' = state, called' = called, noted' = noted
    PROVE  IInv'
<1> DEFINE cb == lists[l]
<1>1. /\ Types /\ OutcomesOk /\ ProgressOk(lists["progress"], noted) /\ StateOk /\ FramesOk
      /\ LoopOk /\ CountOk
  BY DEF IInv
<1>2. \A m \in Outcomes : ~Early(lists[m]) /\ ~Looping(m)
  BY <1>1, ProgramNotEarly
<1>3. cb \in ListVars /\ d \in ListVars /\ (l \in Outcomes => OutcomeOk(cb))
  BY <1>1, ListIs DEF Grown
<1>4. /\ lists' \in [Lists -> ListVars] /\ lists'[l] = d
      /\ \A m \in Lists : m # l => lists'[m] = lists[m]
  BY <1>1, <1>3, OneList DEF Types
<1>5. l \in Outcomes => OutcomeOk(d) /\ (Early(d) <=> Early(cb))
  BY <1>3, OutcomeGrows
<1>6. \A m \in Outcomes : Looping(m)' = Looping(m)
  BY DEF Looping, Top
<1>7. /\ added' \in [Lists -> [Fn -> Nat]] /\ added'[l][f] = added[l][f] + 1
      /\ \A m \in Lists, e \in Fn : m # l \/ e # f => added'[m][e] = added[m][e]
  BY <1>1, CountUp DEF Types
<1>8. /\ Len(d.list) = Len(cb.list) + 1 /\ Len(cb.list) \in Nat
      /\ \A i \in 1 .. Len(cb.list) : d.list[i] = cb.list[i]
  BY <1>3, AppendIs, VarsAre, Named DEF Grown
<1>9. cb.firingIndex \in Int /\ d.firingIndex = cb.firingIndex /\ d.firing = cb.firing
      /\ d.fired = cb.fired /\ d.disabled = cb.disabled /\ d.locked = cb.locked
      /\ d.list = Append(cb.list, f)
  BY <1>3, VarsAre DEF Grown
<1>10. Types'
  BY <1>1, <1>4, <1>7 DEF Types
<1>11. OutcomesOk'
  BY <1>1, <1>4, <1>5, OtherIs DEF OutcomesOk
<1>12. ProgressOk(lists["progress"], noted)'
  BY <1>1, <1>3, <1>4, ProgressGrows, OtherIs DEF Types
<1>13. \A m \in Outcomes : ~Early(lists'[m])
  BY <1>2, <1>4, <1>5, OtherIs
<1>14. Closed(lists["progress"]) => Closed(lists'["progress"])
  BY <1>4, <1>9, OtherIs DEF Closed
<1>15. StateOk'
  <2>1. \A m \in Outcomes : lists'[m].disabled = lists[m].disabled /\ lists'[m].fired = lists[m].fired
    BY <1>4, <1>9, OtherIs
  <2> QED
    BY <1>1, <1>2, <1>13, <1>14, <2>1, StateSame
<1>16. l \in Outcomes /\ cb.firing => cb.firingIndex >= 0 /\ cb.firingIndex < Len(cb.list)
  <2> SUFFICES ASSUME l \in Outcomes, cb.firing
               PROVE cb.firingIndex >= 0 /\ cb.firingIndex < Len(cb.list)
    OBVIOUS
  <2>1. cb.firingIndex < Len(cb.list) + (IF Looping(l) THEN 1 ELSE 0)
    BY <1>1 DEF LoopOk
  <2>2. cb.firingIndex < Len(cb.list) + 0
    BY <2>1, <1>2
  <2>3. cb.firingIndex >= 0
    BY <1>3 DEF OutcomeOk
  <2> HIDE DEF cb
  <2> QED
    BY <2>2, <2>3, <1>8
<1>17. FramesOk'
  <2>1. \A i \in DOMAIN frames : FrameOk(frames[i], lists'[frames[i].of])
    <3> TAKE i \in DOMAIN frames
    <3>1. frames[i].of \in Lists /\ FrameOk(frames[i], lists[frames[i].of])
      BY <1>1, FrameIs DEF FramesOk, Types
    <3>2. CASE frames[i].of # l
      BY <3>1, <3>2, <1>4
    <3>3. CASE frames[i].of = l
      <4>1. FrameOk(frames[i], cb) /\ cb.firing
        BY <3>1, <3>3 DEF FrameOk
      <4>2. l \in Outcomes => d.list[d.firingIndex + 1] = cb.list[cb.firingIndex + 1]
        BY <4>1, <1>8, <1>9, <1>16
      <4> QED
        BY <4>1, <4>2, <3>3, <1>4, <1>9, FrameOkIf
    <3> QED
      BY <3>2, <3>3
  <2>2. \A m \in Lists : lists'[m].firing = lists[m].firing
    BY <1>4, <1>9
  <2> QED
    BY <1>1, <1>13, <2>1, <2>2, FramesKeep
<1>18. LoopOk'
  <2> SUFFICES ASSUME NEW m \in Outcomes, lists'[m].firing
               PROVE lists'[m].firingIndex < Len(lists'[m].list) + (IF Looping(m)' THEN 1 ELSE 0)
    BY DEF LoopOk
  <2>1. CASE m # l
    BY <2>1, <1>1, <1>4, <1>6, OtherIs DEF LoopOk
  <2>2. CASE m = l
    <3>1. cb.firing /\ ~Looping(m)'
      BY <2>2, <1>2, <1>4, <1>6, <1>9
    <3> QED
      BY <2>2, <3>1, <1>4, <1>8, <1>9, <1>16
  <2> QED
    BY <2>1, <2>2
<1>19. CountOk'
  <2> SUFFICES ASSUME NEW m \in Outcomes, NEW e \in Fn, state # Settled(Other(m))
               PROVE added'[m][e] = called[m][e] + Cardinality(Places(lists'[m], Looping(m)', e))
    BY DEF CountOk
  <2>1. /\ added[m][e] = called[m][e] + Cardinality(Places(lists[m], Looping(m), e))
        /\ called[m][e] \in Nat /\ added[m][e] \in Nat /\ m \in Lists
    BY <1>1, OtherIs DEF CountOk, Types
  <2>2. CASE m # l
    <3>1. lists'[m] = lists[m] /\ Looping(m)' = Looping(m) /\ added'[m][e] = added[m][e]
      BY <2>1, <2>2, <1>4, <1>6, <1>7
    <3> QED
      BY <2>1, <3>1
  <2>3. CASE m = l
    <3> PICK b : b = FALSE
      OBVIOUS
    <3>1. /\ From(d, b) = From(cb, b) /\ From(cb, b) \in Int
          /\ From(cb, b) <= Len(cb.list) + 1
      BY <2>3, <1>8, <1>9, <1>16 DEF From
    <3>2. cb \in ListVars /\ d \in ListVars /\ d.list = Append(cb.list, f)
      BY <1>3, <1>9
    <3>3. /\ lists'[m] = d /\ lists[m] = cb /\ Looping(m) = b /\ Looping(m)' = b
      BY <2>3, <1>2, <1>4, <1>6 DEF Looping
    <3> DEFINE x(g) == Cardinality(Places(cb, b, g))
               y(g) == Cardinality(Places(d, b, g))
    <3> HIDE DEF cb
    <3>4. y(f) = x(f) + 1 /\ \A g \in Fn : g # f => y(g) = x(g)
      BY <3>1, <3>2, PlacesGrow
    <3>5. x(e) \in Nat
      BY <3>2, PlacesFinite
    <3>6. added[m][e] = called[m][e] + x(e)
      BY <2>1, <3>3
    <3> SUFFICES added'[m][e] = called[m][e] + y(e)
      BY <3>3
    <3> HIDE DEF x, y
    <3>7. CASE e = f
      <4>1. added'[m][e] = added[m][e] + 1
        BY <3>7, <2>3, <1>7
      <4> QED
        BY <4>1, <3>4, <3>5, <3>6, <3>7, <2>1
    <3>8. CASE e # f
      BY <3>4, <3>6, <3>8, <2>1, <2>3, <1>7
    <3> QED
      BY <3>7, <3>8
  <2> QED
    BY <2>2, <2>3
<1> QED
  BY <1>10, <1>11, <1>12, <1>15, <1>17, <1>18, <1>19 DEF IInv

\* A call that finds nothing to do, but for what the history counts.
LEMMA NothingToDo ==
    ASSUME IInv, lists' = lists, frames' = frames, thrown' = thrown, ops' \in Nat,
           state' = state, called' = called, noted \subseteq noted', noted' \subseteq Data,
           added' \in [Lists -> [Fn -> Nat]],
           \A m \in Outcomes, e \in Fn : state # Settled(Other(m)) => added'[m][e] = added[m][e]
    PROVE  IInv'
<1>1. /\ Types /\ OutcomesOk /\ ProgressOk(lists["progress"], noted) /\ StateOk /\ FramesOk
      /\ LoopOk /\ CountOk
  BY DEF IInv
<1>2. Types'
  BY <1>1 DEF Types
<1>3. OutcomesOk'
  BY <1>1 DEF OutcomesOk
<1>4. ProgressOk(lists["progress"], noted)'
  BY <1>1, ProgressMore
<1>5. StateOk'
  BY <1>1 DEF StateOk
<1>6. FramesOk'
  BY <1>1 DEF FramesOk, Top
<1>7. \A m \in Outcomes : Looping(m)' = Looping(m)
  BY DEF Looping, Top
<1>8. LoopOk'
  BY <1>1 DEF LoopOk, Looping, Top
<1>9. CountOk'
  BY <1>1, <1>7 DEF CountOk
<1> QED
  BY <1>2, <1>3, <1>4, <1>5, <1>6, <1>8, <1>9 DEF IInv

\* The program fires a list, by settling, notifying or adding to it.
LEMMA ProgramFires ==
    ASSUME IInv, ProgramRuns, NEW l \in Lists, ~lists[l].firing,
           NEW s, NEW v, NEW n, NEW d, Begun(lists[l], s, v, n, d),
           l \in Outcomes => n = 0 /\ Len(s) \in Nat /\ Len(s) # 0,
           lists' = [lists EXCEPT ![l] = d], frames' = Append(frames, Frame(l)),
           thrown' = thrown
    PROVE  /\ lists' \in [Lists -> ListVars] /\ lists'[l] = d
           /\ \A m \in Lists : m # l => lists'[m] = lists[m]
           /\ frames' \in Seq(FrameVars) /\ FramesOk' /\ LoopOk'
           /\ Looping(l)' = TRUE
           /\ \A m \in Outcomes : Looping(m) = FALSE
           /\ \A m \in Outcomes : m # l => Looping(m)' = FALSE
<1>1. Types /\ OutcomesOk /\ FramesOk /\ LoopOk
  BY DEF IInv
<1>2. \A m \in Outcomes : ~Early(lists[m]) /\ ~Looping(m)
  BY <1>1, ProgramNotEarly
<1>3. d \in ListVars /\ d.firing /\ d.firingIndex = n /\ d.list = s
  BY DEF Begun
<1>4. /\ lists' \in [Lists -> ListVars] /\ lists'[l] = d
      /\ \A m \in Lists : m # l => lists'[m] = lists[m]
  BY <1>1, <1>3, OneList DEF Types
<1>5. Frame(l) \in FrameVars /\ Frame(l).of = l /\ Frame(l).at = "loop"
  BY DEF Frame, FrameVars
<1>6. Pushes(Len(frames), Frame(l))
  BY <1>1, <1>5, AppendPushes DEF Types
<1>7. \A m \in Lists : Looping(m)' <=> m = l
  BY <1>5, <1>6, LoopingPushed
<1>8. \A i \in 1 .. Len(frames) : FrameOk(frames[i], lists'[frames[i].of])
  <2> TAKE i \in 1 .. Len(frames)
  <2>1. i \in DOMAIN frames
    BY <1>1 DEF Types
  <2>2. frames[i].of \in Lists /\ FrameOk(frames[i], lists[frames[i].of])
    BY <1>1, <2>1, FrameIs DEF FramesOk, Types
  <2>3. frames[i].of # l
    BY <2>2 DEF FrameOk
  <2> QED
    BY <2>2, <2>3, <1>4
<1>9. FrameOk(Frame(l), d)
  BY <1>3, <1>5 DEF FrameOk
<1>10. FramesOk'
  <2>1. \A m \in Lists : m # l => lists'[m].firing = lists[m].firing
    BY <1>4
  <2>2. \A m \in Outcomes : m # l => ~Early(lists'[m])
    BY <1>2, <1>4, OtherIs
  <2> QED
    BY <1>1, <1>4, <1>5, <1>6, <1>8, <1>9, <2>1, <2>2, FramesPush
<1>11. LoopOk'
  <2> SUFFICES ASSUME NEW m \in Outcomes, lists'[m].firing
               PROVE lists'[m].firingIndex < Len(lists'[m].list) + (IF Looping(m)' THEN 1 ELSE 0)
    BY DEF LoopOk
  <2>1. CASE m # l
    <3>1. lists'[m] = lists[m] /\ ~Looping(m)' /\ ~Looping(m)
      BY <2>1, <1>2, <1>4, <1>7, OtherIs
    <3> QED
      BY <3>1, <1>1 DEF LoopOk
  <2>2. CASE m = l
    <3>1. Looping(m)'
      BY <2>2, <1>7
    <3> QED
      BY <2>2, <3>1, <1>3, <1>4
  <2> QED
    BY <2>1, <2>2
<1>12. Looping(l)' = TRUE
  BY <1>7 DEF Looping
<1>13. \A m \in Outcomes : Looping(m) = FALSE
  BY <1>2 DEF Looping
<1>14. \A m \in Outcomes : m # l => Looping(m)' = FALSE
  BY <1>7, OtherIs DEF Looping
<1> QED
  BY <1>1, <1>4, <1>6, <1>10, <1>11, <1>12, <1>13, <1>14 DEF Pushes

\* The handler is put into a list that has fired: it alone is called.
LEMMA RegisterFires ==
    ASSUME IInv, ProgramRuns, NEW l \in Lists, NEW f \in Fn, NEW d,
           ~lists[l].disabled, ~lists[l].firing, lists[l].memory # NoData,
           Begun(lists[l], Append(lists[l].list, f), lists[l].memory, Len(lists[l].list), d),
           d.stack = lists[l].stack, lists' = [lists EXCEPT ![l] = d],
           frames' = Append(frames, Frame(l)),
           thrown' = thrown, ops' \in Nat, added' = [added EXCEPT ![l][f] = @ + 1],
           state' = state, called' = called, noted' = noted
    PROVE  IInv'
<1>1. /\ Types /\ OutcomesOk /\ ProgressOk(lists["progress"], noted) /\ StateOk /\ FramesOk
      /\ LoopOk /\ CountOk
  BY DEF IInv
<1>2. \A m \in Outcomes : ~Early(lists[m])
  BY <1>1, ProgramNotEarly
<1>3. lists[l] \in ListVars /\ (l \in Outcomes => OutcomeOk(lists[l])) /\ d \in ListVars
  BY <1>1, ListIs DEF Begun
<1>4. l \in Outcomes => /\ OutcomeOk(d) /\ ~Early(d) /\ lists[l].fired /\ lists[l].list = <<>>
                        /\ d.firingIndex = 0 /\ Len(d.list) = 1 /\ d.list[1] = f
  BY <1>3, OutcomeRefires
<1>5. d.list = Append(lists[l].list, f) /\ d.firingIndex = Len(lists[l].list) /\ d.firing /\ d.fired
      /\ d.disabled = lists[l].disabled /\ d.locked = lists[l].locked
  BY DEF Begun
<1>6. l \in Outcomes => Len(lists[l].list) = 0 /\ Len(d.list) = 1
  BY <1>4
<1>7. /\ lists' \in [Lists -> ListVars] /\ lists'[l] = d
      /\ \A m \in Lists : m # l => lists'[m] = lists[m]
      /\ frames' \in Seq(FrameVars) /\ FramesOk' /\ LoopOk'
      /\ Looping(l)' = TRUE
      /\ \A m \in Outcomes : Looping(m) = FALSE
      /\ \A m \in Outcomes : m # l => Looping(m)' = FALSE
  <2>1. l \in Outcomes => Len(lists[l].list) = 0 /\ Len(Append(lists[l].list, f)) \in Nat
                          /\ Len(Append(lists[l].list, f)) # 0
    BY <1>5, <1>6
  <2> QED
    BY <2>1, ProgramFires
<1>8. /\ added' \in [Lists -> [Fn -> Nat]] /\ added'[l][f] = added[l][f] + 1
      /\ \A m \in Lists, e \in Fn : m # l \/ e # f => added'[m][e] = added[m][e]
  BY <1>1, CountUp DEF Types
<1>9. Types'
  BY <1>1, <1>7, <1>8 DEF Types
<1>10. OutcomesOk'
  BY <1>1, <1>4, <1>7, OtherIs DEF OutcomesOk
<1>11. ProgressOk(lists["progress"], noted)'
  <2>1. CASE l # "progress"
    BY <2>1, <1>1, <1>7, OtherIs
  <2>2. CASE l = "progress"
    <3> DEFINE cb == lists[l]
    <3>1. cb \in ListVars /\ ProgressOk(cb, noted) /\ noted \in SUBSET Data
      BY <2>2, <1>1, <1>3 DEF Types
    <3>2. cb.memory \in noted
      BY <3>1 DEF ProgressOk
    <3>3. \A i \in 1 .. Len(d.list) : d.list[i] \in Fn
      BY <3>1, <1>3, <1>5, WiresAppend DEF ProgressOk, Plain
    <3>4. \A i \in 1 .. Len(d.stack) : d.stack[i] \in noted
      BY <3>1 DEF ProgressOk
    <3>5. Begun(cb, d.list, cb.memory, Len(cb.list), d) /\ Len(cb.list) \in Nat
      BY <1>3, <1>5, VarsAre
    <3> HIDE DEF cb
    <3>6. ProgressOk(d, noted)
      BY <3>1, <3>2, <3>3, <3>4, <3>5, ProgressFires
    <3> QED
      BY <3>6, <2>2, <1>7
  <2> QED
    BY <2>1, <2>2
<1>12. StateOk'
  <2>1. \A m \in Outcomes : lists'[m].disabled = lists[m].disabled /\ lists'[m].fired = lists[m].fired
                            /\ ~Early(lists[m]) /\ ~Early(lists'[m])
    <3> TAKE m \in Outcomes
    <3>1. CASE m = l
      BY <3>1, <1>2, <1>4, <1>5, <1>7, VarsAre, <1>3
    <3>2. CASE m # l
      BY <3>2, <1>2, <1>7, OtherIs
    <3> QED
      BY <3>1, <3>2
  <2>2. Closed(lists["progress"]) => Closed(lists'["progress"])
    <3>1. CASE l = "progress"
      BY <3>1, <1>5, <1>7 DEF Closed
    <3>2. CASE l # "progress"
      BY <3>2, <1>7, OtherIs
    <3> QED
      BY <3>1, <3>2
  <2> QED
    BY <1>1, <2>1, <2>2, StateSame
<1>13. CountOk'
  <2> SUFFICES ASSUME NEW m \in Outcomes, NEW e \in Fn, state # Settled(Other(m))
               PROVE added'[m][e] = called[m][e] + Cardinality(Places(lists'[m], Looping(m)', e))
    BY DEF CountOk
  <2>1. /\ added[m][e] = called[m][e] + Cardinality(Places(lists[m], Looping(m), e))
        /\ called[m][e] \in Nat /\ added[m][e] \in Nat /\ m \in Lists
    BY <1>1, OtherIs DEF CountOk, Types
  <2>2. CASE m # l
    <3>1. lists'[m] = lists[m] /\ Looping(m)' = Looping(m) /\ added'[m][e] = added[m][e]
      BY <2>1, <2>2, <1>7, <1>8
    <3> QED
      BY <2>1, <3>1
  <2>3. CASE m = l
    <3> PICK a : a = FALSE
      OBVIOUS
    <3> PICK b : b = TRUE
      OBVIOUS
    <3>1. lists[m] \in ListVars /\ From(lists[m], a) = 1 /\ Len(lists[m].list) = 0
      BY <2>3, <1>3, <1>6 DEF From
    <3>2. Places(lists[m], a, e) = {}
      BY <3>1, PlacesNone
    <3>3. From(d, b) = 1
      BY <2>3, <1>4, <1>5 DEF From
    <3>4. Cardinality(Places(d, b, f)) = 1 /\ \A g \in Fn : g # f => Places(d, b, g) = {}
      BY <2>3, <1>3, <1>4, <3>3, PlacesOne
    <3>5. lists'[m] = d /\ Looping(m) = a /\ Looping(m)' = b
      BY <2>3, <1>7
    <3>9. Cardinality(Places(lists[m], Looping(m), e)) = 0
      BY <3>2, <3>5, FS_EmptySet
    <3>6. added[m][e] = called[m][e]
      BY <2>1, <3>9
    <3>7. CASE e = f
      BY <3>4, <3>5, <3>6, <3>7, <2>1, <2>3, <1>8
    <3>8. CASE e # f
      <4>1. Cardinality(Places(lists'[m], Looping(m)', e)) = 0
        BY <3>4, <3>5, <3>8, FS_EmptySet
      <4> QED
        BY <4>1, <3>6, <3>8, <2>1, <2>3, <1>8
    <3> QED
      BY <3>7, <3>8
  <2> QED
    BY <2>2, <2>3
<1> QED
  BY <1>7, <1>9, <1>10, <1>11, <1>12, <1>13 DEF IInv

LEMMA RegisterStep ==
    ASSUME IInv, NEW l \in Lists, NEW f \in Fn, Register(l, f)
    PROVE  IInv'
<1>1. Types /\ OutcomesOk /\ ProgressOk(lists["progress"], noted) /\ StateOk /\ FramesOk
  BY DEF IInv
<1>2. /\ Add(l, f) /\ added' = [added EXCEPT ![l][f] = @ + 1]
      /\ state' = state /\ called' = called /\ noted' = noted
  BY DEF Register
<1>3. ProgramRuns /\ thrown' = thrown /\ ops' \in Nat
  BY <1>1, <1>2, AddIs
<1>4. CASE lists[l].disabled /\ lists' = lists /\ frames' = frames
  <2>1. /\ added' \in [Lists -> [Fn -> Nat]]
        /\ \A m \in Lists, e \in Fn : m # l \/ e # f => added'[m][e] = added[m][e]
    BY <1>1, <1>2, CountUp DEF Types
  <2>2. \A m \in Outcomes : state # Settled(Other(m)) => m # l
    <3> SUFFICES ASSUME l \in Outcomes, state # Settled(Other(l)) PROVE FALSE
      BY OtherIs
    <3>1. state = "pending" \/ state = Settled(l)
      BY <1>1, OtherIs DEF Types
    <3>2. lists[l].disabled => ~lists[l].fired
      BY <1>1 DEF OutcomesOk, OutcomeOk
    <3> QED
      BY <1>1, <1>4, <3>1, <3>2 DEF StateOk
  <2>3. \A m \in Outcomes, e \in Fn : state # Settled(Other(m)) => added'[m][e] = added[m][e]
    BY <2>1, <2>2, OtherIs
  <2> QED
    BY <1>1, <1>2, <1>3, <1>4, <2>1, <2>3, NothingToDo DEF Types
<1>5. CASE /\ ~lists[l].disabled /\ (lists[l].firing \/ lists[l].memory = NoData)
           /\ \E d \in ListVars : Grown(lists[l], f, d) /\ lists' = [lists EXCEPT ![l] = d]
           /\ frames' = frames
  BY <1>2, <1>3, <1>5, RegisterGrows
<1>6. CASE /\ ~lists[l].disabled /\ ~lists[l].firing /\ lists[l].memory # NoData
           /\ \E d \in ListVars :
                /\ Begun(lists[l], Append(lists[l].list, f), lists[l].memory, Len(lists[l].list), d)
                /\ d.stack = lists[l].stack
                /\ lists' = [lists EXCEPT ![l] = d]
           /\ frames' = Append(frames, Frame(l))
  BY <1>2, <1>3, <1>6, RegisterFires
<1> QED
  BY <1>1, <1>2, <1>4, <1>5, <1>6, AddIs
-----------------------------------------------------------------------------
\* resolve, reject and notify.
LEMMA FireWithIs ==
    ASSUME Types, OutcomesOk, ProgressOk(lists["progress"], noted),
           NEW l \in Lists, NEW v \in Data, FireWith(l, v)
    PROVE  /\ ProgramRuns /\ thrown' = thrown /\ ops' \in Nat
           /\ \/ lists' = lists /\ frames' = frames
              \/ /\ MayFire(lists[l]) /\ lists[l].firing
                 /\ \E d : /\ d = [lists[l] EXCEPT !.stack = Append(@, v)]
                           /\ lists' = [lists EXCEPT ![l] = d]
                 /\ frames' = frames
              \/ /\ MayFire(lists[l]) /\ ~lists[l].firing
                 /\ \E d \in ListVars :
                      /\ Begun(lists[l], lists[l].list, v, 0, d)
                      /\ d.stack = lists[l].stack
                      /\ lists' = [lists EXCEPT ![l] = d]
                 /\ frames' = Append(frames, Frame(l))
<1>1. lists[l] \in ListVars /\ lists[l].options.memory /\ lists[l].firingStart = 0
  BY ListIs
<1>2. ProgramRuns /\ thrown' = thrown /\ ops' = ops + 1 /\ ops \in Nat
  BY DEF FireWith, Op, Types
<1>3. ProgramRuns /\ thrown' = thrown /\ ops' \in Nat
  BY <1>2
<1>4. CASE ~MayFire(lists[l])
  BY <1>3, <1>4 DEF FireWith
<1>5. CASE MayFire(lists[l]) /\ lists[l].firing
  <2>1. lists' = [lists EXCEPT ![l] = [lists[l] EXCEPT !.stack = Append(@, v)]] /\ frames' = frames
    BY <1>5 DEF FireWith
  <2> QED
    BY <1>3, <1>5, <2>1
<1>6. CASE MayFire(lists[l]) /\ ~lists[l].firing
  <2> DEFINE d == Fire(lists[l], v)
  <2>1. Begun(lists[l], lists[l].list, v, 0, d) /\ d.stack = lists[l].stack
    BY <1>1, FireIs
  <2>2. d \in ListVars
    BY <2>1 DEF Begun
  <2>3. lists' = [lists EXCEPT ![l] = d] /\ frames' = Append(frames, Frame(l))
    BY <1>6 DEF FireWith
  <2> HIDE DEF d
  <2>4. \E e \in ListVars : /\ Begun(lists[l], lists[l].list, v, 0, e)
                            /\ e.stack = lists[l].stack
                            /\ lists' = [lists EXCEPT ![l] = e]
    BY <2>1, <2>2, <2>3
  <2> QED
    BY <1>3, <1>6, <2>3, <2>4
<1> QED
  BY <1>4, <1>5, <1>6

\* An outcome's list is fired: nothing was settled before.
LEMMA SettleFires ==
    ASSUME IInv, ProgramRuns, NEW l \in Outcomes, NEW v \in Data, NEW d,
           ~lists[l].disabled, ~lists[l].fired,
           Begun(lists[l], lists[l].list, v, 0, d), d.stack = lists[l].stack,
           lists' = [lists EXCEPT ![l] = d], frames' = Append(frames, Frame(l)),
           thrown' = thrown, ops' \in Nat,
           state' = state, added' = added, called' = called, noted' = noted
    PROVE  IInv'
<1>1. /\ Types /\ OutcomesOk /\ ProgressOk(lists["progress"], noted) /\ StateOk /\ FramesOk
      /\ LoopOk /\ CountOk
  BY DEF IInv
<1>2. \A m \in Outcomes : ~Early(lists[m])
  BY <1>1, ProgramNotEarly
<1>3. l \in Lists /\ lists[l] \in ListVars /\ OutcomeOk(lists[l]) /\ d \in ListVars
      /\ lists[l].firingStart = 0
  BY <1>1, ListIs, OtherIs DEF Begun
<1>4. /\ OutcomeOk(d) /\ Early(d) /\ ~lists[l].firing
      /\ d.firingIndex = 0 /\ Len(d.list) >= 3 /\ d.list = lists[l].list
  BY <1>3, OutcomeFires
<1>5. d.fired /\ d.firing /\ d.disabled = lists[l].disabled
  BY DEF Begun
<1>6. Len(lists[l].list) \in Nat /\ Len(lists[l].list) # 0
  BY <1>3, <1>4, VarsAre
<1>7. /\ lists' \in [Lists -> ListVars] /\ lists'[l] = d
      /\ \A m \in Lists : m # l => lists'[m] = lists[m]
      /\ frames' \in Seq(FrameVars) /\ FramesOk' /\ LoopOk'
      /\ Looping(l)' = TRUE
      /\ \A m \in Outcomes : Looping(m) = FALSE
      /\ \A m \in Outcomes : m # l => Looping(m)' = FALSE
  BY <1>3, <1>4, <1>6, ProgramFires
<1>8. Types'
  BY <1>1, <1>7 DEF Types
<1>9. OutcomesOk'
  BY <1>1, <1>4, <1>7, OtherIs DEF OutcomesOk
<1>10. ProgressOk(lists["progress"], noted)'
  BY <1>1, <1>7, OtherIs
<1>11. state = "pending"
  <2>1. state # Settled(l)
    BY <1>1 DEF StateOk
  <2>2. ASSUME state = Settled(Other(l)) PROVE FALSE
    BY <2>2, <1>1, <1>2, OtherIs DEF StateOk
  <2> QED
    BY <2>1, <2>2, <1>1, OtherIs DEF Types
<1>12. StateOk'
  <2>1. \A m \in Outcomes : ~lists'[m].disabled
    BY <1>1, <1>5, <1>7, <1>11, OtherIs DEF StateOk
  <2>2. \A m \in Outcomes : lists'[m].fired => Early(lists'[m]) /\ lists'[m].firingIndex = 0
    BY <1>1, <1>2, <1>4, <1>7, <1>11, OtherIs DEF StateOk
  <2> QED
    BY <2>1, <2>2, <1>11, OtherIs DEF StateOk
<1>13. CountOk'
  <2> SUFFICES ASSUME NEW m \in Outcomes, NEW e \in Fn, state # Settled(Other(m))
               PROVE added[m][e] = called[m][e] + Cardinality(Places(lists'[m], Looping(m)', e))
    BY DEF CountOk
  <2>1. added[m][e] = called[m][e] + Cardinality(Places(lists[m], Looping(m), e))
    BY <1>1 DEF CountOk
  <2>2. CASE m # l
    <3>1. lists'[m] = lists[m] /\ Looping(m)' = Looping(m)
      BY <2>2, <1>7, OtherIs
    <3> QED
      BY <2>1, <3>1
  <2>3. CASE m = l
    <3> PICK a : a = FALSE
      OBVIOUS
    <3> PICK b : b = TRUE
      OBVIOUS
    <3>1. lists'[m] = d /\ Looping(m) = a /\ Looping(m)' = b
      BY <2>3, <1>7
    <3>2. From(d, b) = 1 /\ From(lists[m], a) = 1 /\ d.list = lists[m].list
      BY <2>3, <1>4, <1>5 DEF From
    <3>4. d.list = lists[m].list /\ From(d, b) = From(lists[m], a)
      BY <3>2
    <3>3. Places(d, b, e) = Places(lists[m], a, e)
      BY <3>4 DEF Places
    <3> QED
      BY <2>1, <3>1, <3>3
  <2> QED
    BY <2>2, <2>3
<1> QED
  BY <1>7, <1>8, <1>9, <1>10, <1>12, <1>13 DEF IInv

LEMMA SettleStep ==
    ASSUME IInv, NEW l \in Outcomes, NEW v \in Data, Settle(l, v)
    PROVE  IInv'
<1>1. Types /\ OutcomesOk /\ ProgressOk(lists["progress"], noted)
  BY DEF IInv
<1>2. /\ FireWith(l, v) /\ l \in Lists
      /\ state' = state /\ added' = added /\ called' = called /\ noted' = noted
  BY OtherIs DEF Settle
<1>3. ProgramRuns /\ thrown' = thrown /\ ops' \in Nat
  BY <1>1, <1>2, FireWithIs
<1>4. OutcomeOk(lists[l])
  BY <1>1 DEF OutcomesOk
<1>5. MayFire(lists[l]) => ~lists[l].disabled /\ ~lists[l].fired /\ ~lists[l].firing
  BY <1>4 DEF MayFire, OutcomeOk
<1>6. CASE lists' = lists /\ frames' = frames
  BY <1>1, <1>2, <1>3, <1>6, NothingToDo DEF Types
<1>7. CASE /\ MayFire(lists[l]) /\ ~lists[l].firing
           /\ \E d \in ListVars :
                /\ Begun(lists[l], lists[l].list, v, 0, d)
                /\ d.stack = lists[l].stack
                /\ lists' = [lists EXCEPT ![l] = d]
           /\ frames' = Append(frames, Frame(l))
  BY <1>2, <1>3, <1>5, <1>7, SettleFires
<1> QED
  BY <1>1, <1>2, <1>5, <1>6, <1>7, FireWithIs

\* A value is notified while the Deferred is pending, or not at all.
LEMMA NotedIs ==
    ASSUME IInv, ProgramRuns, MayFire(lists["progress"])
    PROVE  state = "pending"
<1>1. Types /\ OutcomesOk /\ FramesOk /\ StateOk
  BY DEF IInv
<1>2. \A m \in Outcomes : ~Early(lists[m])
  BY <1>1, ProgramNotEarly
<1> QED
  BY <1>1, <1>2 DEF StateOk, MayFire, Closed

LEMMA NotifyStep ==
    ASSUME IInv, NEW v \in Data, Notify(v)
    PROVE  IInv'
<1> DEFINE p == "progress"
           cb == lists[p]
<1>1. /\ Types /\ OutcomesOk /\ ProgressOk(lists["progress"], noted) /\ StateOk /\ FramesOk
      /\ LoopOk /\ CountOk
  BY DEF IInv
<1>2. /\ FireWith(p, v) /\ p \in Lists
      /\ state' = state /\ added' = added /\ called' = called
      /\ noted' = IF state = "pending" THEN noted \cup {v} ELSE noted
  BY OtherIs DEF Notify
<1>3. ProgramRuns /\ thrown' = thrown /\ ops' \in Nat
  BY <1>1, <1>2, FireWithIs
<1>4. noted \subseteq noted' /\ noted' \in SUBSET Data /\ noted \in SUBSET Data
  BY <1>1, <1>2 DEF Types
<1>5. MayFire(cb) => v \in noted'
  BY <1>2, <1>3, NotedIs
<1>6. cb \in ListVars /\ ProgressOk(cb, noted')
  BY <1>1, <1>4, ListIs, ProgressMore, OtherIs
<1>7. \A m \in Outcomes : ~Early(lists[m])
  BY <1>1, <1>3, ProgramNotEarly
<1>8. CASE lists' = lists /\ frames' = frames
  BY <1>1, <1>2, <1>3, <1>4, <1>8, NothingToDo DEF Types
<1>9. ASSUME MayFire(cb), cb.firing, NEW d, d = [cb EXCEPT !.stack = Append(@, v)],
             lists' = [lists EXCEPT ![p] = d], frames' = frames
      PROVE  IInv'
  <2>1. ProgressOk(d, noted') /\ d \in ListVars
    BY <1>4, <1>5, <1>6, <1>9, ProgressQueues
  <2>2. /\ d.firing = cb.firing /\ d.disabled = cb.disabled /\ d.locked = cb.locked
        /\ d.fired = cb.fired
    BY <1>6, <1>9 DEF ListVars
  <2>3. /\ lists' \in [Lists -> ListVars] /\ lists'[p] = d
        /\ \A m \in Lists : m # p => lists'[m] = lists[m]
    BY <1>1, <1>2, <1>9, <2>1, OneList DEF Types
  <2>4. \A m \in Outcomes : lists'[m] = lists[m] /\ Looping(m)' = Looping(m)
    BY <2>3, <1>9, OtherIs DEF Looping, Top
  <2>5. Types'
    BY <1>1, <1>2, <1>3, <1>4, <1>9, <2>3 DEF Types
  <2>6. OutcomesOk' /\ LoopOk' /\ CountOk'
    BY <1>1, <1>2, <2>4 DEF OutcomesOk, LoopOk, CountOk
  <2>7. ProgressOk(lists["progress"], noted)'
    BY <2>1, <2>3
  <2>8. StateOk'
    <3>1. Closed(lists["progress"]) => Closed(lists'["progress"])
      BY <2>2, <2>3 DEF Closed
    <3> QED
      BY <1>1, <1>2, <1>7, <2>4, <3>1, StateSame
  <2>9. FramesOk'
    <3>1. \A m \in Lists : lists'[m].firing = lists[m].firing
      BY <2>2, <2>3
    <3>2. \A i \in DOMAIN frames : FrameOk(frames[i], lists'[frames[i].of])
      <4> TAKE i \in DOMAIN frames
      <4>1. frames[i].of \in Lists /\ FrameOk(frames[i], lists[frames[i].of])
        BY <1>1, FrameIs DEF FramesOk, Types
      <4>2. CASE frames[i].of # p
        BY <4>1, <4>2, <2>3
      <4>3. CASE frames[i].of = p
        <5>1. FrameOk(frames[i], cb) /\ cb.firing /\ frames[i].of \notin Outcomes
          BY <4>1, <4>3, OtherIs DEF FrameOk
        <5>2. d.firing
          BY <5>1, <2>2
        <5>3. FrameOk(frames[i], d)
          BY <5>1, <5>2, FrameOkIf
        <5> QED
          BY <4>3, <5>3, <2>3
      <4> QED
        BY <4>2, <4>3
    <3> QED
      BY <1>1, <1>3, <1>7, <1>9, <2>4, <3>1, <3>2, FramesKeep
  <2> QED
    BY <2>5, <2>6, <2>7, <2>8, <2>9 DEF IInv
<1>10. ASSUME MayFire(cb), ~cb.firing, NEW d, Begun(cb, cb.list, v, 0, d), d.stack = cb.stack,
              lists' = [lists EXCEPT ![p] = d], frames' = Append(frames, Frame(p))
       PROVE  IInv'
  <2>1. ProgressOk(d, noted')
    <3>1. \A i \in 1 .. Len(cb.list) : cb.list[i] \in Fn
      BY <1>6 DEF ProgressOk, Plain
    <3>2. \A i \in 1 .. Len(d.stack) : d.stack[i] \in noted'
      BY <1>6, <1>10 DEF ProgressOk
    <3> QED
      BY <1>4, <1>5, <1>6, <1>10, <3>1, <3>2, ProgressFires
  <2>2. /\ lists' \in [Lists -> ListVars] /\ lists'[p] = d
        /\ \A m \in Lists : m # p => lists'[m] = lists[m]
        /\ frames' \in Seq(FrameVars) /\ FramesOk' /\ LoopOk'
        /\ \A m \in Outcomes : Looping(m) = FALSE
        /\ \A m \in Outcomes : m # p => Looping(m)' = FALSE
    <3>1. p \in Lists /\ p \notin Outcomes
      BY OtherIs
    <3> HIDE DEF p
    <3> QED
      BY <3>1, <1>3, <1>10, ProgramFires
  <2>3. \A m \in Outcomes : lists'[m] = lists[m] /\ Looping(m)' = Looping(m)
    BY <2>2, OtherIs
  <2>4. Types'
    BY <1>1, <1>2, <1>3, <1>4, <2>2 DEF Types
  <2>5. OutcomesOk' /\ CountOk'
    BY <1>1, <1>2, <2>3 DEF OutcomesOk, CountOk
  <2>6. ProgressOk(lists["progress"], noted)'
    BY <2>1, <2>2
  <2>7. StateOk'
    <3>1. d.disabled = cb.disabled /\ d.locked = cb.locked /\ d.fired
      BY <1>10 DEF Begun
    <3>2. Closed(lists["progress"]) => Closed(lists'["progress"])
      BY <2>2, <3>1 DEF Closed
    <3> QED
      BY <1>1, <1>2, <1>7, <2>3, <3>2, StateSame
  <2> QED
    BY <2>2, <2>4, <2>5, <2>6, <2>7 DEF IInv
<1> QED
  BY <1>1, <1>2, <1>8, <1>9, <1>10, FireWithIs
-----------------------------------------------------------------------------
\* The innermost call of fire and those around it.
LEMMA InnermostIs ==
    ASSUME Types, OutcomesOk, ProgressOk(lists["progress"], noted), FramesOk, frames # <<>>,
           NEW l, l = Top.of
    PROVE  /\ l \in Lists /\ lists[l] \in ListVars /\ lists[l].firing /\ FrameOk(Top, lists[l])
           /\ l \in Outcomes => OutcomeOk(lists[l]) /\ ~lists[l].disabled /\ lists[l].fired
           /\ \A m \in Outcomes : m # l => ~Early(lists[m]) /\ Looping(m) = FALSE
           /\ \A i \in 1 .. Len(frames) - 1 :
                /\ frames[i].of \in Lists /\ frames[i].of # l
                /\ FrameOk(frames[i], lists[frames[i].of])
<1>1. /\ Len(frames) \in Nat \ {0} /\ Len(frames) - 1 \in 0 .. Len(frames)
      /\ Len(frames) \in DOMAIN frames /\ Top \in FrameVars /\ l \in Lists
      /\ DOMAIN frames = 1 .. Len(frames)
  BY TopIs DEF Types
<1>2. lists[l] \in ListVars /\ (l \in Outcomes => OutcomeOk(lists[l]))
  BY <1>1, ListIs
<1>3. FrameOk(Top, lists[l]) /\ lists[l].firing
  BY <1>1 DEF FramesOk, Top, FrameOk
<1>4. l \in Outcomes => ~lists[l].disabled /\ lists[l].fired
  BY <1>2, <1>3 DEF OutcomeOk
<1>5. \A m \in Outcomes : m # l => ~Early(lists[m]) /\ Looping(m) = FALSE
  BY DEF FramesOk, Looping
<1>6. \A i \in 1 .. Len(frames) - 1 :
        /\ frames[i].of \in Lists /\ frames[i].of # l
        /\ FrameOk(frames[i], lists[frames[i].of])
  <2> DEFINE k == Len(frames)
             n == k - 1
  <2>1. k \in Nat /\ n \in 0 .. k /\ n = k - 1
    BY <1>1
  <2> HIDE DEF n, k
  <2>2. \A i \in 1 .. n : i \in 1 .. k /\ i # k
    BY <2>1, Below
  <2> SUFFICES ASSUME NEW i \in 1 .. n
               PROVE  /\ frames[i].of \in Lists /\ frames[i].of # l
                      /\ FrameOk(frames[i], lists[frames[i].of])
    BY DEF n, k
  <2>3. i \in DOMAIN frames /\ i # Len(frames)
    BY <2>2, <1>1 DEF k
  <2> QED
    BY <2>3, <1>1, FrameIs DEF FramesOk, Types, Top
<1> QED
  BY <1>1, <1>2, <1>3, <1>4, <1>5, <1>6

\* The innermost call is replaced by c, which is of the same list.
LEMMA TopBecomes ==
    ASSUME Types, frames # <<>>, NEW at \in {"loop", "call"}, NEW fn \in Callable \cup {NoData},
           frames' = [frames EXCEPT ![Len(frames)] = [of |-> Top.of, at |-> at, fn |-> fn]]
    PROVE  LET c == [of |-> Top.of, at |-> at, fn |-> fn] IN
           /\ c \in FrameVars /\ Pushes(Len(frames) - 1, c) /\ frames'[Len(frames)] = c
           /\ \A m \in Lists : Looping(m)' <=> (Top.of = m /\ at = "loop")
<1> DEFINE c == [of |-> Top.of, at |-> at, fn |-> fn]
<1>1. Top.of \in Lists /\ Len(frames) \in DOMAIN frames
  BY TopIs DEF Types
<1>2. c \in FrameVars /\ c.of = Top.of /\ c.at = at
  BY <1>1 DEF FrameVars
<1>3. frames' = [frames EXCEPT ![Len(frames)] = c]
  OBVIOUS
<1> HIDE DEF c
<1>4. Pushes(Len(frames) - 1, c)
  BY <1>2, <1>3, TopPushes DEF Types
<1>5. frames'[Len(frames)] = c
  BY <1>1, <1>3
<1>6. \A m \in Lists : Looping(m)' <=> c.of = m /\ c.at = "loop"
  BY <1>4, LoopingPushed
<1> QED
  BY <1>2, <1>4, <1>5, <1>6 DEF c

\* The loop of fire calls the next function.
LEMMA CallIs ==
    ASSUME IInv, Call, NEW l, l = Top.of
    PROVE  LET cb == lists[l] fn == cb.list[cb.firingIndex + 1] IN
           /\ frames # <<>> /\ l \in Lists /\ Top.at = "loop"
           /\ cb.firingIndex >= 0 /\ cb.firingIndex < Len(cb.list) /\ fn \in Callable
           /\ l = "progress" => fn \in Fn
           /\ frames' = [frames EXCEPT ![Len(frames)] = [of |-> Top.of, at |-> "call", fn |-> fn]]
           /\ called' = IF fn \in Fn THEN [called EXCEPT ![l][fn] = @ + 1] ELSE called
           /\ lists' = lists /\ ops' = ops /\ thrown' = thrown
           /\ state' = state /\ added' = added /\ noted' = noted
<1> DEFINE cb == lists[l]
           fn == cb.list[cb.firingIndex + 1]
<1>1. /\ Types /\ OutcomesOk /\ ProgressOk(lists["progress"], noted) /\ FramesOk
  BY DEF IInv
<1>2. /\ frames # <<>> /\ Top.at = "loop" /\ More(cb)
      /\ lists' = lists /\ ops' = ops /\ thrown' = thrown
      /\ state' = state /\ added' = added /\ noted' = noted
  BY DEF Call, CallNext, InLoop
<1>3. l \in Lists /\ cb \in ListVars /\ cb.firing /\ (l \in Outcomes => OutcomeOk(cb))
  BY <1>1, <1>2, InnermostIs
<1>4. cb.firingLength = Len(cb.list) /\ cb.firingIndex >= 0
  <2>1. CASE l \in Outcomes
    BY <2>1, <1>3 DEF OutcomeOk
  <2>2. CASE l = "progress"
    BY <2>2, <1>1, <1>2, <1>3 DEF ProgressOk, More
  <2> QED
    BY <2>1, <2>2, <1>3, OtherIs
<1>5. cb.firingIndex \in Int /\ Len(cb.list) \in Nat /\ cb.list \in Seq(Callable)
  BY <1>3, VarsAre
<1>6. cb.firingIndex < Len(cb.list) /\ cb.firingIndex + 1 \in 1 .. Len(cb.list)
  BY <1>2, <1>4, <1>5 DEF More
<1>7. fn \in Callable
  BY <1>5, <1>6
<1>8. l = "progress" => fn \in Fn
  BY <1>1, <1>6 DEF ProgressOk, Plain
<1>9. frames' = [frames EXCEPT ![Len(frames)] = [of |-> Top.of, at |-> "call", fn |-> fn]]
  <2>1. Len(frames) \in DOMAIN frames /\ frames \in Seq(FrameVars) /\ Top \in FrameVars
    BY <1>1, <1>2, TopIs DEF Types
  <2>2. frames' = [frames EXCEPT ![Len(frames)].at = "call", ![Len(frames)].fn = fn]
    BY DEF Call, CallNext
  <2> HIDE DEF fn
  <2>3. frames' = [frames EXCEPT ![Len(frames)] = [frames[Len(frames)] EXCEPT !.at = "call", !.fn = fn]]
    BY <2>1, <2>2
  <2>5. \A r \in FrameVars :
          [r EXCEPT !.at = "call", !.fn = fn] = [of |-> r.of, at |-> "call", fn |-> fn]
    <3> TAKE r \in FrameVars
    <3> DEFINE q == [r EXCEPT !.at = "call"]
    <3>1. q = [of |-> r.of, at |-> "call", fn |-> r.fn]
      BY DEF FrameVars
    <3>2. [r EXCEPT !.at = "call", !.fn = fn] = [q EXCEPT !.fn = fn]
      OBVIOUS
    <3> HIDE DEF q
    <3>3. [q EXCEPT !.fn = fn] = [of |-> r.of, at |-> "call", fn |-> fn]
      BY <3>1
    <3> QED
      BY <3>2, <3>3
  <2>4. [frames[Len(frames)] EXCEPT !.at = "call", !.fn = fn] = [of |-> Top.of, at |-> "call", fn |-> fn]
    BY <2>1, <2>5 DEF Top
  <2> QED
    BY <2>3, <2>4
<1>10. frames'[Len(frames)].fn = fn
  <2>1. Len(frames) \in DOMAIN frames
    BY <1>1, <1>2, TopIs DEF Types
  <2> HIDE DEF fn
  <2> QED
    BY <2>1, <1>9
<1>11. called' = IF fn \in Fn THEN [called EXCEPT ![l][fn] = @ + 1] ELSE called
  BY <1>10 DEF Call
<1> QED
  BY <1>2, <1>3, <1>4, <1>6, <1>7, <1>8, <1>9, <1>11

LEMMA CallStep == ASSUME IInv, Call PROVE IInv'
<1> PICK l : l = Top.of
  OBVIOUS
<1> PICK cb : cb = lists[l]
  OBVIOUS
<1> PICK fn : fn = cb.list[cb.firingIndex + 1]
  OBVIOUS
<1>1. /\ Types /\ OutcomesOk /\ ProgressOk(lists["progress"], noted) /\ StateOk /\ FramesOk
      /\ LoopOk /\ CountOk
  BY DEF IInv
<1>2. /\ frames # <<>> /\ l \in Lists /\ Top.at = "loop"
      /\ cb.firingIndex >= 0 /\ cb.firingIndex < Len(cb.list) /\ fn \in Callable
      /\ l = "progress" => fn \in Fn
      /\ frames' = [frames EXCEPT ![Len(frames)] = [of |-> Top.of, at |-> "call", fn |-> fn]]
      /\ called' = IF fn \in Fn THEN [called EXCEPT ![l][fn] = @ + 1] ELSE called
      /\ lists' = lists /\ ops' = ops /\ thrown' = thrown
      /\ state' = state /\ added' = added /\ noted' = noted
  BY CallIs
<1>3. /\ cb \in ListVars /\ cb.firing /\ (l \in Outcomes => OutcomeOk(cb))
      /\ \A m \in Outcomes : m # l => ~Early(lists[m]) /\ Looping(m) = FALSE
      /\ \A i \in 1 .. Len(frames) - 1 : FrameOk(frames[i], lists[frames[i].of])
  BY <1>1, <1>2, InnermostIs
<1> DEFINE c == [of |-> Top.of, at |-> "call", fn |-> fn]
<1>4. /\ c \in FrameVars /\ Pushes(Len(frames) - 1, c)
      /\ \A m \in Lists : Looping(m)' <=> (Top.of = m /\ "call" = "loop")
  BY <1>1, <1>2, TopBecomes
<1>5. \A m \in Lists : Looping(m)' = FALSE
  BY <1>4 DEF Looping
<1>6. Looping(l) = TRUE
  BY <1>2 DEF Looping
<1>13. called \in [Lists -> [Fn -> Nat]]
  BY <1>1 DEF Types
<1>7. called' \in [Lists -> [Fn -> Nat]]
  <2>1. CASE fn \in Fn
    <3>1. called' = [called EXCEPT ![l][fn] = @ + 1]
      BY <1>2, <2>1
    <3> QED
      <4>1. called' = OneMore(called, l, fn) /\ called \in Counts
        BY <1>13, <3>1 DEF OneMore, Counts
      <4>2. l \in Lists
        BY <1>2
      <4>3. called' \in Counts
        BY <2>1, <4>1, <4>2, Counted
      <4> QED
        BY <4>3 DEF Counts
  <2>2. CASE fn \notin Fn
    BY <1>2, <1>13, <2>2
  <2> QED
    BY <2>1, <2>2
<1>8. Types'
  BY <1>1, <1>2, <1>4, <1>7 DEF Types, Pushes
<1>9. OutcomesOk' /\ ProgressOk(lists["progress"], noted)' /\ StateOk'
  BY <1>1, <1>2 DEF OutcomesOk, StateOk
<1>10. FramesOk'
  <2>1. c.of = l /\ c.at = "call" /\ c.fn = fn
    OBVIOUS
  <2>2. FrameOk(c, lists'[c.of])
    BY <1>2, <1>3, <2>1 DEF FrameOk
  <2> HIDE DEF c
  <2> QED
    BY <1>1, <1>2, <1>3, <1>4, <2>1, <2>2, FramesPush
<1>11. LoopOk'
  <2> SUFFICES ASSUME NEW m \in Outcomes, lists[m].firing
               PROVE lists[m].firingIndex < Len(lists[m].list) + (IF Looping(m)' THEN 1 ELSE 0)
    BY <1>2 DEF LoopOk
  <2>1. CASE m # l
    BY <2>1, <1>1, <1>3, <1>5, OtherIs DEF LoopOk
  <2>2. CASE m = l
    <3>1. Len(cb.list) \in Nat /\ cb.firingIndex \in Int
      BY <1>3, VarsAre
    <3>2. (IF Looping(m)' THEN 1 ELSE 0) = 0
      BY <2>2, <1>2, <1>5
    <3>3. PICK n \in Nat : n = Len(cb.list)
      BY <3>1
    <3>4. n + 0 = n /\ cb.firingIndex < n
      BY <1>2, <3>3
    <3> QED
      BY <2>2, <3>2, <3>3, <3>4
  <2> QED
    BY <2>1, <2>2
<1>12. CountOk'
  <2> SUFFICES ASSUME NEW m \in Outcomes, NEW e \in Fn, state # Settled(Other(m))
               PROVE added[m][e] = called'[m][e] + Cardinality(Places(lists[m], Looping(m)', e))
    BY <1>2 DEF CountOk
  <2>1. /\ added[m][e] = called[m][e] + Cardinality(Places(lists[m], Looping(m), e))
        /\ called[m][e] \in Nat /\ added[m][e] \in Nat /\ m \in Lists
    BY <1>1, OtherIs DEF CountOk, Types
  <2>2. CASE m # l
    <3>1. Looping(m)' = Looping(m)
      BY <2>1, <2>2, <1>3, <1>5
    <3>2. called'[m][e] = called[m][e]
      BY <2>1, <2>2, <1>1, <1>2, CountUp DEF Types
    <3> QED
      BY <2>1, <3>1, <3>2
  <2>3. CASE m = l
    <3>1. IF fn = e THEN Cardinality(Places(cb, TRUE, e)) = Cardinality(Places(cb, FALSE, e)) + 1
                    ELSE Places(cb, TRUE, e) = Places(cb, FALSE, e)
      BY <1>2, <1>3, PlacesCall
    <3> PICK a : a = TRUE
      OBVIOUS
    <3> PICK b : b = FALSE
      OBVIOUS
    <3> DEFINE x == Cardinality(Places(cb, a, e))
               y == Cardinality(Places(cb, b, e))
    <3>2. IF fn = e THEN x = y + 1 ELSE x = y
      BY <3>1
    <3>3. y \in Nat /\ x \in Nat
      BY <1>3, PlacesFinite
    <3>4. added[m][e] = called[m][e] + x
      BY <2>1, <2>3, <1>6
    <3>5. Looping(m)' = b /\ lists[m] = cb
      BY <2>1, <2>3, <1>5
    <3> SUFFICES added[m][e] = called'[m][e] + y
      BY <3>5
    <3> HIDE DEF x, y
    <3>6. CASE fn = e
      <4>1. called'[m][e] = called[m][e] + 1
        <5>1. called' = OneMore(called, l, fn) /\ called \in Counts
          BY <1>2, <1>13, <2>1, <3>6 DEF OneMore, Counts
        <5>2. l \in Lists /\ fn \in Fn
          BY <1>2, <2>1, <3>6
        <5>3. CountsUp(called, called', l, fn)
          BY <5>1, <5>2, Counted
        <5> QED
          BY <2>3, <3>6, <5>3 DEF CountsUp
      <4> QED
        BY <4>1, <3>2, <3>3, <3>4, <3>6, <2>1
    <3>7. CASE fn # e
      <4>1. called'[m][e] = called[m][e]
        <5>1. CASE fn \in Fn
          <6>1. called' = OneMore(called, l, fn) /\ called \in Counts
            BY <1>2, <1>13, <5>1 DEF OneMore, Counts
          <6>2. l \in Lists
            BY <1>2
          <6>3. CountsUp(called, called', l, fn)
            BY <5>1, <6>1, <6>2, Counted
          <6> QED
            BY <2>1, <3>7, <6>3 DEF CountsUp
        <5>2. CASE fn \notin Fn
          BY <1>2, <5>2
        <5> QED
          BY <5>1, <5>2
      <4> QED
        BY <4>1, <3>2, <3>4, <3>7
    <3> QED
      BY <3>6, <3>7
  <2> QED
    BY <2>2, <2>3
<1> QED
  BY <1>8, <1>9, <1>10, <1>11, <1>12 DEF IInv
-----------------------------------------------------------------------------
\* A function that was called returns: the loop goes on.  One of the Deferred has
\* changed another list, but none that fires for an outcome.
LEMMA GoesOn ==
    ASSUME IInv, frames # <<>>, Top.at = "call", NEW l, l = Top.of, NEW d, Moved(lists[l], d),
           lists' \in [Lists -> ListVars], lists'[l] = d,
           \A m \in Lists : lists'[m].firing = lists[m].firing,
           \A m \in Outcomes : m # l /\ lists'[m].firing => lists'[m] = lists[m],
           frames' = [frames EXCEPT ![Len(frames)].at = "loop"], thrown' = thrown,
           added' = added, called' = called,
           \A m \in Outcomes : state' # Settled(Other(m)) =>
              state # Settled(Other(m)) /\ (m = l \/ lists'[m] = lists[m])
    PROVE  frames' \in Seq(FrameVars) /\ FramesOk' /\ LoopOk' /\ CountOk'
<1> PICK cb : cb = lists[l]
  OBVIOUS
<1>1. /\ Types /\ OutcomesOk /\ ProgressOk(lists["progress"], noted) /\ FramesOk
      /\ LoopOk /\ CountOk
  BY DEF IInv
<1>2. /\ l \in Lists /\ cb \in ListVars /\ cb.firing /\ FrameOk(Top, cb)
      /\ \A m \in Outcomes : m # l => ~Early(lists[m]) /\ Looping(m) = FALSE
      /\ \A i \in 1 .. Len(frames) - 1 :
           frames[i].of \in Lists /\ frames[i].of # l /\ FrameOk(frames[i], lists[frames[i].of])
  BY <1>1, InnermostIs
<1>3. /\ Len(frames) \in DOMAIN frames /\ frames \in Seq(FrameVars) /\ Top \in FrameVars
      /\ Top.fn \in Callable \cup {NoData}
  BY <1>1, TopIs DEF Types
<1> PICK fn : fn = Top.fn
  OBVIOUS
<1>4. frames' = [frames EXCEPT ![Len(frames)] = [of |-> Top.of, at |-> "loop", fn |-> fn]]
  <2>1. \A r \in FrameVars : [r EXCEPT !.at = "loop"] = [of |-> r.of, at |-> "loop", fn |-> r.fn]
    BY DEF FrameVars
  <2>2. frames' = [frames EXCEPT ![Len(frames)] = [frames[Len(frames)] EXCEPT !.at = "loop"]]
    BY <1>3
  <2> QED
    BY <1>3, <2>1, <2>2 DEF Top
<1> DEFINE c == [of |-> Top.of, at |-> "loop", fn |-> fn]
<1>5. /\ c \in FrameVars /\ Pushes(Len(frames) - 1, c)
      /\ \A m \in Lists : Looping(m)' <=> (Top.of = m /\ "loop" = "loop")
  BY <1>1, <1>3, <1>4, TopBecomes
<1>6. Looping(l)' = TRUE /\ Looping(l) = FALSE
  BY <1>2, <1>5 DEF Looping
<1>7. \A m \in Outcomes : m # l => Looping(m)' = FALSE
  BY <1>5, OtherIs DEF Looping
<1>8. cb.firingIndex \in Int /\ Len(cb.list) \in Nat /\ d.firingIndex = cb.firingIndex + 1
      /\ d.list = cb.list /\ d.firing
  BY <1>2, VarsAre DEF Moved
<1>9. FramesOk'
  <2>1. c.of = l /\ c.at = "loop"
    OBVIOUS
  <2>2. FrameOk(c, lists'[c.of])
    BY <2>1, <1>8 DEF FrameOk
  <2>3. \A i \in 1 .. Len(frames) - 1 : FrameOk(frames[i], lists'[frames[i].of])
    <3> TAKE i \in 1 .. Len(frames) - 1
    <3> PICK m : m = frames[i].of
      OBVIOUS
    <3>1. m \in Lists /\ m # l /\ FrameOk(frames[i], lists[m])
      BY <1>2
    <3>2. lists[m].firing /\ lists'[m].firing
      BY <3>1 DEF FrameOk
    <3>3. CASE m \in Outcomes
      BY <3>1, <3>2, <3>3
    <3>4. CASE m \notin Outcomes
      <4>1. FrameOk(frames[i], lists'[m])
        BY <3>1, <3>2, <3>4, FrameOkIf
      <4> QED
        BY <4>1
    <3> QED
      BY <3>3, <3>4
  <2>4. \A m \in Outcomes : m # l => ~Early(lists'[m])
    <3> TAKE m \in Outcomes
    <3>1. CASE lists'[m].firing
      BY <3>1, <1>2
    <3>2. CASE ~lists'[m].firing
      BY <3>2 DEF Early
    <3> QED
      BY <3>1, <3>2
  <2> HIDE DEF c
  <2> QED
    BY <1>1, <1>5, <2>1, <2>2, <2>3, <2>4, FramesPush
<1>10. LoopOk'
  <2> SUFFICES ASSUME NEW m \in Outcomes, lists'[m].firing
               PROVE lists'[m].firingIndex < Len(lists'[m].list) + (IF Looping(m)' THEN 1 ELSE 0)
    BY DEF LoopOk
  <2>1. CASE m # l
    <3>1. lists'[m] = lists[m] /\ Looping(m)' = Looping(m)
      BY <2>1, <1>2, <1>7
    <3> QED
      BY <3>1, <1>1 DEF LoopOk
  <2>2. CASE m = l
    <3>1. (IF Looping(m) THEN 1 ELSE 0) = 0 /\ (IF Looping(m)' THEN 1 ELSE 0) = 1
      BY <2>2, <1>6
    <3>2. lists[m] = cb /\ lists'[m] = d
      BY <2>2
    <3>3. lists[m].firingIndex < Len(lists[m].list) + (IF Looping(m) THEN 1 ELSE 0)
      BY <1>1, <1>2, <3>2 DEF LoopOk
    <3>4. cb.firingIndex < Len(cb.list) + 0
      BY <3>1, <3>2, <3>3
    <3>5. d.firingIndex < Len(d.list) + 1
      BY <1>8, <3>4
    <3> QED
      BY <3>1, <3>2, <3>5
  <2> QED
    BY <2>1, <2>2
<1>11. CountOk'
  <2> SUFFICES ASSUME NEW m \in Outcomes, NEW e \in Fn, state' # Settled(Other(m))
               PROVE added[m][e] = called[m][e] + Cardinality(Places(lists'[m], Looping(m)', e))
    BY DEF CountOk
  <2>1. added[m][e] = called[m][e] + Cardinality(Places(lists[m], Looping(m), e))
    BY <1>1 DEF CountOk
  <2>2. CASE m # l
    BY <2>1, <2>2, <1>2, <1>7
  <2>3. CASE m = l
    <3> PICK a : a = FALSE
      OBVIOUS
    <3> PICK b : b = TRUE
      OBVIOUS
    <3>1. lists[m] = cb /\ lists'[m] = d /\ Looping(m) = a /\ Looping(m)' = b
      BY <2>3, <1>6
    <3>2. From(d, b) = From(cb, a) /\ d.list = cb.list
      BY <1>2, <1>8 DEF From
    <3>3. Places(d, b, e) = Places(cb, a, e)
      BY <3>2 DEF Places
    <3> QED
      BY <2>1, <3>1, <3>3
  <2> QED
    BY <2>2, <2>3
<1> QED
  BY <1>5, <1>9, <1>10, <1>11 DEF Pushes

\* A function of the program returns.
LEMMA ReturnStep ==
    ASSUME IInv, Return(FALSE), UNCHANGED <<state, added, called, noted>>
    PROVE  IInv'
<1> PICK l : l = Top.of
  OBVIOUS
<1> PICK cb : cb = lists[l]
  OBVIOUS
<1> PICK d : d = [cb EXCEPT !.firingIndex = @ + 1]
  OBVIOUS
<1>1. /\ Types /\ OutcomesOk /\ ProgressOk(lists["progress"], noted) /\ StateOk /\ FramesOk
  BY DEF IInv
<1>2. /\ frames # <<>> /\ Top.at = "call" /\ Top.fn \in Fn
      /\ lists' = [lists EXCEPT ![l].firingIndex = @ + 1]
      /\ frames' = [frames EXCEPT ![Len(frames)].at = "loop"]
      /\ ops' = ops /\ thrown' = thrown
  BY DEF Return, InLoop
<1>3. /\ l \in Lists /\ cb \in ListVars /\ cb.firing /\ (l \in Outcomes => OutcomeOk(cb))
  BY <1>1, <1>2, InnermostIs
<1>4. \A m \in Outcomes : ~Early(lists[m])
  BY <1>1, <1>2, ProgramNotEarly DEF ProgramRuns
<1>5. Moved(cb, d) /\ d \in ListVars /\ d.firing /\ d.disabled = cb.disabled /\ d.fired = cb.fired
      /\ d.locked = cb.locked
  BY <1>3, MovesTo DEF Moved
<1>6. /\ lists' \in [Lists -> ListVars] /\ lists'[l] = d
      /\ \A m \in Lists : m # l => lists'[m] = lists[m]
  <2>1. lists' = [lists EXCEPT ![l] = d]
    BY <1>2
  <2> QED
    BY <1>1, <1>3, <1>5, <2>1, OneList DEF Types
<1>7. l \in Outcomes => OutcomeOk(d) /\ (Early(d) => Early(cb))
  BY <1>3, <1>5, OutcomeMoves
<1>8. OutcomesOk'
  BY <1>1, <1>6, <1>7, OtherIs DEF OutcomesOk
<1>9. ProgressOk(lists["progress"], noted)'
  <2>1. CASE l = "progress"
    <3>1. ProgressOk(cb, noted) /\ noted \in SUBSET Data
      BY <1>1, <2>1 DEF Types
    <3>2. ProgressOk(d, noted)
      BY <1>3, <1>5, <3>1, ProgressMoves
    <3> QED
      BY <1>6, <2>1, <3>2
  <2>2. CASE l # "progress"
    BY <2>2, <1>1, <1>6, OtherIs
  <2> QED
    BY <2>1, <2>2
<1>10. StateOk'
  <2>1. \A m \in Outcomes : lists'[m].disabled = lists[m].disabled /\ lists'[m].fired = lists[m].fired
                            /\ ~Early(lists[m]) /\ ~Early(lists'[m])
    <3> TAKE m \in Outcomes
    <3>1. CASE m = l
      BY <3>1, <1>4, <1>5, <1>6, <1>7
    <3>2. CASE m # l
      BY <3>2, <1>4, <1>6, OtherIs
    <3> QED
      BY <3>1, <3>2
  <2>2. Closed(lists["progress"]) => Closed(lists'["progress"])
    BY <1>5, <1>6, OtherIs DEF Closed
  <2> QED
    BY <1>1, <2>1, <2>2, StateSame
<1>11. frames' \in Seq(FrameVars) /\ FramesOk' /\ LoopOk' /\ CountOk'
  <2>0. d.firing = cb.firing
    BY <1>5 DEF Moved
  <2>1. \A m \in Lists : lists'[m].firing = lists[m].firing
    BY <1>6, <2>0
  <2>2. \A m \in Outcomes : m # l => lists'[m] = lists[m]
    BY <1>6, OtherIs
  <2>3. Moved(lists[l], d) /\ added' = added /\ called' = called /\ state' = state
    BY <1>5
  <2>4. \A m \in Outcomes : state' # Settled(Other(m)) =>
           state # Settled(Other(m)) /\ (m = l \/ lists'[m] = lists[m])
    BY <2>2, <2>3
  <2> QED
    BY <1>2, <1>6, <2>1, <2>2, <2>3, <2>4, GoesOn
<1>12. Types'
  BY <1>1, <1>2, <1>6, <1>11 DEF Types
<1> QED
  BY <1>8, <1>9, <1>10, <1>11, <1>12 DEF IInv

\* A function of the program throws.
LEMMA ThrowStep ==
    ASSUME IInv, Throw, UNCHANGED <<state, added, called, noted>>
    PROVE  IInv'
<1>1. /\ Types /\ OutcomesOk /\ ProgressOk(lists["progress"], noted) /\ StateOk /\ FramesOk
      /\ LoopOk /\ CountOk
  BY DEF IInv
<1>2. ProgramRuns /\ frames' = <<>> /\ thrown' = TRUE /\ lists' = lists /\ ops' = ops
  BY DEF Throw, InLoop, ProgramRuns
<1>3. \A m \in Outcomes : ~Early(lists[m]) /\ ~Looping(m)
  BY <1>1, <1>2, ProgramNotEarly
<1>4. Types'
  BY <1>1, <1>2 DEF Types
<1>5. OutcomesOk' /\ ProgressOk(lists["progress"], noted)' /\ StateOk'
  BY <1>1, <1>2 DEF OutcomesOk, StateOk
<1>6. FramesOk'
  BY <1>2, <1>3 DEF FramesOk
<1>7. \A m \in Outcomes : Looping(m)' = Looping(m)
  BY <1>2, <1>3 DEF Looping
<1>8. LoopOk'
  BY <1>1, <1>2, <1>7 DEF LoopOk
<1>9. CountOk'
  BY <1>1, <1>2, <1>7 DEF CountOk
<1> QED
  BY <1>4, <1>5, <1>6, <1>8, <1>9 DEF IInv

\* Two lists change.
LEMMA TwoLists ==
    ASSUME lists \in [Lists -> ListVars], NEW l \in Lists, NEW k \in Lists, l # k,
           NEW d \in ListVars, NEW e \in ListVars,
           lists' = [[lists EXCEPT ![l] = d] EXCEPT ![k] = e]
    PROVE  /\ lists' \in [Lists -> ListVars] /\ lists'[l] = d /\ lists'[k] = e
           /\ \A m \in Lists : m # l /\ m # k => lists'[m] = lists[m]
OBVIOUS

\* The functions of the Deferred are called in their order, by the list that was
\* fired first: the state tells how far they are.
LEMMA WiredIs ==
    ASSUME IInv, Wired, NEW l, l = Top.of, NEW cb, cb = lists[l],
           NEW d, d = [cb EXCEPT !.firingIndex = @ + 1]
    PROVE  /\ frames # <<>> /\ Top.at = "call" /\ l \in Outcomes /\ Early(cb)
           /\ frames' = [frames EXCEPT ![Len(frames)].at = "loop"]
           /\ ops' = ops /\ thrown' = thrown /\ added' = added /\ called' = called /\ noted' = noted
           /\ ~lists[Other(l)].fired
           /\ \/ /\ cb.firingIndex = 0 /\ state = "pending" /\ state' = Settled(l)
                 /\ lists' = [lists EXCEPT ![l] = d]
              \/ /\ cb.firingIndex = 1 /\ state = Settled(l) /\ state' = state
                 /\ lists' = [[lists EXCEPT ![l] = d] EXCEPT ![Other(l)] = Disable(lists[Other(l)])]
              \/ /\ cb.firingIndex = 2 /\ state = Settled(l) /\ state' = state
                 /\ lists[Other(l)].disabled
                 /\ lists' = [[lists EXCEPT ![l] = d] EXCEPT !["progress"] = Lock(lists["progress"])]
<1>1. /\ Types /\ OutcomesOk /\ ProgressOk(lists["progress"], noted) /\ StateOk /\ FramesOk /\ LoopOk
  BY DEF IInv
<1>2. /\ frames # <<>> /\ Top.at = "call" /\ Top.fn \in {"state", "disable", "lock"}
      /\ frames' = [frames EXCEPT ![Len(frames)].at = "loop"]
      /\ ops' = ops /\ thrown' = thrown /\ added' = added /\ called' = called /\ noted' = noted
  BY DEF Wired, InLoop
<1>3. /\ l \in Lists /\ cb \in ListVars /\ cb.firing /\ FrameOk(Top, cb)
      /\ l \in Outcomes => OutcomeOk(cb) /\ cb.fired
      /\ \A m \in Outcomes : m # l => ~Early(lists[m])
  BY <1>1, <1>2, InnermostIs
<1>4. l \in Outcomes
  BY <1>2, <1>3, Named, OtherIs DEF FrameOk
<1>5. OutcomeOk(cb) /\ cb.fired /\ Top.fn = cb.list[cb.firingIndex + 1]
  BY <1>2, <1>3, <1>4 DEF FrameOk
<1>6. cb.firingIndex \in Int /\ cb.firingIndex >= 0 /\ Len(cb.list) \in Nat
  BY <1>3, <1>5, VarsAre DEF OutcomeOk
<1>7. cb.firingIndex < Len(cb.list)
  <2>1. (IF Looping(l) THEN 1 ELSE 0) = 0
    BY <1>2 DEF Looping
  <2>2. cb.firingIndex < Len(cb.list) + (IF Looping(l) THEN 1 ELSE 0)
    BY <1>1, <1>3, <1>4 DEF LoopOk
  <2>3. cb.firingIndex < Len(cb.list) + 0
    BY <2>1, <2>2
  <2> QED
    BY <2>3, <1>6
<1>8. Wires(cb) /\ cb.firingIndex < 3
  <2>1. cb.firingIndex + 1 \in 1 .. Len(cb.list)
    BY <1>6, <1>7
  <2>2. ~Plain(cb)
    BY <1>2, <1>5, <2>1, Named DEF Plain
  <2>3. Wires(cb)
    BY <1>3, <1>5, <2>2 DEF OutcomeOk
  <2>4. ASSUME ~(cb.firingIndex < 3) PROVE FALSE
    <3>1. cb.firingIndex + 1 \in 4 .. Len(cb.list)
      BY <2>4, <1>6, <1>7
    <3> QED
      BY <1>2, <1>5, <2>3, <3>1, Named DEF Wires
  <2> QED
    BY <2>3, <2>4
<1>9. Early(cb)
  BY <1>3, <1>8 DEF Early
<1>10. cb.list[1] = "state" /\ cb.list[2] = "disable" /\ cb.list[3] = "lock"
  BY <1>8 DEF Wires
<1>11. /\ Top.fn = "state" => cb.firingIndex = 0
       /\ Top.fn = "disable" => cb.firingIndex = 1
       /\ Top.fn = "lock" => cb.firingIndex = 2
  <2>1. cb.firingIndex = 0 \/ cb.firingIndex = 1 \/ cb.firingIndex = 2
    BY <1>6, <1>8
  <2>2. cb.firingIndex + 1 = 1 \/ cb.firingIndex + 1 = 2 \/ cb.firingIndex + 1 = 3
    BY <2>1
  <2> QED
    BY <2>1, <1>5, <1>10
<1>12. state # Settled(Other(l))
  BY <1>1, <1>4, <1>5, OtherIs DEF StateOk
<1>13. state = "pending" \/ state = Settled(l)
  BY <1>1, <1>4, <1>12, OtherIs DEF Types
<1>14. state = "pending" => cb.firingIndex = 0
  BY <1>1, <1>4, <1>5 DEF StateOk
<1>15. state = Settled(l) => /\ cb.firingIndex >= 1
                             /\ ~lists[Other(l)].fired
                             /\ ~lists[Other(l)].disabled => cb.firingIndex = 1
  BY <1>1, <1>4, <1>9 DEF StateOk
<1>16. state = "pending" => ~lists[Other(l)].fired
  BY <1>1, <1>3, <1>4, OtherIs DEF StateOk
<1>17. ~lists[Other(l)].fired
  BY <1>13, <1>15, <1>16
<1>18. CASE Top.fn = "state"
  <2>1. lists' = [lists EXCEPT ![l] = d] /\ state' = Settled(l)
    BY <1>18 DEF Wired
  <2>2. state = "pending" /\ cb.firingIndex = 0
    BY <1>11, <1>13, <1>15, <1>18
  <2> QED
    BY <1>2, <1>4, <1>9, <1>17, <2>1, <2>2
<1>19. CASE Top.fn = "disable"
  <2>1. lists' = [[lists EXCEPT ![l].firingIndex = @ + 1] EXCEPT ![Other(l)] = Disable(@)]
        /\ state' = state
    BY <1>19 DEF Wired
  <2>2. [lists EXCEPT ![l].firingIndex = @ + 1] = [lists EXCEPT ![l] = d]
    OBVIOUS
  <2>3. [lists EXCEPT ![l] = d][Other(l)] = lists[Other(l)]
    BY <1>1, <1>4, OtherIs DEF Types
  <2>4. lists' = [[lists EXCEPT ![l] = d] EXCEPT ![Other(l)] = Disable(lists[Other(l)])]
    BY <2>1, <2>2, <2>3
  <2>5. state = Settled(l) /\ cb.firingIndex = 1
    BY <1>11, <1>13, <1>14, <1>19
  <2> QED
    BY <1>2, <1>4, <1>9, <1>17, <2>1, <2>4, <2>5
<1>20. CASE Top.fn = "lock"
  <2>1. lists' = [[lists EXCEPT ![l].firingIndex = @ + 1] EXCEPT !["progress"] = Lock(@)]
        /\ state' = state
    BY <1>20 DEF Wired
  <2>2. [lists EXCEPT ![l].firingIndex = @ + 1] = [lists EXCEPT ![l] = d]
    OBVIOUS
  <2>3. [lists EXCEPT ![l] = d]["progress"] = lists["progress"]
    BY <1>1, <1>4, OtherIs DEF Types
  <2>4. lists' = [[lists EXCEPT ![l] = d] EXCEPT !["progress"] = Lock(lists["progress"])]
    BY <2>1, <2>2, <2>3
  <2>5. state = Settled(l) /\ cb.firingIndex = 2
    BY <1>11, <1>13, <1>14, <1>20
  <2>6. lists[Other(l)].disabled
    <3>1. lists[Other(l)] \in ListVars
      BY <1>1, <1>4, OtherIs DEF Types
    <3> QED
      BY <3>1, <1>15, <2>5
  <2> QED
    BY <1>2, <1>4, <1>9, <1>17, <2>1, <2>4, <2>5, <2>6
<1> QED
  BY <1>2, <1>18, <1>19, <1>20

LEMMA WiredStep == ASSUME IInv, Wired PROVE IInv'
<1> PICK l : l = Top.of
  OBVIOUS
<1> PICK k : k = Other(l)
  OBVIOUS
<1> PICK cb : cb = lists[l]
  OBVIOUS
<1> PICK d : d = [cb EXCEPT !.firingIndex = @ + 1]
  OBVIOUS
<1>1. /\ Types /\ OutcomesOk /\ ProgressOk(lists["progress"], noted) /\ StateOk /\ FramesOk
  BY DEF IInv
<1>2. /\ frames # <<>> /\ Top.at = "call" /\ l \in Outcomes /\ Early(cb)
      /\ frames' = [frames EXCEPT ![Len(frames)].at = "loop"]
      /\ ops' = ops /\ thrown' = thrown /\ added' = added /\ called' = called /\ noted' = noted
      /\ ~lists[k].fired
  BY WiredIs
<1>3. /\ k \in Outcomes /\ k # l /\ Other(k) = l /\ l \in Lists /\ k \in Lists
      /\ "progress" \in Lists /\ l # "progress" /\ k # "progress"
      /\ \A m \in Outcomes : m = l \/ m = k
      /\ Settled(k) # Settled(l) /\ Settled(l) # "pending"
      /\ Settled(l) \in {"resolved", "rejected"}
  BY <1>2, OtherIs
<1>4. /\ cb \in ListVars /\ cb.firing /\ OutcomeOk(cb) /\ cb.fired /\ ~cb.disabled
      /\ ~Early(lists[k])
  BY <1>1, <1>2, <1>3, InnermostIs
<1>5. Moved(cb, d)
  BY <1>4, MovesTo
<1>6. /\ d \in ListVars /\ d.firing = cb.firing /\ d.disabled = cb.disabled /\ d.fired = cb.fired
      /\ d.firingIndex = cb.firingIndex + 1
  BY <1>5 DEF Moved
<1>7. OutcomeOk(d) /\ (Wires(d) <=> Wires(cb))
  BY <1>4, <1>5, OutcomeMoves
<1>8. Early(d) <=> cb.firingIndex + 1 < 3
  BY <1>2, <1>6, <1>7 DEF Early
<1>9. OutcomeOk(lists[k]) /\ lists[k] \in ListVars /\ ~lists[k].firing
  BY <1>1, <1>2, <1>3, ListIs DEF OutcomeOk
<1>10. lists \in [Lists -> ListVars] /\ noted \in SUBSET Data
  BY <1>1 DEF Types
\* What each of the three has to show.
<1> DEFINE Goal ==
             /\ lists' \in [Lists -> ListVars] /\ lists'[l] = d
             /\ lists'["progress"].firing = lists["progress"].firing
             /\ OutcomeOk(lists'[k]) /\ ~lists'[k].firing /\ ~lists'[k].fired
             /\ state' = Settled(l) /\ state # Settled(k)
             /\ ~lists'[k].disabled => cb.firingIndex = 0
             /\ ProgressOk(lists'["progress"], noted)
             /\ cb.firingIndex = 2 => Closed(lists'["progress"])
             /\ cb.firingIndex \in {0, 1, 2}
<1>11. ASSUME cb.firingIndex = 0, state = "pending", state' = Settled(l),
              lists' = [lists EXCEPT ![l] = d]
       PROVE  Goal
  <2>1. lists' \in [Lists -> ListVars] /\ lists'[l] = d /\ \A m \in Lists : m # l => lists'[m] = lists[m]
    BY <1>3, <1>6, <1>10, <1>11, OneList
  <2>2. lists'[k] = lists[k] /\ lists'["progress"] = lists["progress"]
    BY <1>3, <2>1
  <2>3. state # Settled(k)
    BY <1>3, <1>11, OtherIs
  <2> QED
    BY <1>1, <1>2, <1>9, <1>11, <2>1, <2>2, <2>3
<1>12. ASSUME cb.firingIndex = 1, state = Settled(l), state' = state,
              lists' = [[lists EXCEPT ![l] = d] EXCEPT ![k] = Disable(lists[k])]
       PROVE  Goal
  <2>1. Disable(lists[k]) \in ListVars
    BY <1>9, DisableIs
  <2>2. /\ lists' \in [Lists -> ListVars] /\ lists'[l] = d /\ lists'[k] = Disable(lists[k])
        /\ \A m \in Lists : m # l /\ m # k => lists'[m] = lists[m]
    BY <1>3, <1>6, <1>10, <1>12, <2>1, TwoLists
  <2>3. lists'["progress"] = lists["progress"]
    BY <1>3, <2>2
  <2>4. OutcomeOk(lists'[k]) /\ ~lists'[k].firing /\ ~lists'[k].fired /\ lists'[k].disabled
    BY <1>2, <1>9, <2>2, OutcomeDisabled
  <2> QED
    BY <1>1, <1>3, <1>12, <2>2, <2>3, <2>4
<1>13. ASSUME cb.firingIndex = 2, state = Settled(l), state' = state, lists[k].disabled,
              lists' = [[lists EXCEPT ![l] = d] EXCEPT !["progress"] = Lock(lists["progress"])]
       PROVE  Goal
  <2> PICK e : e = Lock(lists["progress"])
    OBVIOUS
  <2>1. lists["progress"] \in ListVars
    BY <1>3, <1>10
  <2>2. e \in ListVars /\ e.firing = lists["progress"].firing
    BY <2>1, LockIs
  <2>3. ProgressOk(e, noted) /\ Closed(e)
    BY <1>1, <1>10, <2>1, ProgressLocks
  <2>4. /\ lists' \in [Lists -> ListVars] /\ lists'[l] = d /\ lists'["progress"] = e
        /\ \A m \in Lists : m # l /\ m # "progress" => lists'[m] = lists[m]
    BY <1>3, <1>6, <1>10, <1>13, <2>2, TwoLists
  <2>5. lists'[k] = lists[k]
    BY <1>3, <2>4
  <2> QED
    BY <1>2, <1>3, <1>9, <1>13, <2>2, <2>3, <2>4, <2>5
<1>14. Goal
  <2>1. \/ /\ cb.firingIndex = 0 /\ state = "pending" /\ state' = Settled(l)
           /\ lists' = [lists EXCEPT ![l] = d]
        \/ /\ cb.firingIndex = 1 /\ state = Settled(l) /\ state' = state
           /\ lists' = [[lists EXCEPT ![l] = d] EXCEPT ![k] = Disable(lists[k])]
        \/ /\ cb.firingIndex = 2 /\ state = Settled(l) /\ state' = state
           /\ lists[k].disabled
           /\ lists' = [[lists EXCEPT ![l] = d] EXCEPT !["progress"] = Lock(lists["progress"])]
    BY WiredIs
  <2> HIDE DEF Goal
  <2> QED
    BY <2>1, <1>11, <1>12, <1>13
<1>15. /\ OutcomesOk' /\ ProgressOk(lists["progress"], noted)'
  BY <1>2, <1>3, <1>7, <1>14 DEF OutcomesOk
<1>16. ~Early(lists'[k])
  BY <1>14 DEF Early
<1>17. StateOk'
  <2>1. state' # "pending" /\ state' # Settled(k)
    BY <1>3, <1>14
  <2>2. lists'[l] = d /\ d.fired /\ ~lists'[k].fired
    BY <1>4, <1>6, <1>14
  <2>3. Early(d) => d.firingIndex >= 1
    BY <1>6, <1>14
  <2>4. ~lists'[k].disabled => Early(d) /\ d.firingIndex = 1
    BY <1>6, <1>8, <1>14
  <2>5. ~Early(d) => Closed(lists'["progress"])
    BY <1>8, <1>14
  <2> QED
    BY <1>2, <1>3, <2>1, <2>2, <2>3, <2>4, <2>5 DEF StateOk
<1>18. frames' \in Seq(FrameVars) /\ FramesOk' /\ LoopOk' /\ CountOk'
  <2>1. \A m \in Lists : lists'[m].firing = lists[m].firing
    <3>1. lists'[k].firing = lists[k].firing
      <4>1. lists'[k].firing \in BOOLEAN /\ lists[k].firing \in BOOLEAN
        BY <1>3, <1>9, <1>14, VarsAre
      <4> QED
        BY <4>1, <1>9, <1>14
    <3>2. lists'[l].firing = lists[l].firing
      BY <1>6, <1>14
    <3>3. lists'["progress"].firing = lists["progress"].firing
      BY <1>14
    <3>4. \A m \in Lists : m = l \/ m = k \/ m = "progress"
      BY <1>3 DEF Lists, Outcomes
    <3> QED
      BY <3>1, <3>2, <3>3, <3>4
  <2>2. \A m \in Outcomes : m # l /\ lists'[m].firing => lists'[m] = lists[m]
    BY <1>3, <1>14
  <2>3. \A m \in Outcomes : state' # Settled(Other(m)) =>
           state # Settled(Other(m)) /\ (m = l \/ lists'[m] = lists[m])
    BY <1>2, <1>3, <1>14
  <2>4. Moved(lists[l], d) /\ lists' \in [Lists -> ListVars] /\ lists'[l] = d
    BY <1>5, <1>14
  <2> QED
    BY <1>2, <2>1, <2>2, <2>3, <2>4, GoesOn
<1>19. Types'
  BY <1>1, <1>2, <1>3, <1>14, <1>18 DEF Types
<1> QED
  BY <1>15, <1>17, <1>18, <1>19 DEF IInv

\* The loop ends at the end of the list: nothing is left to call.
LEMMA LoopEnds ==
    ASSUME IInv, Finish, NEW l, l = Top.of, NEW cb, cb = lists[l]
    PROVE  /\ frames # <<>> /\ l \in Lists /\ cb \in ListVars /\ cb.firing
           /\ Looping(l)
           /\ l \in Outcomes => OutcomeOk(cb) /\ ~cb.disabled /\ cb.fired
           /\ \A m \in Outcomes : ~Early(lists[m])
           /\ \A f \in Fn : l \in Outcomes => Places(cb, TRUE, f) = {}
           /\ \A i \in 1 .. Len(frames) - 1 :
                frames[i].of \in Lists /\ frames[i].of # l /\ FrameOk(frames[i], lists[frames[i].of])
<1>1. /\ Types /\ OutcomesOk /\ ProgressOk(lists["progress"], noted) /\ FramesOk
  BY DEF IInv
<1>2. frames # <<>>
  BY DEF Finish, InLoop
<1>3. Top.at \in {"loop", "call"}
  BY <1>1, <1>2, TopIs DEF Types
<1>4. Top.at = "loop" /\ ~More(cb)
  BY <1>3 DEF Finish, InLoop
<1>5. /\ l \in Lists /\ cb \in ListVars /\ cb.firing
      /\ l \in Outcomes => OutcomeOk(cb) /\ ~cb.disabled /\ cb.fired
      /\ \A m \in Outcomes : m # l => ~Early(lists[m])
      /\ \A i \in 1 .. Len(frames) - 1 :
           frames[i].of \in Lists /\ frames[i].of # l /\ FrameOk(frames[i], lists[frames[i].of])
  BY <1>1, <1>2, InnermostIs
<1>6. cb.firingIndex \in Int /\ Len(cb.list) \in Nat
  BY <1>5, VarsAre
<1>7. l \in Outcomes => cb.firingIndex >= Len(cb.list)
  BY <1>4, <1>5, <1>6 DEF More, OutcomeOk
<1>8. l \in Outcomes => ~Early(cb)
  BY <1>6, <1>7 DEF Early, Wires
<1>9. \A f \in Fn : l \in Outcomes => Places(cb, TRUE, f) = {}
  <2> SUFFICES ASSUME NEW f \in Fn, l \in Outcomes PROVE Places(cb, TRUE, f) = {}
    OBVIOUS
  <2> PICK b : b = TRUE
    OBVIOUS
  <2>1. From(cb, b) = cb.firingIndex + 1
    BY <1>5 DEF From
  <2>2. From(cb, b) \in Int /\ From(cb, b) > Len(cb.list)
    BY <2>1, <1>6, <1>7
  <2> QED
    BY <2>2, <1>5, PlacesNone
<1>10. Looping(l)
  BY <1>2, <1>4 DEF Looping
<1> QED
  BY <1>2, <1>5, <1>8, <1>9, <1>10

\* The innermost call of fire ends.
LEMMA FinishPops ==
    ASSUME IInv, Finish, NEW l, l = Top.of, NEW d, Ended(lists[l], d),
           l \in Outcomes => OutcomeOk(d) /\ ~Early(d) /\ d.list = <<>> /\ ~d.disabled,
           l = "progress" => ProgressOk(d, noted),
           lists' = [lists EXCEPT ![l] = d], frames' = Pop,
           UNCHANGED <<ops, thrown, state, added, called, noted>>
    PROVE  IInv'
<1> PICK cb : cb = lists[l]
  OBVIOUS
<1>1. /\ Types /\ OutcomesOk /\ ProgressOk(lists["progress"], noted) /\ StateOk /\ FramesOk
      /\ LoopOk /\ CountOk
  BY DEF IInv
<1>2. /\ frames # <<>> /\ l \in Lists /\ cb \in ListVars /\ cb.firing
      /\ Looping(l)
      /\ l \in Outcomes => OutcomeOk(cb) /\ ~cb.disabled /\ cb.fired
      /\ \A m \in Outcomes : ~Early(lists[m])
      /\ \A f \in Fn : l \in Outcomes => Places(cb, TRUE, f) = {}
      /\ \A i \in 1 .. Len(frames) - 1 :
           frames[i].of \in Lists /\ frames[i].of # l /\ FrameOk(frames[i], lists[frames[i].of])
  BY LoopEnds
<1>3. d \in ListVars /\ ~d.firing /\ d.fired = cb.fired
      /\ (cb.disabled => d.disabled) /\ (cb.locked => d.locked)
  BY DEF Ended
<1>4. /\ lists' \in [Lists -> ListVars] /\ lists'[l] = d
      /\ \A m \in Lists : m # l => lists'[m] = lists[m]
  BY <1>1, <1>2, <1>3, OneList DEF Types
<1>5. Keeps(Len(frames) - 1)
  BY <1>1, <1>2, PopKeeps DEF Types
<1>6. \A m \in Outcomes : ~Early(lists'[m])
  BY <1>2, <1>4, OtherIs
<1>7. FramesOk'
  <2>1. \A i \in 1 .. Len(frames) - 1 : FrameOk(frames[i], lists'[frames[i].of])
    BY <1>2, <1>4
  <2>2. ~lists'[Top.of].firing
    BY <1>3, <1>4
  <2>3. \A m \in Lists : m # Top.of => lists'[m].firing = lists[m].firing
    BY <1>4
  <2> QED
    BY <1>1, <1>2, <1>5, <1>6, <2>1, <2>2, <2>3, FramesPop
<1>8. \A m \in Lists : ~Looping(m)'
  BY <1>1, <1>2, <1>5, LoopingPopped
<1>9. \A m \in Outcomes : m # l => Looping(m)' = FALSE /\ Looping(m) = FALSE
  <2>1. \A m \in Outcomes : m # l => Looping(m) = FALSE
    BY DEF Looping
  <2>2. \A m \in Outcomes : Looping(m)' = FALSE
    BY <1>8, OtherIs DEF Looping
  <2> QED
    BY <2>1, <2>2
<1>10. Types'
  BY <1>1, <1>4, <1>5 DEF Types, Keeps
<1>11. OutcomesOk'
  BY <1>1, <1>4, OtherIs DEF OutcomesOk
<1>12. ProgressOk(lists["progress"], noted)'
  BY <1>1, <1>4, OtherIs
<1>13. StateOk'
  <2>1. \A m \in Outcomes :
          /\ lists'[m].disabled = lists[m].disabled /\ lists'[m].fired = lists[m].fired
          /\ ~Early(lists[m]) /\ ~Early(lists'[m])
    <3> TAKE m \in Outcomes
    <3>1. CASE m # l
      BY <3>1, <1>2, <1>4, <1>6, OtherIs
    <3>2. CASE m = l
      <4>1. d.disabled \in BOOLEAN /\ cb.disabled \in BOOLEAN /\ ~d.disabled /\ ~cb.disabled
        BY <3>2, <1>2, <1>3, VarsAre
      <4>2. d.disabled = cb.disabled
        BY <4>1
      <4> QED
        BY <3>2, <4>2, <1>2, <1>3, <1>4, <1>6
    <3> QED
      BY <3>1, <3>2
  <2>2. Closed(lists["progress"]) => Closed(lists'["progress"])
    <3>1. CASE l = "progress"
      BY <3>1, <1>3, <1>4 DEF Closed
    <3>2. CASE l # "progress"
      BY <3>2, <1>4, OtherIs
    <3> QED
      BY <3>1, <3>2
  <2> QED
    BY <1>1, <2>1, <2>2, StateSame
<1>14. LoopOk'
  <2> SUFFICES ASSUME NEW m \in Outcomes, lists'[m].firing
               PROVE lists'[m].firingIndex < Len(lists'[m].list) + (IF Looping(m)' THEN 1 ELSE 0)
    BY DEF LoopOk
  <2>1. m # l
    BY <1>3, <1>4
  <2>2. lists'[m] = lists[m] /\ Looping(m)' = Looping(m)
    BY <2>1, <1>4, <1>9, OtherIs
  <2> QED
    BY <2>2, <1>1 DEF LoopOk
<1>15. CountOk'
  <2> SUFFICES ASSUME NEW m \in Outcomes, NEW e \in Fn, state # Settled(Other(m))
               PROVE added[m][e] = called[m][e] + Cardinality(Places(lists'[m], Looping(m)', e))
    BY DEF CountOk
  <2>1. added[m][e] = called[m][e] + Cardinality(Places(lists[m], Looping(m), e))
    BY <1>1 DEF CountOk
  <2>2. CASE m # l
    <3>1. lists'[m] = lists[m] /\ Looping(m)' = Looping(m)
      BY <2>2, <1>4, <1>9, OtherIs
    <3> QED
      BY <2>1, <3>1
  <2>3. CASE m = l
    <3> PICK b : b = TRUE
      OBVIOUS
    <3> PICK a : a = FALSE
      OBVIOUS
    <3>1. Looping(m) = b
      BY <2>3, <1>2 DEF Looping
    <3>2. Looping(m)' = a
      BY <2>3, <1>2, <1>8 DEF Looping
    <3>3. Places(cb, b, e) = {}
      BY <2>3, <1>2
    <3>4. Places(d, a, e) = {}
      BY <2>3 DEF Places
    <3> QED
      BY <2>1, <2>3, <1>4, <3>1, <3>2, <3>3, <3>4
  <2> QED
    BY <2>2, <2>3
<1> QED
  BY <1>7, <1>10, <1>11, <1>12, <1>13, <1>14, <1>15 DEF IInv

\* The list of progress is fired for the next value that was queued.
LEMMA FinishAgain ==
    ASSUME IInv, Finish, Top.of = "progress", NEW cb, cb = lists["progress"], cb.stack # <<>>,
           NEW d, d = Fire([[cb EXCEPT !.firing = FALSE] EXCEPT !.stack = Tail(@)], Head(cb.stack)),
           lists' = [lists EXCEPT !["progress"] = d], frames' = Append(Pop, Frame("progress")),
           UNCHANGED <<ops, thrown, state, added, called, noted>>
    PROVE  IInv'
<1> PICK l : l = "progress"
  OBVIOUS
<1>1. /\ Types /\ OutcomesOk /\ ProgressOk(cb, noted) /\ StateOk /\ FramesOk
      /\ LoopOk /\ CountOk
  BY DEF IInv
<1>2. /\ frames # <<>> /\ l \in Lists /\ cb \in ListVars /\ cb.firing
      /\ \A m \in Outcomes : ~Early(lists[m])
      /\ \A i \in 1 .. Len(frames) - 1 :
           frames[i].of \in Lists /\ frames[i].of # l /\ FrameOk(frames[i], lists[frames[i].of])
  BY LoopEnds
<1>3. l \notin Outcomes /\ \A m \in Outcomes : m # l /\ m \in Lists
  BY OtherIs
<1>4. cb.options.memory /\ cb.firingStart = 0 /\ Plain(cb)
  BY <1>1 DEF ProgressOk, Memory, OnceMemory
<1>5. Begun(cb, cb.list, Head(cb.stack), cb.firingStart, d) /\ d.stack = Tail(cb.stack)
  BY <1>2, <1>4, FinishFires
<1>6. d \in ListVars /\ d.firing /\ d.fired /\ d.disabled = cb.disabled /\ d.locked = cb.locked
  BY <1>5 DEF Begun
<1>7. /\ lists' \in [Lists -> ListVars] /\ lists'[l] = d
      /\ \A m \in Lists : m # l => lists'[m] = lists[m]
  BY <1>1, <1>2, <1>6, OneList DEF Types
<1>8. ProgressOk(d, noted)
  <2>1. cb.stack \in Seq(Data) /\ noted \in SUBSET Data
    BY <1>1, <1>2, VarsAre DEF Types
  <2>2. \A i \in 1 .. Len(cb.stack) : cb.stack[i] \in noted
    BY <1>1 DEF ProgressOk
  <2>3. Len(cb.stack) \in Nat \ {0} /\ Head(cb.stack) = cb.stack[1]
    BY <2>1, EmptySeq
  <2>4. Head(cb.stack) \in noted
    BY <2>2, <2>3
  <2>5. /\ Len(Tail(cb.stack)) = Len(cb.stack) - 1
        /\ \A i \in 1 .. Len(Tail(cb.stack)) : Tail(cb.stack)[i] = cb.stack[i + 1]
    BY <2>1, HeadTailProperties
  <2>6. \A i \in 1 .. Len(Tail(cb.stack)) : Tail(cb.stack)[i] \in noted
    <3> TAKE i \in 1 .. Len(Tail(cb.stack))
    <3>1. i + 1 \in 1 .. Len(cb.stack)
      BY <2>3, <2>5
    <3> QED
      BY <2>2, <2>5, <3>1
  <2>7. \A i \in 1 .. Len(cb.list) : cb.list[i] \in Fn
    BY <1>4 DEF Plain
  <2>8. cb.firingStart \in Nat
    BY <1>4
  <2> QED
    BY <1>1, <1>2, <1>5, <2>1, <2>4, <2>6, <2>7, <2>8, ProgressFires
<1>9. Frame(l) \in FrameVars /\ Frame(l).of = l /\ Frame(l).at = "loop"
  BY <1>2 DEF Frame, FrameVars
<1> PICK c : c = Frame(l)
  OBVIOUS
<1>10. Pushes(Len(frames) - 1, c)
  BY <1>1, <1>2, <1>9, PopAppendPushes DEF Types
<1>11. \A m \in Outcomes : Looping(m)' = FALSE /\ Looping(m) = FALSE
  <2>1. \A m \in Outcomes : Looping(m) = FALSE
    BY <1>3 DEF Looping
  <2>2. \A m \in Outcomes : Looping(m)' = FALSE
    BY <1>3, <1>9, <1>10, LoopingPushed DEF Looping
  <2> QED
    BY <2>1, <2>2
<1>12. \A m \in Outcomes : lists'[m] = lists[m]
  BY <1>3, <1>7
<1>13. FramesOk'
  <2>1. \A i \in 1 .. Len(frames) - 1 : FrameOk(frames[i], lists'[frames[i].of])
    BY <1>2, <1>7
  <2>2. FrameOk(c, lists'[c.of])
    BY <1>6, <1>7, <1>9 DEF FrameOk
  <2>3. \A m \in Lists : m # c.of => lists'[m].firing = lists[m].firing
    BY <1>7, <1>9
  <2>4. \A m \in Outcomes : m # c.of => ~Early(lists'[m])
    BY <1>2, <1>12
  <2>5. c.of = Top.of /\ c \in FrameVars
    BY <1>9
  <2> QED
    BY <1>1, <1>2, <1>10, <2>1, <2>2, <2>3, <2>4, <2>5, FramesPush
<1>14. Types'
  BY <1>1, <1>7, <1>10 DEF Types, Pushes
<1>15. OutcomesOk' /\ LoopOk'
  BY <1>1, <1>11, <1>12 DEF OutcomesOk, LoopOk
<1>16. ProgressOk(lists["progress"], noted)'
  BY <1>7, <1>8
<1>17. StateOk'
  <2>1. Closed(lists["progress"]) => Closed(lists'["progress"])
    BY <1>6, <1>7 DEF Closed
  <2> QED
    BY <1>1, <1>2, <1>12, <2>1, StateSame
<1>18. CountOk'
  <2>1. \A m \in Outcomes : Looping(m)' = Looping(m)
    BY <1>11
  <2> QED
    BY <1>1, <1>12, <2>1 DEF CountOk
<1> QED
  BY <1>13, <1>14, <1>15, <1>16, <1>17, <1>18 DEF IInv

\* A call of fire ends its loop.
LEMMA FinishStep ==
    ASSUME IInv, Finish, UNCHANGED <<state, added, called, noted>>
    PROVE  IInv'
<1> PICK l : l = Top.of
  OBVIOUS
<1> PICK cb : cb = lists[l]
  OBVIOUS
<1>1. /\ ProgressOk(lists["progress"], noted) /\ noted \in SUBSET Data
  BY DEF IInv, Types
<1>2. /\ l \in Lists /\ cb \in ListVars /\ cb.firing
      /\ l \in Outcomes => OutcomeOk(cb) /\ ~cb.disabled
  BY LoopEnds
<1>3. l \in Outcomes \/ l = "progress"
  BY <1>2, OtherIs
<1>4. l \in Outcomes => cb.locked
  BY <1>2 DEF OutcomeOk
<1>5. l = "progress" => ProgressOk(cb, noted)
  BY <1>1
<1>6. UNCHANGED <<ops, thrown>>
  BY DEF Finish
<1>7. CASE /\ ~cb.disabled /\ ~cb.locked /\ cb.stack # <<>>
           /\ lists' = [lists EXCEPT ![l] = Fire([[cb EXCEPT !.firing = FALSE] EXCEPT !.stack = Tail(@)], Head(cb.stack))]
           /\ frames' = Append(Pop, Frame(l))
  <2>1. l = "progress"
    BY <1>3, <1>4, <1>7
  <2> QED
    BY <1>6, <1>7, <2>1, FinishAgain
<1>8. CASE /\ cb.disabled \/ (~cb.locked /\ cb.stack = <<>>)
           /\ lists' = [lists EXCEPT ![l] = [cb EXCEPT !.firing = FALSE]]
           /\ frames' = Pop
  <2> PICK d : d = [cb EXCEPT !.firing = FALSE]
    OBVIOUS
  <2>1. l = "progress"
    BY <1>2, <1>3, <1>4, <1>8
  <2>2. Ended(cb, d) /\ d.list = cb.list /\ d.memory = cb.memory /\ d.stack = cb.stack
    BY <1>2, FinishIs
  <2>3. ProgressOk(d, noted)
    BY <1>1, <1>2, <1>5, <2>1, <2>2, ProgressEnds
  <2> QED
    BY <1>6, <1>8, <2>1, <2>2, <2>3, FinishPops, OtherIs
<1>9. CASE /\ ~cb.disabled /\ cb.locked
           /\ lists' = [lists EXCEPT ![l] =
                          IF cb.memory # NoData THEN [[cb EXCEPT !.firing = FALSE] EXCEPT !.list = <<>>]
                                                ELSE Disable([cb EXCEPT !.firing = FALSE])]
           /\ frames' = Pop
  <2> PICK d : d = IF cb.memory # NoData THEN [[cb EXCEPT !.firing = FALSE] EXCEPT !.list = <<>>]
                                         ELSE Disable([cb EXCEPT !.firing = FALSE])
    OBVIOUS
  <2>1. lists' = [lists EXCEPT ![l] = d]
    BY <1>9
  <2>2. CASE l \in Outcomes
    <3>1. OutcomeOk(d) /\ ~Early(d) /\ Ended(cb, d) /\ d.list = <<>> /\ ~d.disabled
      BY <1>2, <2>2, OutcomeEnds
    <3>2. l # "progress"
      BY <2>2, OtherIs
    <3> QED
      BY <1>6, <1>9, <2>1, <3>1, <3>2, FinishPops
  <2>3. CASE l = "progress"
    <3>1. ProgressOk(d, noted) /\ Ended(cb, d)
      BY <1>1, <1>2, <1>5, <2>3, ProgressEmpties
    <3>2. l \notin Outcomes
      BY <2>3, OtherIs
    <3> QED
      BY <1>6, <1>9, <2>1, <3>1, <3>2, FinishPops
  <2> QED
    BY <1>3, <2>2, <2>3
<1> QED
  BY <1>7, <1>8, <1>9 DEF Finish
-----------------------------------------------------------------------------
\* A new list, with the functions s.
Made(o, s, stack, locked, no, zero) ==
    [options |-> o, list |-> s, disabled |-> no, stack |-> stack, locked |-> locked,
     memory |-> NoData, fired |-> no, firing |-> no, data |-> NoData,
     firingStart |-> zero, firingLength |-> zero, firingIndex |-> zero]

MadeOf(d, o, s, stack, locked, no, zero) ==
    /\ d \in ListVars /\ d.options = o /\ d.list = s /\ d.disabled = no /\ d.stack = stack
    /\ d.locked = locked /\ d.memory = NoData /\ d.fired = no /\ d.firing = no
    /\ d.firingStart = zero

LEMMA MadeIs ==
    ASSUME NEW o \in Options, NEW s \in Seq(Callable), NEW stack \in Seq(Data),
           NEW locked \in BOOLEAN, NEW no \in BOOLEAN, NEW zero \in Nat
    PROVE  MadeOf(Made(o, s, stack, locked, no, zero), o, s, stack, locked, no, zero)
BY DEF Made, MadeOf, ListVars

LEMMA MadeWith ==
    ASSUME NEW o, NEW s, NEW t, NEW stack, NEW locked, NEW no, NEW zero
    PROVE  [Made(o, t, stack, locked, no, zero) EXCEPT !.list = s]
             = Made(o, s, stack, locked, no, zero)
BY DEF Made

LEMMA MemoriesAre ==
    /\ OnceMemory \in Options /\ OnceMemory.once
    /\ Memory \in Options
<1>1. OnceMemory \in Options
  BY DEF OnceMemory, Options
<1>2. Memory \in Options
  BY <1>1 DEF Memory, Options
<1> QED
  BY <1>1, <1>2 DEF OnceMemory

LEMMA InitHolds == DeferredInit => IInv
<1> SUFFICES ASSUME DeferredInit PROVE IInv
  OBVIOUS
<1> PICK cb : cb = lists["progress"]
  OBVIOUS
<1>1. /\ OnceMemory \in Options /\ Memory \in Options /\ OnceMemory.once = TRUE
      /\ <<>> \in Seq(Callable) /\ Wiring \in Seq(Callable)
      /\ <<>> \in Seq(Data) /\ Memory.once \in BOOLEAN
  BY Named, MemoriesAre DEF Options
<1>2. PICK none \in Seq(Data) : none = <<>>
  BY <1>1
<1>3. PICK no \in BOOLEAN, once \in BOOLEAN : no = FALSE /\ once = OnceMemory.once
  BY <1>1
<1>4. PICK more \in BOOLEAN, zero \in Nat : more = Memory.once /\ zero = 0
  BY <1>1
<1>5. PICK e \in Seq(Callable) : e = <<>>
  BY <1>1
<1>6. \A l \in Outcomes : lists[l] = Made(OnceMemory, Wiring, none, once, no, zero)
  <2>1. New(OnceMemory) = Made(OnceMemory, e, none, once, no, zero)
    BY <1>2, <1>3, <1>4, <1>5 DEF New, Made
  <2>2. [New(OnceMemory) EXCEPT !.list = Wiring] = Made(OnceMemory, Wiring, none, once, no, zero)
    BY <2>1, MadeWith
  <2> QED
    BY <2>2, OtherIs DEF DeferredInit
<1>7. cb = Made(Memory, e, none, more, no, zero)
  <2>1. New(Memory) = Made(Memory, e, none, more, no, zero)
    BY <1>2, <1>3, <1>4, <1>5 DEF New, Made
  <2> QED
    BY <2>1, OtherIs DEF DeferredInit
<1>8. /\ cb \in ListVars /\ cb.options = Memory /\ cb.list = e /\ cb.disabled = no
      /\ cb.stack = none /\ cb.memory = NoData /\ cb.fired = no /\ cb.firing = no
      /\ cb.firingStart = zero
  <2>1. MadeOf(cb, Memory, e, none, more, no, zero)
    BY <1>1, <1>7, MadeIs
  <2> QED
    BY <2>1 DEF MadeOf
<1>9. \A l \in Outcomes :
        /\ lists[l] \in ListVars /\ lists[l].options = OnceMemory /\ lists[l].list = Wiring
        /\ lists[l].disabled = no /\ lists[l].stack = none /\ lists[l].locked = once
        /\ lists[l].memory = NoData /\ lists[l].fired = no /\ lists[l].firing = no
        /\ lists[l].firingStart = zero
  <2> TAKE l \in Outcomes
  <2>1. MadeOf(lists[l], OnceMemory, Wiring, none, once, no, zero)
    BY <1>1, <1>6, MadeIs
  <2> QED
    BY <2>1 DEF MadeOf
<1>10. \A l \in Outcomes :
        /\ lists[l] \in ListVars /\ lists[l].options = OnceMemory /\ lists[l].list = Wiring
        /\ ~lists[l].disabled /\ lists[l].stack = <<>> /\ lists[l].locked
        /\ lists[l].memory = NoData /\ ~lists[l].fired /\ ~lists[l].firing
        /\ lists[l].firingStart = 0
  BY <1>1, <1>2, <1>3, <1>4, <1>9
<1>11. /\ cb \in ListVars /\ cb.options = Memory /\ cb.list = <<>> /\ ~cb.disabled
      /\ cb.stack = <<>> /\ cb.memory = NoData /\ ~cb.fired /\ ~cb.firing /\ cb.firingStart = 0
  BY <1>2, <1>3, <1>4, <1>5, <1>8
<1>12. frames = <<>> /\ ops = 0 /\ thrown = FALSE /\ state = "pending"
      /\ added = NoCalls /\ called = NoCalls /\ noted = {}
  BY DEF DeferredInit
<1>13. lists \in [Lists -> ListVars]
  <2>1. \A l \in Lists : lists[l] \in ListVars
    BY <1>10, <1>11, OtherIs
  <2>2. lists = [l \in Lists |-> lists[l]]
    BY DEF DeferredInit
  <2> QED
    BY <2>1, <2>2
<1>14. NoCalls \in [Lists -> [Fn -> Nat]] /\ \A l \in Lists, f \in Fn : NoCalls[l][f] = 0
  BY DEF NoCalls
<1>15. frames \in Seq(FrameVars)
  BY <1>12
<1>16. Types
  BY <1>12, <1>13, <1>14, <1>15 DEF Types
<1>17. \A l \in Outcomes : Wires(lists[l]) /\ Len(lists[l].list) = 3
  <2>1. Len(Wiring) = 3 /\ Wiring[1] = "state" /\ Wiring[2] = "disable" /\ Wiring[3] = "lock"
    BY DEF Wiring
  <2>2. \A i \in 4 .. Len(Wiring) : FALSE
    BY <2>1
  <2> QED
    <3> TAKE l \in Outcomes
    <3>1. Len(Wiring) >= 3
      BY <2>1
    <3>2. Wires([list |-> Wiring])
      BY <2>1, <2>2, <3>1 DEF Wires
    <3>3. \A d, w : d.list = w.list => (Wires(d) <=> Wires(w))
      BY Zenon DEF Wires
    <3>4. [list |-> Wiring].list = Wiring
      OBVIOUS
    <3> QED
      BY <1>10, <2>1, <3>2, <3>3, <3>4
<1>18. OutcomesOk
  BY <1>10, <1>17 DEF OutcomesOk, OutcomeOk
<1>19. ProgressOk(lists["progress"], noted)
  BY <1>11 DEF ProgressOk, Plain
<1>20. StateOk
  BY <1>10, <1>12, OtherIs DEF StateOk
<1>21. FramesOk
  BY <1>10, <1>11, <1>12, OtherIs DEF FramesOk, Early
<1>22. LoopOk
  BY <1>10 DEF LoopOk
<1>23. CountOk
  <2> SUFFICES ASSUME NEW l \in Outcomes, NEW f \in Fn
               PROVE added[l][f] = called[l][f] + Cardinality(Places(lists[l], Looping(l), f))
    BY DEF CountOk
  <2>1. \A i \in 1 .. 3 : Wiring[i] # f
    BY Named DEF Wiring
  <2>2. Places(lists[l], Looping(l), f) = {}
    BY <2>1, <1>10, <1>17 DEF Places
  <2> QED
    BY <2>2, <1>12, <1>14, OtherIs, FS_EmptySet
<1> QED
  BY <1>16, <1>18, <1>19, <1>20, <1>21, <1>22, <1>23 DEF IInv

LEMMA StepHolds == IInv /\ [DeferredNext]_deferredVars => IInv'
<1> SUFFICES ASSUME IInv, [DeferredNext]_deferredVars PROVE IInv'
  OBVIOUS
<1>1. CASE \E l \in Lists, f \in Fn : Register(l, f)
  BY <1>1, RegisterStep
<1>2. CASE \E l \in Outcomes, d \in Data : Settle(l, d)
  BY <1>2, SettleStep
<1>3. CASE \E d \in Data : Notify(d)
  BY <1>3, NotifyStep
<1>4. CASE Call
  BY <1>4, CallStep
<1>5. CASE Wired
  BY <1>5, WiredStep
<1>6. CASE Return(FALSE) /\ UNCHANGED <<state, added, called, noted>>
  BY <1>6, ReturnStep
<1>7. CASE Finish /\ UNCHANGED <<state, added, called, noted>>
  BY <1>7, FinishStep
<1>8. CASE Throw /\ UNCHANGED <<state, added, called, noted>>
  BY <1>8, ThrowStep
<1>9. CASE UNCHANGED deferredVars
  <2>1. /\ lists' = lists /\ frames' = frames /\ thrown' = thrown /\ ops' = ops
        /\ state' = state /\ called' = called /\ noted' = noted /\ added' = added
    BY <1>9 DEF deferredVars, vars
  <2>2. ops \in Nat /\ noted \subseteq Data /\ added \in [Lists -> [Fn -> Nat]]
    BY DEF IInv, Types
  <2> QED
    BY <2>1, <2>2, NothingToDo
<1> QED
  BY <1>1, <1>2, <1>3, <1>4, <1>5, <1>6, <1>7, <1>8, <1>9 DEF DeferredNext

LEMMA IInvHolds == DeferredSpec => []IInv
<1> QED
  BY InitHolds, StepHolds, PTL DEF DeferredSpec

\* jQuery.Deferred, done, fail, resolveWith, rejectWith, notifyWith: whatever the
\* handlers register, settle, notify and throw while a list fires, when nothing
\* runs every handler of the outcome was called as often as it was registered, a
\* list has fired only if it is the outcome, and a progress handler sees only
\* values that were notified before the Deferred was settled.
THEOREM DeferredHandlersInv == DeferredSpec => []HandlersInv
<1>1. IInv => HandlersInv
  <2> SUFFICES ASSUME IInv PROVE HandlersInv
    OBVIOUS
  <2>1. /\ Types /\ OutcomesOk /\ ProgressOk(lists["progress"], noted) /\ StateOk /\ FramesOk
        /\ CountOk
    BY DEF IInv
  <2>2. HandlersServed
    <3> SUFFICES ASSUME frames = <<>>, ~thrown, NEW l \in Outcomes
                 PROVE  /\ state = Settled(l) => called[l] = added[l]
                        /\ lists[l].fired => state = Settled(l)
      BY DEF HandlersServed, Idle
    <3>1. \A m \in Lists : ~lists[m].firing
      BY <2>1 DEF FramesOk
    <3>2. l \in Lists /\ OutcomeOk(lists[l]) /\ ~lists[l].firing /\ ~Early(lists[l])
      BY <2>1, <3>1, OtherIs DEF OutcomesOk, Early
    <3>3. ASSUME state = Settled(l) PROVE called[l] = added[l]
      <4>1. lists[l].list = <<>>
        BY <2>1, <3>2, <3>3 DEF StateOk, OutcomeOk
      <4>2. \A f \in Fn : added[l][f] = called[l][f]
        <5> TAKE f \in Fn
        <5>1. added[l][f] = called[l][f] + Cardinality(Places(lists[l], Looping(l), f))
          BY <2>1, <3>3, OtherIs DEF CountOk
        <5>2. Places(lists[l], Looping(l), f) = {}
          BY <4>1 DEF Places
        <5>3. called[l][f] \in Nat
          BY <2>1, <3>2 DEF Types
        <5> QED
          BY <5>1, <5>2, <5>3, FS_EmptySet
      <4>3. added[l] \in [Fn -> Nat] /\ called[l] \in [Fn -> Nat]
        BY <2>1, <3>2 DEF Types
      <4> QED
        BY <4>2, <4>3
    <3>4. ASSUME lists[l].fired PROVE state = Settled(l)
      <4>1. state # "pending"
        BY <2>1, <3>2, <3>4 DEF StateOk
      <4>2. state # Settled(Other(l))
        BY <2>1, <3>4, OtherIs DEF StateOk
      <4> QED
        BY <2>1, <4>1, <4>2, OtherIs DEF Types
    <3> QED
      BY <3>3, <3>4
  <2>3. NoLateProgress
    <3> SUFFICES ASSUME frames # <<>>, Top.of = "progress" PROVE lists["progress"].data \in noted
      BY DEF NoLateProgress
    <3>1. lists["progress"].firing
      BY <2>1, InnermostIs
    <3> QED
      BY <2>1, <3>1 DEF ProgressOk
  <2> QED
    BY <2>2, <2>3 DEF HandlersInv
<1> QED
  BY <1>1, IInvHolds, PTL
-----------------------------------------------------------------------------
\* What a Deferred owes its handlers: nothing to those of the other outcome.
Owed(l, f) == IF state = Settled(Other(l)) THEN 0 ELSE added[l][f] - called[l][f]

LEMMA CountsAre ==
    ASSUME NEW g \in [Lists -> [Fn -> Nat]], NEW l \in Lists, NEW f \in Fn PROVE g[l][f] \in Nat
OBVIOUS

LEMMA OneIsOwed ==
    ASSUME NEW a \in Nat, NEW c \in Nat, NEW x \in Nat, a = c + (x + 1) PROVE a - c > 0
OBVIOUS

LEMMA OwedSame ==
    ASSUME NEW l, NEW f, state' = state, added' = added, called'[l][f] = called[l][f]
    PROVE  Owed(l, f)' = Owed(l, f)
BY DEF Owed

LEMMA OwedLess ==
    ASSUME NEW l \in Lists, NEW f \in Fn, state' = state, added' = added, state # Settled(Other(l)),
           added \in Counts, called \in Counts, CountsUp(called, called', l, f)
    PROVE  Owed(l, f)' = Owed(l, f) - 1
<1>1. added[l][f] \in Nat /\ called[l][f] \in Nat
  BY CountsAre DEF Counts
<1>2. called'[l][f] = called[l][f] + 1
  BY DEF CountsUp
<1> QED
  BY <1>1, <1>2 DEF Owed

Waiting == [l \in Outcomes |->
              IF state = Settled(Other(l)) THEN [f \in Fn |-> 0]
              ELSE [f \in Fn |-> added[l][f] - called[l][f]]]

LEMMA WaitingIs ==
    /\ Waiting = [l \in Outcomes |-> [f \in Fn |-> Owed(l, f)]]
    /\ Waiting' = [l \in Outcomes |-> [f \in Fn |-> Owed(l, f)']]
<1>1. \A l \in Outcomes :
        [f \in Fn |-> Owed(l, f)] = IF state = Settled(Other(l)) THEN [f \in Fn |-> 0]
                                    ELSE [f \in Fn |-> added[l][f] - called[l][f]]
  BY DEF Owed
<1>2. \A l \in Outcomes :
        [f \in Fn |-> Owed(l, f)'] = IF state' = Settled(Other(l)) THEN [f \in Fn |-> 0]
                                     ELSE [f \in Fn |-> added'[l][f] - called'[l][f]]
  BY DEF Owed
<1> QED
  BY <1>1, <1>2 DEF Waiting

LEMMA KindsAre ==
    /\ Promised!Kinds = Outcomes
    /\ \A l \in Outcomes : Promised!KindOf(Settled(l)) = l
BY DEF Promised!Kinds, Promised!KindOf, Outcomes, Settled

\* Nothing is owed that was not, and all that was.
Same == state' = state /\ \A l \in Outcomes, f \in Fn : Owed(l, f)' = Owed(l, f)

LEMMA SameStutters == Same => UNCHANGED Promised!vars
<1> SUFFICES ASSUME Same PROVE state' = state /\ Waiting' = Waiting
  BY DEF Promised!vars, Waiting
<1>1. state' = state /\ \A l \in Outcomes, f \in Fn : Owed(l, f)' = Owed(l, f)
  BY DEF Same
<1>2. Waiting' = [l \in Outcomes |-> [f \in Fn |-> Owed(l, f)']]
  BY WaitingIs
<1>3. [l \in Outcomes |-> [f \in Fn |-> Owed(l, f)']] = [l \in Outcomes |-> [f \in Fn |-> Owed(l, f)]]
  BY <1>1
<1> QED
  BY <1>1, <1>2, <1>3, WaitingIs

LEMMA RegisterKeepsPromise ==
    ASSUME IInv, NEW l \in Lists, NEW f \in Fn, Register(l, f)
    PROVE  Same \/ \E k \in Promised!Kinds : Promised!Register(k, f)
<1>1. added \in [Lists -> [Fn -> Nat]] /\ called \in [Lists -> [Fn -> Nat]]
      /\ state \in {"pending", "resolved", "rejected"}
  BY DEF IInv, Types
<1>2. state' = state /\ called' = called /\ added' = [added EXCEPT ![l][f] = @ + 1]
  BY DEF Register
<1>3. /\ added'[l][f] = added[l][f] + 1
      /\ \A m \in Lists, e \in Fn : m # l \/ e # f => added'[m][e] = added[m][e]
  BY <1>1, <1>2, CountUp
<1>4. CASE l \notin Outcomes \/ state = Settled(Other(l))
  <2>1. \A m \in Outcomes, e \in Fn : Owed(m, e)' = Owed(m, e)
    BY <1>2, <1>3, <1>4, OtherIs DEF Owed
  <2> QED
    BY <1>2, <2>1 DEF Same
<1>5. CASE l \in Outcomes /\ state # Settled(Other(l))
  <2>1. state = "pending" \/ l = Promised!KindOf(state)
    BY <1>1, <1>5, OtherIs, KindsAre
  <2>2. \A m \in Outcomes, e \in Fn :
           Owed(m, e)' = IF m = l /\ e = f THEN Owed(m, e) + 1 ELSE Owed(m, e)
    BY <1>1, <1>2, <1>3, <1>5, OtherIs DEF Owed
  <2>3. Waiting' = [Waiting EXCEPT ![l][f] = @ + 1]
    <3>1. Waiting' = [m \in Outcomes |-> [e \in Fn |-> Owed(m, e)']]
      BY WaitingIs
    <3>2. Waiting = [m \in Outcomes |-> [e \in Fn |-> Owed(m, e)]]
      BY WaitingIs
    <3>3. [Waiting EXCEPT ![l][f] = @ + 1]
            = [m \in Outcomes |-> [e \in Fn |-> IF m = l /\ e = f THEN Owed(m, e) + 1 ELSE Owed(m, e)]]
      BY <1>5, <3>2
    <3>4. [m \in Outcomes |-> [e \in Fn |-> Owed(m, e)']]
            = [m \in Outcomes |-> [e \in Fn |-> IF m = l /\ e = f THEN Owed(m, e) + 1 ELSE Owed(m, e)]]
      BY <2>2
    <3> QED
      BY <3>1, <3>3, <3>4
  <2>4. Promised!Register(l, f)
    BY <1>2, <2>1, <2>3 DEF Promised!Register, Waiting
  <2> QED
    BY <1>5, <2>4, KindsAre
<1> QED
  BY <1>4, <1>5

LEMMA CallKeepsPromise ==
    ASSUME IInv, Call
    PROVE  Same \/ \E k \in Promised!Kinds, f \in Fn : Promised!Deliver(k, f)
<1> PICK l : l = Top.of
  OBVIOUS
<1> PICK cb : cb = lists[l]
  OBVIOUS
<1> PICK fn : fn = cb.list[cb.firingIndex + 1]
  OBVIOUS
<1>1. /\ Types /\ OutcomesOk /\ ProgressOk(lists["progress"], noted) /\ StateOk /\ FramesOk
      /\ CountOk
  BY DEF IInv
<1>2. /\ frames # <<>> /\ l \in Lists /\ Top.at = "loop"
      /\ cb.firingIndex >= 0 /\ cb.firingIndex < Len(cb.list) /\ fn \in Callable
      /\ called' = IF fn \in Fn THEN [called EXCEPT ![l][fn] = @ + 1] ELSE called
      /\ state' = state /\ added' = added
  BY CallIs
<1>3. added \in [Lists -> [Fn -> Nat]] /\ called \in [Lists -> [Fn -> Nat]]
      /\ state \in {"pending", "resolved", "rejected"}
  BY <1>1 DEF Types
<1>4. l \in Lists /\ state' = state /\ added' = added
  BY <1>2
<1>5. CASE fn \notin Fn
  <2>1. called' = called
    BY <1>2, <1>5
  <2> QED
    BY <1>2, <2>1 DEF Same, Owed
<1>6. CASE fn \in Fn
  <2>1. called' = [called EXCEPT ![l][fn] = @ + 1]
    BY <1>2, <1>6
  <2>2. CountsUp(called, called', l, fn) /\ added \in Counts /\ called \in Counts
    <3>1. called' = OneMore(called, l, fn) /\ added \in Counts /\ called \in Counts
      BY <1>3, <2>1 DEF OneMore, Counts
    <3> QED
      BY <1>4, <1>6, <3>1, Counted
  <2>3. CASE l \notin Outcomes
    <3>1. ASSUME NEW m \in Outcomes, NEW e \in Fn PROVE Owed(m, e)' = Owed(m, e)
      <4>1. m \in Lists /\ m # l
        BY <2>3, OtherIs
      <4>2. called'[m][e] = called[m][e]
        BY <2>2, <4>1 DEF CountsUp
      <4> QED
        BY <1>4, <4>2, OwedSame
    <3> QED
      BY <1>2, <3>1 DEF Same
  <2>4. CASE l \in Outcomes
    <3>1. cb \in ListVars /\ cb.firing /\ OutcomeOk(cb) /\ cb.fired
      BY <1>1, <1>2, <2>4, InnermostIs
    <3>2. cb.firingIndex \in Int
      BY <3>1, VarsAre
    <3>3. state # "pending"
      <4>1. ASSUME state = "pending" PROVE FALSE
        <5>1. Early(cb) /\ cb.firingIndex = 0
          BY <1>1, <2>4, <3>1, <4>1 DEF StateOk
        <5>2. cb.firingIndex + 1 = 1
          BY <5>1
        <5>3. fn = "state"
          BY <5>1, <5>2 DEF Early, Wires
        <5> QED
          BY <1>6, <5>3, Named
      <4> QED
        BY <4>1
    <3>4. state # Settled(Other(l))
      BY <1>1, <2>4, <3>1, OtherIs DEF StateOk
    <3>5. state = Settled(l)
      BY <1>3, <2>4, <3>3, <3>4, OtherIs
    <3>6. added[l][fn] - called[l][fn] > 0
      <4> PICK b : b = TRUE
        OBVIOUS
      <4> PICK a : a = FALSE
        OBVIOUS
      <4>1. Looping(l) = b
        BY <1>2 DEF Looping
      <4>2. added[l][fn] = called[l][fn] + Cardinality(Places(cb, b, fn))
        BY <1>1, <1>6, <2>4, <3>4, <4>1 DEF CountOk
      <4>3. Cardinality(Places(cb, b, fn)) = Cardinality(Places(cb, a, fn)) + 1
        BY <1>2, <1>6, <3>1, PlacesCall
      <4>4. Cardinality(Places(cb, a, fn)) \in Nat
        BY <3>1, PlacesFinite
      <4>5. called[l][fn] \in Nat /\ added[l][fn] \in Nat
        BY <1>2, <1>3, <1>6, CountsAre
      <4>6. added[l][fn] = called[l][fn] + (Cardinality(Places(cb, a, fn)) + 1)
        BY <4>2, <4>3
      <4>7. PICK p \in Nat, q \in Nat, x \in Nat :
              p = added[l][fn] /\ q = called[l][fn] /\ x = Cardinality(Places(cb, a, fn))
        BY <4>4, <4>5
      <4>8. p - q > 0
        <5>1. p = q + (x + 1)
          BY <4>6, <4>7
        <5> QED
          BY <5>1, OneIsOwed
      <4> QED
        BY <4>7, <4>8
    <3>7. \A m \in Outcomes, e \in Fn :
             Owed(m, e)' = IF m = l /\ e = fn THEN Owed(m, e) - 1 ELSE Owed(m, e)
      <4> TAKE m \in Outcomes, e \in Fn
      <4>1. CASE m = l /\ e = fn
        <5>1. Owed(l, fn)' = Owed(l, fn) - 1
          BY <1>4, <1>6, <2>2, <3>4, OwedLess
        <5> QED
          BY <4>1, <5>1
      <4>2. CASE ~(m = l /\ e = fn)
        <5>1. m \in Lists
          BY OtherIs
        <5>2. called'[m][e] = called[m][e]
          BY <2>2, <4>2, <5>1 DEF CountsUp
        <5>3. Owed(m, e)' = Owed(m, e)
          BY <1>4, <5>2, OwedSame
        <5> QED
          BY <4>2, <5>3
      <4> QED
        BY <4>1, <4>2
    <3>8. Waiting = [m \in Outcomes |-> [e \in Fn |-> Owed(m, e)]]
      BY WaitingIs
    <3>9. Waiting' = [Waiting EXCEPT ![l][fn] = @ - 1]
      <4>1. Waiting' = [m \in Outcomes |-> [e \in Fn |-> Owed(m, e)']]
        BY WaitingIs
      <4>2. PICK w :
              w = [m \in Outcomes |-> [e \in Fn |-> IF m = l /\ e = fn THEN Owed(m, e) - 1 ELSE Owed(m, e)]]
        OBVIOUS
      <4>3. [Waiting EXCEPT ![l][fn] = @ - 1] = w
        BY <1>6, <2>4, <3>8, <4>2
      <4>4. Waiting' = w
        BY <3>7, <4>1, <4>2
      <4> QED
        BY <4>3, <4>4
    <3>10. Waiting[l][fn] > 0
      BY <1>6, <2>4, <3>4, <3>6, <3>8 DEF Owed
    <3>11. l = Promised!KindOf(state)
      BY <2>4, <3>5, KindsAre
    <3>12. Promised!Deliver(l, fn)
      BY <1>2, <3>3, <3>9, <3>10, <3>11 DEF Promised!Deliver, Waiting
    <3> QED
      BY <1>6, <2>4, <3>12, KindsAre
  <2> QED
    BY <2>3, <2>4
<1> QED
  BY <1>5, <1>6

LEMMA WiredKeepsPromise ==
    ASSUME IInv, Wired
    PROVE  Same \/ \E s \in {"resolved", "rejected"} : Promised!Settle(s)
<1> PICK l : l = Top.of
  OBVIOUS
<1>1. /\ l \in Outcomes /\ added' = added /\ called' = called
      /\ state' = state \/ (state = "pending" /\ state' = Settled(l))
  BY WiredIs
<1>2. CASE state' = state
  BY <1>1, <1>2 DEF Same, Owed
<1>3. CASE state = "pending" /\ state' = Settled(l)
  <2>1. \A m \in Outcomes, f \in Fn : Owed(m, f)' = IF m = l THEN Owed(m, f) ELSE 0
    BY <1>1, <1>3, OtherIs DEF Owed
  <2>2. Waiting = [m \in Outcomes |-> [f \in Fn |-> Owed(m, f)]]
    BY WaitingIs
  <2>3. Waiting' = [m \in Outcomes |-> [f \in Fn |-> Owed(m, f)']]
    BY WaitingIs
  <2>4. Waiting' = [m \in Outcomes |-> IF m = l THEN Waiting[m] ELSE [f \in Fn |-> 0]]
    <3>1. \A m \in Outcomes : [f \in Fn |-> Owed(m, f)'] = IF m = l THEN Waiting[m] ELSE [f \in Fn |-> 0]
      <4> TAKE m \in Outcomes
      <4>1. CASE m = l
        <5>1. \A f \in Fn : Owed(m, f)' = Owed(m, f)
          BY <2>1, <4>1
        <5> QED
          BY <2>2, <4>1, <5>1
      <4>2. CASE m # l
        <5>1. \A f \in Fn : Owed(m, f)' = 0
          BY <2>1, <4>2
        <5> QED
          BY <4>2, <5>1
      <4> QED
        BY <4>1, <4>2
    <3> QED
      BY <2>3, <3>1
  <2>5. Promised!KindOf(Settled(l)) = l
    BY <1>1, KindsAre
  <2>6. Promised!Settle(Settled(l))
    BY <1>3, <2>4, <2>5, KindsAre DEF Promised!Settle, Promised!None, Waiting
  <2> QED
    BY <1>1, <2>6, OtherIs
<1> QED
  BY <1>1, <1>2, <1>3

LEMMA StepKeepsPromise == IInv /\ [DeferredNext]_deferredVars => [Promised!Next]_(Promised!vars)
<1> SUFFICES ASSUME IInv, [DeferredNext]_deferredVars PROVE [Promised!Next]_(Promised!vars)
  OBVIOUS
<1>1. ASSUME UNCHANGED <<state, added, called>> PROVE Same
  BY <1>1 DEF Same, Owed
<1>2. CASE Same
  BY <1>2, SameStutters
<1>3. CASE \E l \in Lists, f \in Fn : Register(l, f)
  BY <1>2, <1>3, RegisterKeepsPromise DEF Promised!Next
<1>4. CASE \E l \in Outcomes, d \in Data : Settle(l, d)
  BY <1>1, <1>2, <1>4 DEF Settle
<1>5. CASE \E d \in Data : Notify(d)
  BY <1>1, <1>2, <1>5 DEF Notify
<1>6. CASE Call
  BY <1>2, <1>6, CallKeepsPromise DEF Promised!Next
<1>7. CASE Wired
  BY <1>2, <1>7, WiredKeepsPromise DEF Promised!Next
<1>8. CASE (Return(FALSE) \/ Finish \/ Throw) /\ UNCHANGED <<state, added, called, noted>>
  BY <1>1, <1>2, <1>8
<1>9. CASE UNCHANGED deferredVars
  BY <1>1, <1>2, <1>9 DEF deferredVars
<1> QED
  BY <1>3, <1>4, <1>5, <1>6, <1>7, <1>8, <1>9 DEF DeferredNext

\* jQuery.Deferred: a Deferred implements Promise.  It is settled once, by the
\* list that fires first, and a handler is called only for that outcome and no
\* more often than it was registered, for any handlers and any calls of them.
THEOREM DeferredImplements == DeferredSpec => ImplementsPromise
<1>1. DeferredInit => Promised!Init
  <2> SUFFICES ASSUME DeferredInit PROVE Promised!Init
    OBVIOUS
  <2>1. state = "pending" /\ added = NoCalls /\ called = NoCalls
    BY DEF DeferredInit
  <2>2. \A l \in Outcomes, f \in Fn : Owed(l, f) = 0
    BY <2>1, OtherIs DEF Owed, NoCalls
  <2>3. Waiting = [l \in Outcomes |-> [f \in Fn |-> 0]]
    BY <2>2, WaitingIs
  <2> QED
    BY <2>1, <2>3, KindsAre DEF Promised!Init, Promised!None, Waiting
<1> QED
  BY <1>1, StepKeepsPromise, IInvHolds, PTL DEF DeferredSpec, ImplementsPromise, Promised!Spec

-----------------------------------------------------------------------------
\* A set of naturals has a smallest element.
LEMMA Smallest ==
    ASSUME NEW T \in SUBSET Nat, T # {}
    PROVE  \E n \in T : \A m \in T : n <= m
<1>1. PICK n \in T : \A m \in T : <<m, n>> \notin OpToRel(<, Nat)
  BY WFMin, NatLessThanWellFounded, Zenon
<1>2. \A m \in T : ~(m < n)
  BY <1>1, Zenon DEF OpToRel
<1>3. n \in Nat /\ \A m \in T : m \in Nat
  OBVIOUS
<1> QED
  BY <1>2, <1>3

LEMMA Least ==
    ASSUME NEW T \in SUBSET Nat, T # {}
    PROVE  \E n \in T : n = 0 \/ n - 1 \notin T
<1>1. PICK n \in T : \A m \in T : n <= m
  BY Smallest
<1> QED
  BY <1>1

KeptBy(s, f, n, k) ==
    k = [i \in 0 .. n |-> IF i = 0 THEN <<>> ELSE IF s[i] = f THEN k[i - 1] ELSE Append(k[i - 1], s[i])]

LEMMA KeptExists ==
    ASSUME NEW s, NEW f, NEW n \in Nat PROVE \E k : KeptBy(s, f, n, k)
<1> DEFINE T == {m \in Nat : ~ \E k : KeptBy(s, f, m, k)}
<1>1. SUFFICES ASSUME T # {} PROVE FALSE
  OBVIOUS
<1>2. PICK m \in T : m = 0 \/ m - 1 \notin T
  BY <1>1, Least
<1>3. KeptBy(s, f, 0, [i \in 0 .. 0 |-> <<>>])
  BY DEF KeptBy
<1>4. m # 0 /\ m - 1 \in Nat
  BY <1>2, <1>3
<1>5. PICK k : KeptBy(s, f, m - 1, k)
  BY <1>2, <1>4
<1> DEFINE x == IF s[m] = f THEN k[m - 1] ELSE Append(k[m - 1], s[m])
           g == [i \in 0 .. m |-> IF i = m THEN x ELSE k[i]]
<1>0. m \in Nat
  OBVIOUS
<1> HIDE DEF T
<1>6. \A i \in 0 .. m - 1 :
         k[i] = IF i = 0 THEN <<>> ELSE IF s[i] = f THEN k[i - 1] ELSE Append(k[i - 1], s[i])
  BY <1>5 DEF KeptBy
<1>7. \A i \in 0 .. m : g[i] = IF i = 0 THEN <<>> ELSE IF s[i] = f THEN g[i - 1] ELSE Append(g[i - 1], s[i])
  <2>1. m \in Nat \ {0}
    BY <1>0, <1>4
  <2> SUFFICES ASSUME NEW i \in 0 .. m
               PROVE  g[i] = IF i = 0 THEN <<>> ELSE IF s[i] = f THEN g[i - 1] ELSE Append(g[i - 1], s[i])
    OBVIOUS
  <2>2. CASE i = m
    <3>1. g[i] = x /\ g[i - 1] = k[m - 1]
      BY <2>1, <2>2
    <3> HIDE DEF g
    <3> QED BY <2>1, <2>2, <3>1
  <2>3. CASE i # m
    <3>1. i \in 0 .. m - 1 /\ g[i] = k[i] /\ (i # 0 => g[i - 1] = k[i - 1])
      BY <2>1, <2>3
    <3> HIDE DEF g
    <3> QED BY <1>6, <3>1
  <2> QED BY <2>2, <2>3
<1>8. g = [i \in 0 .. m |-> IF i = 0 THEN <<>> ELSE IF s[i] = f THEN g[i - 1] ELSE Append(g[i - 1], s[i])]
  BY <1>7
<1>9. KeptBy(s, f, m, g)
  BY <1>8 DEF KeptBy
<1> QED
  BY <1>9 DEF T

LEMMA KeptIs ==
    ASSUME NEW s, NEW f, Len(s) \in Nat PROVE KeptBy(s, f, Len(s), Kept(s, f))
<1>1. \E k : KeptBy(s, f, Len(s), k)
  BY KeptExists
<1>2. Kept(s, f) = CHOOSE k : KeptBy(s, f, Len(s), k)
  BY DEF Kept, KeptBy
<1> QED
  BY <1>1, <1>2

\* The positions of f among the first n + 1 elements of s, counted from 0.
Found(s, f, n) == {i \in {j \in 0 .. Len(s) - 1 : s[j + 1] = f} : i <= n}

LEMMA FoundIs ==
    ASSUME NEW S, NEW s \in Seq(S), NEW f, NEW n \in Int
    PROVE  /\ IsFiniteSet(Found(s, f, n)) /\ Cardinality(Found(s, f, n)) \in Nat
           /\ n >= -1 => Cardinality(Found(s, f, n)) <= n + 1
           /\ Cardinality(Found(s, f, n)) <= Len(s)
<1>0. Len(s) \in Nat
  OBVIOUS
<1>1. Found(s, f, n) \subseteq 0 .. Len(s) - 1 /\ Found(s, f, n) \subseteq 0 .. n
  BY <1>0 DEF Found
<1>2. IsFiniteSet(0 .. Len(s) - 1) /\ Cardinality(0 .. Len(s) - 1) = Len(s)
  <2>1. 0 \in Int /\ Len(s) - 1 \in Int /\ (Len(s) - 1) - 0 + 1 = Len(s) /\ (0 > Len(s) - 1 => Len(s) = 0)
    BY <1>0
  <2> QED BY <2>1, FS_Interval
<1>3. n >= -1 => IsFiniteSet(0 .. n) /\ Cardinality(0 .. n) = n + 1
  BY FS_Interval
<1> QED
  BY <1>0, <1>1, <1>2, <1>3, FS_Subset, FS_CardinalityType

LEMMA FoundNext ==
    ASSUME NEW S, NEW s \in Seq(S), NEW f, NEW n \in 1 .. Len(s)
    PROVE  Cardinality(Found(s, f, n - 1)) = Cardinality(Found(s, f, n - 2)) + (IF s[n] = f THEN 1 ELSE 0)
<1>0. Len(s) \in Nat
  OBVIOUS
<1>1. CASE s[n] = f
  <2>1. Found(s, f, n - 1) = Found(s, f, n - 2) \cup {n - 1} /\ n - 1 \notin Found(s, f, n - 2)
    BY <1>0, <1>1 DEF Found
  <2>2. IsFiniteSet(Found(s, f, n - 2)) /\ Cardinality(Found(s, f, n - 2)) \in Nat
    BY FoundIs
  <2> QED BY <1>1, <2>1, <2>2, FS_AddElement
<1>2. CASE s[n] # f
  <2>1. Found(s, f, n - 1) = Found(s, f, n - 2)
    BY <1>0, <1>2 DEF Found
  <2> QED BY <1>2, <2>1, FoundIs
<1> QED
  BY <1>1, <1>2

LEMMA FoundAll ==
    ASSUME NEW S, NEW s \in Seq(S), NEW f, NEW n \in Int, n >= Len(s) - 1
    PROVE  Found(s, f, n) = Found(s, f, Len(s) - 1)
BY DEF Found

LEMMA KeptStep ==
    ASSUME NEW S, NEW s \in Seq(S), NEW f
    PROVE  /\ Kept(s, f)[0] = <<>>
           /\ \A i \in 1 .. Len(s) :
                Kept(s, f)[i] = IF s[i] = f THEN Kept(s, f)[i - 1] ELSE Append(Kept(s, f)[i - 1], s[i])
<1>1. Len(s) \in Nat
  OBVIOUS
<1>2. KeptBy(s, f, Len(s), Kept(s, f))
  BY <1>1, KeptIs
<1>3. \A i \in 0 .. Len(s) :
        Kept(s, f)[i] = IF i = 0 THEN <<>>
                        ELSE IF s[i] = f THEN Kept(s, f)[i - 1] ELSE Append(Kept(s, f)[i - 1], s[i])
  BY <1>2 DEF KeptBy
<1> QED
  BY <1>1, <1>3

LEMMA KeptType ==
    ASSUME NEW S, NEW s \in Seq(S), NEW f, NEW n \in 0 .. Len(s)
    PROVE  /\ Kept(s, f)[n] \in Seq(S)
           /\ Len(Kept(s, f)[n]) = n - Cardinality(Found(s, f, n - 1))
<1> DEFINE P(m) == /\ Kept(s, f)[m] \in Seq(S)
                   /\ Len(Kept(s, f)[m]) = m - Cardinality(Found(s, f, m - 1))
           T == {m \in 0 .. Len(s) : ~P(m)}
<1>0. Len(s) \in Nat
  OBVIOUS
<1>1. SUFFICES ASSUME T # {} PROVE FALSE
  OBVIOUS
<1>2. PICK m \in T : m = 0 \/ m - 1 \notin T
  <2>1. T \in SUBSET Nat
    BY <1>0
  <2> HIDE DEF T
  <2> QED BY <1>1, <2>1, Least
<1>3. m \in 0 .. Len(s) /\ ~P(m)
  OBVIOUS
<1>4. P(0)
  <2>1. Found(s, f, -1) = {}
    BY <1>0 DEF Found
  <2>2. Kept(s, f)[0] = <<>> /\ <<>> \in Seq(S) /\ Len(<<>>) = 0
    BY KeptStep
  <2>3. Cardinality(Found(s, f, 0 - 1)) = 0
    <3>1. 0 - 1 = -1
      OBVIOUS
    <3> QED BY <2>1, <3>1, FS_EmptySet
  <2> QED BY <2>2, <2>3
<1>5. m # 0
  BY <1>3, <1>4
<1>6. P(m - 1)
  BY <1>0, <1>2, <1>3, <1>5
<1> HIDE DEF T
<1>7. /\ Kept(s, f)[m] = IF s[m] = f THEN Kept(s, f)[m - 1] ELSE Append(Kept(s, f)[m - 1], s[m])
      /\ m \in 1 .. Len(s)
  BY <1>0, <1>3, <1>5, KeptStep
<1>8. Cardinality(Found(s, f, m - 1)) = Cardinality(Found(s, f, m - 2)) + (IF s[m] = f THEN 1 ELSE 0)
  BY <1>7, FoundNext
<1>9. Cardinality(Found(s, f, m - 2)) \in Nat /\ (m - 1) - 1 = m - 2
  BY <1>3, FoundIs
<1>10. s[m] \in S
  BY <1>7
<1>11. /\ Kept(s, f)[m - 1] \in Seq(S)
       /\ Len(Kept(s, f)[m - 1]) = (m - 1) - Cardinality(Found(s, f, m - 2))
  BY <1>6, <1>9
<1>12. CASE s[m] = f
  BY <1>3, <1>7, <1>8, <1>9, <1>11, <1>12
<1>13. CASE s[m] # f
  <2>1. Kept(s, f)[m] = Append(Kept(s, f)[m - 1], s[m])
    BY <1>7, <1>13
  <2>2. /\ Kept(s, f)[m] \in Seq(S)
        /\ Len(Kept(s, f)[m]) = (m - 1) - Cardinality(Found(s, f, m - 2)) + 1
    BY <1>10, <1>11, <2>1, AppendProperties
  <2> QED BY <1>3, <1>7, <1>8, <1>9, <1>13, <2>2
<1> QED
  BY <1>12, <1>13

\* What is left of the first n + k elements is what is left of the first n, and
\* what is left of the next k.
Cat(p, q) == p \o q
Splits(s, f, n, r, k) == Kept(s, f)[n + k] = Cat(Kept(s, f)[n], Kept(r, f)[k])

LEMMA CatIs ==
    ASSUME NEW S, NEW p \in Seq(S), NEW q \in Seq(S), NEW x \in S
    PROVE  /\ Append(Cat(p, q), x) = Cat(p, Append(q, x))
BY DEF Cat

LEMMA CatEmpty == ASSUME NEW S, NEW p \in Seq(S) PROVE Cat(p, <<>>) = p
BY DEF Cat

LEMMA CatRest ==
    ASSUME NEW S, NEW p \in Seq(S), NEW q \in Seq(S)
    PROVE  /\ SubSeq(Cat(p, q), Len(p) + 1, Len(Cat(p, q))) = q
           /\ Len(Cat(p, q)) = Len(p) + Len(q)
<1>1. Len(p \o q) = Len(p) + Len(q) /\ Len(p) \in Nat /\ Len(q) \in Nat
  OBVIOUS
<1>2. SubSeq(p \o q, Len(p) + 1, Len(p \o q)) = q
  BY <1>1
<1> QED
  BY <1>1, <1>2 DEF Cat

LEMMA SplitsNone ==
    ASSUME NEW S, NEW s \in Seq(S), NEW f, NEW n \in 0 .. Len(s), NEW r \in Seq(S)
    PROVE  Splits(s, f, n, r, 0)
<1>1. Kept(r, f)[0] = <<>>
  BY KeptStep
<1>2. Kept(s, f)[n] \in Seq(S)
  BY KeptType
<1>3. n + 0 = n
  OBVIOUS
<1> QED
  BY <1>1, <1>2, <1>3, CatEmpty DEF Splits

LEMMA SplitsNext ==
    ASSUME NEW S, NEW s \in Seq(S), NEW f, NEW n \in 0 .. Len(s), NEW r \in Seq(S), NEW k \in 1 .. Len(r),
           n + k <= Len(s), s[n + k] = r[k], Splits(s, f, n, r, k - 1)
    PROVE  Splits(s, f, n, r, k)
<1> DEFINE c == Kept(s, f)[n + (k - 1)] i == n + k
<1>1. i \in 1 .. Len(s) /\ i - 1 = n + (k - 1) /\ k - 1 \in 0 .. Len(r)
  OBVIOUS
<1>2. Kept(s, f)[i] = IF s[i] = f THEN Kept(s, f)[i - 1] ELSE Append(Kept(s, f)[i - 1], s[i])
  <2> HIDE DEF i
  <2> QED BY <1>1, KeptStep
<1>3. Kept(s, f)[i] = IF r[k] = f THEN c ELSE Append(c, r[k])
  BY <1>1, <1>2
<1>4. PICK a \in Seq(S), b \in Seq(S), x \in S : a = Kept(s, f)[n] /\ b = Kept(r, f)[k - 1] /\ x = r[k]
  BY <1>1, KeptType
<1>5. Kept(r, f)[k] = IF x = f THEN b ELSE Append(b, x)
  BY <1>4, KeptStep
<1>6. c = Cat(a, b)
  BY <1>4 DEF Splits
<1>7. Append(Cat(a, b), x) = Cat(a, Append(b, x))
  BY CatIs
<1> HIDE DEF c
<1>8. Kept(s, f)[i] = Cat(a, Kept(r, f)[k])
  <2>1. CASE x = f
    BY <1>3, <1>4, <1>5, <1>6, <2>1
  <2>2. CASE x # f
    <3>1. Kept(s, f)[i] = Append(c, x) /\ Kept(r, f)[k] = Append(b, x)
      BY <1>3, <1>4, <1>5, <2>2
    <3> QED BY <1>6, <1>7, <3>1
  <2> QED BY <2>1, <2>2
<1> QED
  BY <1>4, <1>8 DEF Splits

LEMMA KeptRest ==
    ASSUME NEW S, NEW s \in Seq(S), NEW f, NEW n \in 0 .. Len(s), NEW r \in Seq(S),
           Len(r) = Len(s) - n, \A i \in 1 .. Len(r) : r[i] = s[n + i],
           NEW k \in 0 .. Len(r)
    PROVE  Splits(s, f, n, r, k)
<1> DEFINE T == {m \in 0 .. Len(r) : ~Splits(s, f, n, r, m)}
<1>1. SUFFICES ASSUME T # {} PROVE FALSE
  OBVIOUS
<1>2. T \in SUBSET Nat
  OBVIOUS
<1> HIDE DEF T
<1>3. PICK m \in T : m = 0 \/ m - 1 \notin T
  BY <1>1, <1>2, Least
<1>4. m \in 0 .. Len(r) /\ ~Splits(s, f, n, r, m)
  BY DEF T
<1>5. m # 0
  BY <1>4, SplitsNone
<1>6. m \in 1 .. Len(r) /\ m - 1 \in 0 .. Len(r) /\ n + m <= Len(s) /\ s[n + m] = r[m]
  BY <1>4, <1>5
<1>7. Splits(s, f, n, r, m - 1)
  BY <1>3, <1>5, <1>6 DEF T
<1> QED
  BY <1>4, <1>6, <1>7, SplitsNext

LEMMA WithoutIs ==
    ASSUME NEW S, NEW s \in Seq(S), NEW f
    PROVE  /\ Without(s, f) \in Seq(S)
           /\ Len(Without(s, f)) = Len(s) - Cardinality(Found(s, f, Len(s) - 1))
<1>1. Len(s) \in 0 .. Len(s)
  OBVIOUS
<1> QED
  BY <1>1, KeptType DEF Without

\* What is left after a position is what is left of the elements after it.
LEMMA WithoutRest ==
    ASSUME NEW S, NEW s \in Seq(S), NEW f, NEW n \in 0 .. Len(s)
    PROVE  /\ SubSeq(Without(s, f), n - Cardinality(Found(s, f, n - 1)) + 1, Len(Without(s, f)))
                = Without(SubSeq(s, n + 1, Len(s)), f)
           /\ n - Cardinality(Found(s, f, n - 1)) <= Len(Without(s, f))
<1> DEFINE r == SubSeq(s, n + 1, Len(s)) k == Len(s) - n p == Kept(s, f)[n] q == Kept(r, f)[k]
<1>0. Len(s) \in Nat
  OBVIOUS
<1>1. r \in Seq(S) /\ Len(r) = k /\ \A i \in 1 .. Len(r) : r[i] = s[n + i]
  <2>1. \A i \in n + 1 .. Len(s) : s[i] \in S
    BY <1>0
  <2> QED BY <1>0, <2>1, SubSeqProperties
<1>2. k \in 0 .. Len(s) - n /\ n + k = Len(s) /\ k \in 0 .. Len(r)
  BY <1>0, <1>1
<1> HIDE DEF r
<1>3. Splits(s, f, n, r, k)
  BY <1>1, <1>2, KeptRest
<1>4. Without(s, f) = Cat(p, q) /\ Without(r, f) = q
  BY <1>1, <1>2, <1>3 DEF Without, Splits
<1>5. p \in Seq(S) /\ Len(p) = n - Cardinality(Found(s, f, n - 1))
  BY KeptType
<1>6. q \in Seq(S)
  BY <1>1, <1>2, KeptType
<1> HIDE DEF p, q
<1>7. /\ SubSeq(Cat(p, q), Len(p) + 1, Len(Cat(p, q))) = q
      /\ Len(Cat(p, q)) = Len(p) + Len(q) /\ Len(p) \in Nat /\ Len(q) \in Nat
  <2>1. p \in Seq(S)
    BY <1>5
  <2>2. Len(p) \in Nat /\ Len(q) \in Nat
    BY <1>6, <2>1
  <2>3. /\ SubSeq(Cat(p, q), Len(p) + 1, Len(Cat(p, q))) = q
        /\ Len(Cat(p, q)) = Len(p) + Len(q)
    BY <1>6, <2>1, CatRest
  <2> QED BY <2>2, <2>3
<1>8. SubSeq(Without(s, f), Len(p) + 1, Len(Without(s, f))) = Without(r, f) /\ Len(p) <= Len(Without(s, f))
  BY <1>4, <1>7
<1> QED
  BY <1>5, <1>8 DEF r

-----------------------------------------------------------------------------
OneVars ==
    [options : Options, list : Seq(Fn), disabled : BOOLEAN, stack : Seq(Data),
     locked : BOOLEAN, memory : Data \cup {NoData}, fired : BOOLEAN, firing : BOOLEAN,
     data : Data \cup {NoData}, firingStart : Nat, firingLength : Nat, firingIndex : Int]

\* Where the call of fire stands.
At == IF frames = <<>> THEN "none" ELSE frames[1].at

FrameOf(at, fn) == [of |-> L, at |-> at, fn |-> fn]
Called == Callable \cup {NoData}

\* The list fires within one call of fire at most.
OneFrame ==
    \/ frames = <<>>
    \/ \E at \in {"loop", "call", "break"}, fn \in Called : frames = <<FrameOf(at, fn)>>

\* How many functions of the list the loop has called.
Taken(cb, at) == cb.firingIndex + (IF at = "loop" THEN 0 ELSE 1)

\* No fire waits for a list that is locked, and a list that does not fire is whole.
QueueOk(cb, at, em) ==
    /\ cb.firingStart = 0
    /\ cb.firing => cb.fired /\ cb.memory \in {cb.data, NoData}
    /\ cb.disabled => cb.stack = <<>> /\ cb.list = <<>>
    /\ cb.locked => cb.stack = <<>>
    /\ em => cb.firing
    /\ at # "none" => cb.firing

\* The loop ends with the list, and is within it unless the list was emptied.
LoopInList(cb, at, em) ==
    /\ cb.firing => Taken(cb, at) >= 0
    /\ cb.firing /\ ~cb.disabled => cb.firingLength = Len(cb.list)
    /\ cb.firing /\ ~cb.disabled => em \/ Taken(cb, at) <= Len(cb.list)

ListOk(cb, at, em) == QueueOk(cb, at, em) /\ LoopInList(cb, at, em)

ListIInv ==
    /\ lists \in [{L} -> OneVars]
    /\ OneFrame
    /\ ops \in 0 .. MaxOps /\ thrown \in BOOLEAN /\ emptied \in BOOLEAN
    /\ ListOk(Of, At, emptied)

LEMMA OneAre ==
    ASSUME NEW cb \in OneVars
    PROVE  /\ cb.options \in Options /\ cb.list \in Seq(Fn) /\ cb.disabled \in BOOLEAN
           /\ cb.stack \in Seq(Data) /\ cb.locked \in BOOLEAN /\ cb.memory \in Data \cup {NoData}
           /\ cb.fired \in BOOLEAN /\ cb.firing \in BOOLEAN /\ cb.data \in Data \cup {NoData}
           /\ cb.firingStart \in Nat /\ cb.firingLength \in Nat /\ cb.firingIndex \in Int
           /\ Len(cb.list) \in Nat /\ cb.options.stopOnFalse \in BOOLEAN /\ cb.options.memory \in BOOLEAN
           /\ cb.options.unique \in BOOLEAN /\ cb.options.once \in BOOLEAN
BY DEF OneVars, Options

\* All but the variables of the loop and the list is as before.
Alike(cb, d) ==
    /\ d.options = cb.options /\ d.fired = cb.fired /\ d.firing = cb.firing
    /\ d.data = cb.data /\ d.firingStart = cb.firingStart

\* What the methods make of the variables.
LEMMA OneFires ==
    ASSUME NEW cb \in OneVars, NEW v \in Data
    PROVE  LET d == Fire(cb, v) IN
           /\ d \in OneVars /\ d.options = cb.options /\ d.list = cb.list /\ d.stack = cb.stack
           /\ d.disabled = cb.disabled /\ d.locked = cb.locked
           /\ d.memory \in {v, NoData} /\ d.data = v /\ d.fired /\ d.firing
           /\ d.firingStart = 0 /\ d.firingIndex = cb.firingStart /\ d.firingLength = Len(cb.list)
<1> DEFINE m == IF cb.options.memory THEN v ELSE NoData
           a == [cb EXCEPT !.memory = m, !.data = v, !.fired = TRUE]
           b == [a EXCEPT !.firingIndex = cb.firingStart, !.firingStart = 0]
           d == [b EXCEPT !.firingLength = Len(cb.list), !.firing = TRUE]
<1>1. Fire(cb, v) = d
  BY DEF Fire
<1>0. m \in {v, NoData}
  OBVIOUS
<1> HIDE DEF m
<1>2. /\ a \in OneVars /\ a.memory = m /\ a.data = v /\ a.fired /\ a.options = cb.options
      /\ a.disabled = cb.disabled /\ a.locked = cb.locked /\ a.list = cb.list /\ a.stack = cb.stack
  BY <1>0 DEF OneVars
<1> HIDE DEF a
<1>3. cb.firingStart \in Nat /\ cb.firingStart \in Int /\ Len(cb.list) \in Nat
  BY OneAre
<1>4. /\ b \in OneVars /\ b.memory = m /\ b.data = v /\ b.fired /\ b.options = cb.options
      /\ b.disabled = cb.disabled /\ b.locked = cb.locked /\ b.list = cb.list /\ b.stack = cb.stack
      /\ b.firingIndex = cb.firingStart /\ b.firingStart = 0
  BY <1>2, <1>3 DEF OneVars
<1> HIDE DEF b
<1>5. /\ d \in OneVars /\ d.memory = m /\ d.data = v /\ d.fired /\ d.options = cb.options
      /\ d.disabled = cb.disabled /\ d.locked = cb.locked /\ d.list = cb.list /\ d.stack = cb.stack
      /\ d.firingIndex = cb.firingStart /\ d.firingStart = 0 /\ d.firing /\ d.firingLength = Len(cb.list)
  BY <1>3, <1>4 DEF OneVars
<1> HIDE DEF d
<1> QED
  BY <1>0, <1>1, <1>5

LEMMA OneDisabled ==
    ASSUME NEW cb \in OneVars
    PROVE  LET d == Disable(cb) IN
           /\ d \in OneVars /\ Alike(cb, d) /\ d.disabled /\ d.list = <<>> /\ d.locked
           /\ d.stack = <<>> /\ d.memory = NoData
           /\ d.firingIndex = cb.firingIndex /\ d.firingLength = cb.firingLength
<1> DEFINE a == [cb EXCEPT !.disabled = TRUE, !.locked = TRUE]
           d == [a EXCEPT !.list = <<>>, !.stack = <<>>, !.memory = NoData]
<1>1. Disable(cb) = d
  BY DEF Disable
<1>2. /\ a \in OneVars /\ Alike(cb, a) /\ a.disabled /\ a.locked
      /\ a.firingIndex = cb.firingIndex /\ a.firingLength = cb.firingLength
  BY DEF OneVars, Alike
<1> HIDE DEF a
<1>3. <<>> \in Seq(Fn) /\ <<>> \in Seq(Data)
  OBVIOUS
<1>4. /\ d \in OneVars /\ Alike(a, d) /\ d.disabled = a.disabled /\ d.locked = a.locked
      /\ d.list = <<>> /\ d.stack = <<>> /\ d.memory = NoData
      /\ d.firingIndex = a.firingIndex /\ d.firingLength = a.firingLength
  BY <1>2, <1>3 DEF OneVars, Alike
<1> HIDE DEF d
<1> QED
  BY <1>1, <1>2, <1>4 DEF Alike

LEMMA OneLocked ==
    ASSUME NEW cb \in OneVars
    PROVE  LET d == Lock(cb) IN
           /\ d \in OneVars /\ Alike(cb, d) /\ d.locked /\ d.stack = <<>> /\ d.memory = cb.memory
           /\ d.firingIndex = cb.firingIndex /\ d.firingLength = cb.firingLength
           /\ cb.memory = NoData => d.disabled /\ d.list = <<>>
           /\ cb.memory # NoData => d.disabled = cb.disabled /\ d.list = cb.list
<1> DEFINE a == [cb EXCEPT !.locked = TRUE, !.stack = <<>>]
<1>1. Lock(cb) = IF cb.memory = NoData THEN Disable(a) ELSE a
  BY DEF Lock
<1>2. <<>> \in Seq(Data)
  OBVIOUS
<1>3. /\ a \in OneVars /\ Alike(cb, a) /\ a.locked /\ a.stack = <<>> /\ a.memory = cb.memory
      /\ a.firingIndex = cb.firingIndex /\ a.firingLength = cb.firingLength
      /\ a.disabled = cb.disabled /\ a.list = cb.list
  BY <1>2 DEF OneVars, Alike
<1> HIDE DEF a
<1>4. CASE cb.memory = NoData
  BY <1>1, <1>3, <1>4, OneDisabled DEF Alike
<1>5. CASE cb.memory # NoData
  BY <1>1, <1>3, <1>5
<1> QED
  BY <1>4, <1>5

LEMMA OneEmptied ==
    ASSUME NEW cb \in OneVars
    PROVE  LET d == [EmptyList(cb) EXCEPT !.disabled = FALSE] IN
           /\ d \in OneVars /\ Alike(cb, d) /\ ~d.disabled /\ d.list = <<>> /\ d.locked = cb.locked
           /\ d.stack = cb.stack /\ d.memory = cb.memory
           /\ d.firingIndex = cb.firingIndex /\ d.firingLength = 0
<1> DEFINE a == [cb EXCEPT !.list = <<>>, !.firingLength = 0]
           d == [a EXCEPT !.disabled = FALSE]
<1>1. [EmptyList(cb) EXCEPT !.disabled = FALSE] = d
  BY DEF EmptyList
<1>2. <<>> \in Seq(Fn)
  OBVIOUS
<1>3. /\ a \in OneVars /\ Alike(cb, a) /\ a.list = <<>> /\ a.locked = cb.locked
      /\ a.stack = cb.stack /\ a.memory = cb.memory
      /\ a.firingIndex = cb.firingIndex /\ a.firingLength = 0
  BY <1>2 DEF OneVars, Alike
<1> HIDE DEF a
<1>4. /\ d \in OneVars /\ Alike(a, d) /\ ~d.disabled /\ d.list = a.list /\ d.locked = a.locked
      /\ d.stack = a.stack /\ d.memory = a.memory
      /\ d.firingIndex = a.firingIndex /\ d.firingLength = a.firingLength
  BY <1>3 DEF OneVars, Alike
<1> HIDE DEF d
<1> QED
  BY <1>1, <1>3, <1>4 DEF Alike

LEMMA OneRemoves ==
    ASSUME NEW cb \in OneVars, NEW f, cb.firing => cb.firingLength = Len(cb.list)
    PROVE  LET d == RemoveFn(cb, f) IN
           /\ d \in OneVars /\ Alike(cb, d) /\ d.disabled = cb.disabled /\ d.locked = cb.locked
           /\ d.stack = cb.stack /\ d.memory = cb.memory /\ d.list = Without(cb.list, f)
           /\ cb.firing => /\ d.firingLength = Len(d.list)
                           /\ d.firingIndex = cb.firingIndex - Cardinality(Found(cb.list, f, cb.firingIndex))
<1> DEFINE w == Without(cb.list, f)
           n == IF cb.firing THEN cb.firingLength - Cardinality(Found(cb.list, f, cb.firingLength))
                ELSE cb.firingLength
           i == IF cb.firing THEN cb.firingIndex - Cardinality(Found(cb.list, f, cb.firingIndex))
                ELSE cb.firingIndex
           d == [cb EXCEPT !.list = w, !.firingLength = n, !.firingIndex = i]
<1>1. RemoveFn(cb, f) = d
  BY DEF RemoveFn, Found
<1>2. cb.list \in Seq(Fn) /\ Len(cb.list) \in Nat /\ cb.firingLength \in Nat /\ cb.firingIndex \in Int
  BY OneAre
<1>3. w \in Seq(Fn) /\ Len(w) = Len(cb.list) - Cardinality(Found(cb.list, f, Len(cb.list) - 1))
  BY <1>2, WithoutIs
<1>4. cb.firing => n = Len(w)
  <2>1. Found(cb.list, f, Len(cb.list)) = Found(cb.list, f, Len(cb.list) - 1)
    BY <1>2, FoundAll
  <2> QED BY <1>3, <2>1
<1>5. n \in Nat
  <2>1. Len(w) \in Nat
    BY <1>3
  <2> QED BY <1>2, <1>4, <2>1
<1>6. i \in Int
  <2>1. Cardinality(Found(cb.list, f, cb.firingIndex)) \in Nat
    BY <1>2, FoundIs
  <2> QED BY <1>2, <2>1
<1>7. cb.firing => i = cb.firingIndex - Cardinality(Found(cb.list, f, cb.firingIndex))
  OBVIOUS
<1> HIDE DEF w, n, i
<1>8. /\ d \in OneVars /\ Alike(cb, d) /\ d.disabled = cb.disabled /\ d.locked = cb.locked
      /\ d.stack = cb.stack /\ d.memory = cb.memory /\ d.list = w
      /\ d.firingLength = n /\ d.firingIndex = i
  BY <1>3, <1>5, <1>6 DEF OneVars, Alike
<1> HIDE DEF d
<1> QED
  BY <1>1, <1>4, <1>7, <1>8 DEF w

LEMMA OnePushes ==
    ASSUME NEW cb \in OneVars, NEW f \in Fn
    PROVE  LET d == Pushed(cb, f) IN
           /\ d \in OneVars /\ Alike(cb, d) /\ d.disabled = cb.disabled /\ d.locked = cb.locked
           /\ d.stack = cb.stack /\ d.memory = cb.memory
           /\ d.firingIndex = cb.firingIndex /\ d.firingLength = cb.firingLength
           /\ d = cb \/ d.list = Append(cb.list, f)
           /\ cb.list \in Seq(Fn) /\ Append(cb.list, f) \in Seq(Fn)
<1> DEFINE d == [cb EXCEPT !.list = Append(cb.list, f)]
<1>1. Pushed(cb, f) = cb \/ Pushed(cb, f) = d
  BY DEF Pushed
<1>2. cb.list \in Seq(Fn) /\ Append(cb.list, f) \in Seq(Fn)
  BY OneAre
<1>3. /\ d \in OneVars /\ Alike(cb, d) /\ d.disabled = cb.disabled /\ d.locked = cb.locked
      /\ d.stack = cb.stack /\ d.memory = cb.memory
      /\ d.firingIndex = cb.firingIndex /\ d.firingLength = cb.firingLength
      /\ d.list = Append(cb.list, f)
  BY <1>2 DEF OneVars, Alike
<1>4. Alike(cb, cb)
  BY DEF Alike
<1> HIDE DEF d
<1> QED
  BY <1>1, <1>2, <1>3, <1>4

\* The end of the loop: the list does not fire, forgets a fire that was queued, or
\* its functions.
LEMMA OneEnds ==
    ASSUME NEW cb \in OneVars, NEW q \in Seq(Data)
    PROVE  LET d == [cb EXCEPT !.firing = FALSE] e == [d EXCEPT !.stack = q] g == [d EXCEPT !.list = <<>>] IN
           /\ d \in OneVars /\ d.options = cb.options /\ d.fired = cb.fired /\ ~d.firing
           /\ d.firingStart = cb.firingStart /\ d.disabled = cb.disabled /\ d.locked = cb.locked
           /\ d.stack = cb.stack /\ d.memory = cb.memory /\ d.list = cb.list
           /\ e \in OneVars /\ e.options = cb.options /\ e.firingStart = cb.firingStart
           /\ e.disabled = cb.disabled /\ e.locked = cb.locked /\ e.stack = q /\ e.list = cb.list
           /\ g \in OneVars /\ g.options = cb.options /\ ~g.firing /\ g.firingStart = cb.firingStart
           /\ g.disabled = cb.disabled /\ g.locked = cb.locked /\ g.stack = cb.stack
           /\ g.memory = cb.memory /\ g.list = <<>>
<1>1. PICK no \in BOOLEAN : no = FALSE
  OBVIOUS
<1> DEFINE d == [cb EXCEPT !.firing = no] e == [d EXCEPT !.stack = q]
<1>0. <<>> \in Seq(Fn)
  OBVIOUS
<1>2. PICK none : none = <<>> /\ none \in Seq(Fn)
  BY <1>0
<1> DEFINE g == [d EXCEPT !.list = none]
<1>3. /\ d \in OneVars /\ d.options = cb.options /\ d.fired = cb.fired /\ d.firing = no
      /\ d.firingStart = cb.firingStart /\ d.disabled = cb.disabled /\ d.locked = cb.locked
      /\ d.stack = cb.stack /\ d.memory = cb.memory /\ d.list = cb.list
  BY DEF OneVars
<1> HIDE DEF d
<1>4. /\ e \in OneVars /\ e.options = cb.options /\ e.firingStart = cb.firingStart
      /\ e.disabled = cb.disabled /\ e.locked = cb.locked /\ e.stack = q /\ e.list = cb.list
  BY <1>3 DEF OneVars
<1>5. /\ g \in OneVars /\ g.options = cb.options /\ g.firing = no /\ g.firingStart = cb.firingStart
      /\ g.disabled = cb.disabled /\ g.locked = cb.locked /\ g.stack = cb.stack
      /\ g.memory = cb.memory /\ g.list = none
  BY <1>2, <1>3 DEF OneVars
<1> QED
  BY <1>1, <1>2, <1>3, <1>4, <1>5 DEF d

-----------------------------------------------------------------------------
\* The list and its frame after a step.
Becomes(d, at) ==
    /\ lists' = [lists EXCEPT ![L] = d]
    /\ \/ at = "none" /\ frames' = <<>>
       \/ at # "none" /\ \E fn \in Called : frames' = <<FrameOf(at, fn)>>

LEMMA FrameHas ==
    ASSUME NEW at, NEW fn
    PROVE  /\ FrameOf(at, fn).of = L /\ FrameOf(at, fn).at = at /\ FrameOf(at, fn).fn = fn
           /\ Len(<<FrameOf(at, fn)>>) = 1 /\ <<FrameOf(at, fn)>>[1] = FrameOf(at, fn)
           /\ <<FrameOf(at, fn)>> # <<>>
BY DEF FrameOf

LEMMA AtIs ==
    ASSUME OneFrame
    PROVE  /\ At \in {"none", "loop", "call", "break"}
           /\ At = "none" => frames = <<>>
           /\ At # "none" => /\ Len(frames) = 1 /\ frames # <<>> /\ Top.of = L /\ Top.at = At /\ Top.fn \in Called
                             /\ frames = <<FrameOf(At, Top.fn)>>
<1>1. CASE frames = <<>>
  BY <1>1 DEF At
<1>2. CASE frames # <<>>
  <2>1. PICK at \in {"loop", "call", "break"}, fn \in Called : frames = <<FrameOf(at, fn)>>
    BY <1>2 DEF OneFrame
  <2>2. Len(frames) = 1 /\ frames[1] = FrameOf(at, fn) /\ Top = frames[1]
    BY <2>1, FrameHas DEF Top
  <2>3. At = at /\ Top.of = L /\ Top.at = at /\ Top.fn = fn
    BY <1>2, <2>2, FrameHas DEF At
  <2>4. at # "none"
    OBVIOUS
  <2> QED BY <1>2, <2>1, <2>2, <2>3, <2>4
<1> QED
  BY <1>1, <1>2

LEMMA BecomesIs ==
    ASSUME lists \in [{L} -> OneVars], NEW d \in OneVars, NEW at \in {"none", "loop", "call", "break"}, Becomes(d, at)
    PROVE  lists' \in [{L} -> OneVars] /\ Of' = d /\ OneFrame' /\ At' = at
<1>1. lists' \in [{L} -> OneVars] /\ Of' = d
  BY DEF Becomes, Of
<1>2. CASE at = "none"
  BY <1>1, <1>2 DEF Becomes, OneFrame, At
<1>3. CASE at # "none"
  <2>1. PICK fn \in Called : frames' = <<FrameOf(at, fn)>>
    BY <1>3 DEF Becomes
  <2>2. at \in {"loop", "call", "break"}
    BY <1>3
  <2>3. OneFrame'
    BY <2>1, <2>2 DEF OneFrame, Called, FrameOf
  <2>4. At' = at
    BY <2>1, FrameHas DEF At
  <2> QED BY <1>1, <2>3, <2>4
<1> QED
  BY <1>2, <1>3

\* What the loop has still to call.
BatchOf(cb, at) ==
    IF ~cb.firing \/ cb.disabled \/ at = "break" THEN <<>>
    ELSE SubSeq(cb.list, Taken(cb, at) + 1, cb.firingLength)

LEMMA BatchIs == ASSUME OneFrame, Of \in OneVars PROVE Batch = BatchOf(Of, At)
<1>1. FrameAt("loop") <=> At = "loop"
  <2>1. CASE frames = <<>>
    BY <2>1 DEF FrameAt, At
  <2>2. CASE frames # <<>>
    <3>1. Len(frames) = 1 /\ frames = <<FrameOf(At, Top.fn)>>
      BY <2>2, AtIs DEF At
    <3>2. DOMAIN frames = {1} /\ frames[1].of = L /\ frames[1].at = At
      BY <2>2, <3>1, FrameHas DEF At
    <3> QED BY <3>2 DEF FrameAt
  <2> QED BY <2>1, <2>2
<1>2. FrameAt("break") <=> At = "break"
  <2>1. CASE frames = <<>>
    BY <2>1 DEF FrameAt, At
  <2>2. CASE frames # <<>>
    <3>1. Len(frames) = 1 /\ frames = <<FrameOf(At, Top.fn)>>
      BY <2>2, AtIs DEF At
    <3>2. DOMAIN frames = {1} /\ frames[1].of = L /\ frames[1].at = At
      BY <2>2, <3>1, FrameHas DEF At
    <3> QED BY <3>2 DEF FrameAt
  <2> QED BY <2>1, <2>2
<1>3. Of.firingIndex + (IF FrameAt("loop") THEN 1 ELSE 2) = Taken(Of, At) + 1
  BY <1>1, OneAre DEF Taken
<1> QED
  BY <1>2, <1>3 DEF Batch, BatchOf

-----------------------------------------------------------------------------
\* The rest of a list after the list has changed.
LEMMA RestGrows ==
    ASSUME NEW S, NEW s \in Seq(S), NEW f \in S, NEW n \in Int, n >= 1, n <= Len(s) + 1
    PROVE  SubSeq(Append(s, f), n, Len(s) + 1) = Append(SubSeq(s, n, Len(s)), f)
<1> DEFINE a == Append(s, f) p == SubSeq(a, n, Len(s) + 1) q == SubSeq(s, n, Len(s))
<1>0. Len(s) \in Nat
  OBVIOUS
<1>1. a \in Seq(S) /\ Len(a) = Len(s) + 1 /\ a[Len(s) + 1] = f /\ \A i \in 1 .. Len(s) : a[i] = s[i]
  BY AppendProperties
<1> HIDE DEF a
<1>2. p \in Seq(S) /\ Len(p) = Len(s) - n + 2 /\ \A i \in 1 .. Len(s) - n + 2 : p[i] = a[n + i - 1]
  <2>1. \A i \in n .. Len(s) + 1 : a[i] \in S
    BY <1>0, <1>1
  <2>2. (Len(s) + 1) - n + 1 = Len(s) - n + 2 /\ Len(s) + 1 \in Int /\ n <= Len(s) + 1
    BY <1>0
  <2> QED BY <2>1, <2>2, SubSeqProperties
<1>3. q \in Seq(S) /\ Len(q) = Len(s) - n + 1 /\ \A i \in 1 .. Len(s) - n + 1 : q[i] = s[n + i - 1]
  <2>1. \A i \in n .. Len(s) : s[i] \in S
    BY <1>0
  <2>2. (IF n <= Len(s) THEN Len(s) - n + 1 ELSE 0) = Len(s) - n + 1
    BY <1>0
  <2> QED BY <1>0, <2>1, <2>2, SubSeqProperties
<1> HIDE DEF p, q
<1>4. /\ Append(q, f) \in Seq(S) /\ Len(Append(q, f)) = Len(q) + 1
      /\ \A i \in 1 .. Len(q) : Append(q, f)[i] = q[i]
      /\ Append(q, f)[Len(q) + 1] = f
  BY <1>3, AppendProperties
<1>5. \A i \in 1 .. Len(p) : p[i] = Append(q, f)[i]
  <2> SUFFICES ASSUME NEW i \in 1 .. Len(s) - n + 2 PROVE p[i] = Append(q, f)[i]
    BY <1>2
  <2>1. p[i] = a[n + i - 1]
    BY <1>2
  <2>2. CASE i = Len(s) - n + 2
    <3>1. n + i - 1 = Len(s) + 1 /\ i = Len(q) + 1
      BY <1>0, <1>3, <2>2
    <3> QED BY <1>1, <1>4, <2>1, <3>1
  <2>3. CASE i # Len(s) - n + 2
    <3>0. Len(s) \in Int /\ i \in Int /\ 1 <= i /\ i <= Len(s) - n + 2
      BY <1>0
    <3>2. i <= Len(s) - n + 1 /\ Len(q) = Len(s) - n + 1
      BY <1>3, <2>3, <3>0
    <3>1. n + i - 1 \in 1 .. Len(s) /\ i \in 1 .. Len(s) - n + 1 /\ i \in 1 .. Len(q)
      BY <3>0, <3>2
    <3> QED BY <1>1, <1>3, <1>4, <2>1, <3>1
  <2> QED BY <2>2, <2>3
<1>6. Len(p) = Len(Append(q, f))
  BY <1>0, <1>2, <1>3, <1>4
<1>7. p = Append(q, f)
  BY <1>2, <1>4, <1>5, <1>6, SeqEqual
<1> QED
  BY <1>7 DEF a, p, q

LEMMA RestNone ==
    ASSUME NEW s, NEW n \in Int, NEW m \in Int, m < n PROVE SubSeq(s, n, m) = <<>>
BY SubSeqEmpty

LEMMA RestLast ==
    ASSUME NEW S, NEW s \in Seq(S), NEW f \in S
    PROVE  SubSeq(Append(s, f), Len(s) + 1, Len(s) + 1) = <<f>>
<1>0. Len(s) \in Nat
  OBVIOUS
<1>1. PICK n \in Int : n = Len(s) + 1
  BY <1>0
<1>2. SubSeq(Append(s, f), n, Len(s) + 1) = Append(SubSeq(s, n, Len(s)), f)
  BY <1>0, <1>1, RestGrows
<1>3. SubSeq(s, n, Len(s)) = <<>>
  BY <1>0, <1>1, RestNone
<1>4. Append(<<>>, f) = <<f>>
  OBVIOUS
<1> QED
  BY <1>1, <1>2, <1>3, <1>4

LEMMA RestCalled ==
    ASSUME NEW S, NEW s \in Seq(S), NEW n \in Int, n >= 1, n <= Len(s)
    PROVE  /\ SubSeq(s, n, Len(s)) # <<>>
           /\ Tail(SubSeq(s, n, Len(s))) = SubSeq(s, n + 1, Len(s))
<1>0. Len(s) \in Nat
  OBVIOUS
<1>1. n \in 1 .. Len(s) /\ Len(s) \in n .. Len(s)
  BY <1>0
<1>2. Len(SubSeq(s, n, Len(s))) = Len(s) - n + 1
  <2>1. \A i \in n .. Len(s) : s[i] \in S
    BY <1>0
  <2> QED BY <1>0, <2>1, SubSeqProperties
<1>3. Tail(SubSeq(s, n, Len(s))) = SubSeq(s, n + 1, Len(s))
  BY <1>1, HeadTailOfSubSeq
<1>4. SubSeq(s, n, Len(s)) # <<>>
  <2>1. Len(SubSeq(s, n, Len(s))) >= 1
    BY <1>0, <1>2
  <2>2. SUFFICES ASSUME SubSeq(s, n, Len(s)) = <<>> PROVE FALSE
    OBVIOUS
  <2>3. Len(SubSeq(s, n, Len(s))) = Len(<<>>)
    BY <2>2
  <2>4. Len(<<>>) = 0
    OBVIOUS
  <2> QED BY <2>1, <2>3, <2>4
<1> QED
  BY <1>3, <1>4

LEMMA WithoutNone == ASSUME NEW f PROVE Without(<<>>, f) = <<>>
<1>1. KeptBy(<<>>, f, Len(<<>>), Kept(<<>>, f)) /\ Len(<<>>) = 0
  BY KeptIs
<1> QED
  BY <1>1 DEF Without, KeptBy

LEMMA RestRemoved ==
    ASSUME NEW S, NEW s \in Seq(S), NEW f, NEW i \in Int, i >= -1
    PROVE  SubSeq(Without(s, f), (i - Cardinality(Found(s, f, i))) + 2, Len(Without(s, f)))
             = Without(SubSeq(s, i + 2, Len(s)), f)
<1> DEFINE c == Cardinality(Found(s, f, i)) w == Without(s, f)
<1>0. Len(s) \in Nat /\ c \in Nat
  BY FoundIs
<1>1. CASE i + 1 <= Len(s)
  <2> DEFINE n == i + 1
  <2>1. n \in 0 .. Len(s) /\ n - 1 = i /\ n + 1 = i + 2 /\ n - c + 1 = (i - c) + 2
    BY <1>0, <1>1
  <2> HIDE DEF n
  <2>2. SubSeq(w, n - Cardinality(Found(s, f, n - 1)) + 1, Len(w)) = Without(SubSeq(s, n + 1, Len(s)), f)
    BY <2>1, WithoutRest
  <2> QED BY <2>1, <2>2
<1>2. CASE i + 1 > Len(s)
  <2>1. Found(s, f, i) = Found(s, f, Len(s) - 1)
    BY <1>0, <1>2, FoundAll
  <2>2. Len(w) = Len(s) - c /\ Len(w) \in Nat
    BY <2>1, WithoutIs
  <2>3. SubSeq(w, (i - c) + 2, Len(w)) = <<>>
    <3>1. Len(w) < (i - c) + 2 /\ (i - c) + 2 \in Int /\ Len(w) \in Int
      BY <1>0, <1>2, <2>2
    <3> QED BY <3>1, RestNone
  <2>4. SubSeq(s, i + 2, Len(s)) = <<>>
    <3>1. Len(s) < i + 2 /\ i + 2 \in Int /\ Len(s) \in Int
      BY <1>0, <1>2
    <3> QED BY <3>1, RestNone
  <2> QED BY <2>3, <2>4, WithoutNone
<1> QED
  BY <1>0, <1>1, <1>2

-----------------------------------------------------------------------------
Steps == [Dispatcher!Next]_(Dispatcher!vars)

\* The invariant after a step, and what Dispatch sees of it.
LEMMA Arrives ==
    ASSUME ListIInv, NEW d \in OneVars, NEW at \in {"none", "loop", "call", "break"}, Becomes(d, at),
           ops' \in 0 .. MaxOps, thrown' \in BOOLEAN, emptied' \in BOOLEAN, ListOk(d, at, emptied')
    PROVE  /\ ListIInv'
           /\ Of' = d /\ Batch = BatchOf(Of, At) /\ Batch' = BatchOf(d, at)
<1>1. lists' \in [{L} -> OneVars] /\ Of' = d /\ OneFrame' /\ At' = at
  BY BecomesIs DEF ListIInv
<1>2. Batch = BatchOf(Of, At)
  BY BatchIs DEF ListIInv, Of
<1>3. Batch' = BatchOf(d, at)
  <2>1. (OneFrame /\ Of \in OneVars => Batch = BatchOf(Of, At))'
    BY BatchIs, PTL
  <2> QED BY <1>1, <2>1
<1> QED
  BY <1>1, <1>2, <1>3 DEF ListIInv

LEMMA HeldIs ==
    ASSUME ListIInv
    PROVE  /\ Of \in OneVars /\ ListOk(Of, At, emptied) /\ OneFrame
           /\ lists \in [{L} -> OneVars] /\ lists[L] = Of
           /\ At \in {"none", "loop", "call", "break"}
BY AtIs DEF ListIInv, Of

\* A method is called from the program or from a function that the list has called.
LEMMA OpIs ==
    ASSUME ListIInv, Op
    PROVE  At \in {"none", "call"} /\ ops' \in 0 .. MaxOps /\ thrown' \in BOOLEAN
<1>1. At \in {"none", "call"}
  BY HeldIs, AtIs DEF Op, ProgramRuns
<1>2. ops' \in 0 .. MaxOps
  BY CallbacksAssumption DEF Op, ListIInv
<1> QED
  BY <1>1, <1>2 DEF Op, ListIInv

LEMMA Stays ==
    ASSUME ListIInv, NEW d, lists' = [lists EXCEPT ![L] = d], UNCHANGED frames
    PROVE  Becomes(d, At)
<1>1. CASE At = "none"
  BY <1>1, HeldIs, AtIs DEF Becomes
<1>2. CASE At # "none"
  BY <1>2, HeldIs, AtIs DEF Becomes
<1> QED
  BY <1>1, <1>2

\* A step that changes neither the list nor its frame.
LEMMA Idles ==
    ASSUME ListIInv, UNCHANGED <<lists, frames, emptied>>, ops' \in 0 .. MaxOps, thrown' \in BOOLEAN
    PROVE  ListIInv' /\ Steps
<1>1. ListIInv'
  BY DEF ListIInv, OneFrame, Of, At
<1>2. UNCHANGED Dispatcher!vars
  BY DEF Dispatcher!vars, Of, Batch, FrameAt
<1> QED
  BY <1>1, <1>2 DEF Steps

\* add to a list that fires.
LEMMA AddJoins ==
    ASSUME ListIInv, NEW f \in Fn, NEW d, Op, UNCHANGED <<frames, emptied>>,
           ~Of.disabled, Of.firing,
           d = [Pushed(Of, f) EXCEPT !.firingLength = Len(Pushed(Of, f).list)],
           lists' = [lists EXCEPT ![L] = d]
    PROVE  ListIInv' /\ Steps
<1>1. /\ Of \in OneVars /\ ListOk(Of, At, emptied) /\ At \in {"none", "call"}
      /\ ops' \in 0 .. MaxOps /\ thrown' \in BOOLEAN /\ emptied' = emptied /\ emptied \in BOOLEAN
  BY HeldIs, OpIs DEF ListIInv
<1>2. PICK p \in OneVars :
      /\ p = Pushed(Of, f) /\ Alike(Of, p) /\ p.disabled = Of.disabled /\ p.locked = Of.locked
      /\ p.stack = Of.stack /\ p.memory = Of.memory
      /\ p.firingIndex = Of.firingIndex /\ p.firingLength = Of.firingLength
      /\ p = Of \/ p.list = Append(Of.list, f)
      /\ Of.list \in Seq(Fn) /\ Append(Of.list, f) \in Seq(Fn)
  BY <1>1, OnePushes
<1>3. Len(p.list) \in Nat /\ d = [p EXCEPT !.firingLength = Len(p.list)]
  BY <1>2, OneAre
<1>4. /\ d \in OneVars /\ Alike(p, d) /\ d.disabled = p.disabled /\ d.locked = p.locked
      /\ d.stack = p.stack /\ d.memory = p.memory /\ d.list = p.list
      /\ d.firingIndex = p.firingIndex /\ d.firingLength = Len(p.list)
  <2>1. PICK n \in Nat : n = Len(p.list)
    BY <1>3
  <2>2. p \in OneVars /\ d = [p EXCEPT !.firingLength = n]
    BY <1>2, <1>3, <2>1
  <2> QED BY <2>1, <2>2 DEF OneVars, Alike
<1>5. Len(Of.list) \in Nat /\ Len(p.list) \in Nat /\ Len(p.list) >= Len(Of.list) /\ Taken(Of, At) \in Int
  BY <1>1, <1>2, OneAre, AppendProperties DEF Taken
<1>6. /\ Taken(d, At) = Taken(Of, At) /\ Taken(Of, At) >= 0 /\ Of.firingLength = Len(Of.list)
      /\ emptied \/ Taken(Of, At) <= Len(Of.list)
  BY <1>1, <1>2, <1>4 DEF ListOk, LoopInList, Taken
<1>7. QueueOk(d, At, emptied') /\ LoopInList(d, At, emptied')
  <2>1. QueueOk(d, At, emptied')
    BY <1>1, <1>2, <1>4 DEF ListOk, QueueOk, Alike
  <2>2. Taken(d, At) >= 0 /\ d.firingLength = Len(d.list)
    BY <1>4, <1>6
  <2>3. Taken(Of, At) <= Len(Of.list) => Taken(d, At) <= Len(d.list)
    BY <1>4, <1>5, <1>6
  <2> QED BY <1>1, <1>6, <2>1, <2>2, <2>3 DEF LoopInList
<1>8. ListIInv' /\ Of' = d /\ Batch = BatchOf(Of, At) /\ Batch' = BatchOf(d, At)
  <2>1. Becomes(d, At)
    BY Stays
  <2> QED BY <1>1, <1>4, <1>7, <2>1, Arrives, HeldIs DEF ListOk
<1>9. /\ Batch = SubSeq(Of.list, Taken(Of, At) + 1, Len(Of.list))
      /\ Batch' = SubSeq(p.list, Taken(Of, At) + 1, Len(p.list))
  BY <1>1, <1>2, <1>4, <1>6, <1>8 DEF BatchOf, Alike
<1>10. CASE p = Of
  <2>1. UNCHANGED Dispatcher!vars
    <3>1. Of'.list = Of.list /\ Of'.disabled = Of.disabled /\ Of'.stack = Of.stack
          /\ Of'.options = Of.options /\ Of'.firing = Of.firing /\ Of'.data = Of.data
          /\ Of'.memory = Of.memory
      BY <1>2, <1>4, <1>8, <1>10 DEF Alike
    <3>2. Batch' = Batch
      BY <1>9, <1>10
    <3> QED
      BY <1>1, <3>1, <3>2 DEF Dispatcher!vars
  <2> QED BY <1>8, <2>1 DEF Steps
<1>11. CASE p.list = Append(Of.list, f)
  <2>1. Len(p.list) = Len(Of.list) + 1
    BY <1>2, <1>11, AppendProperties
  <2>2. Batch' = Append(Batch, f) \/ (emptied /\ Batch' = Batch)
    <3>1. CASE Taken(Of, At) + 1 <= Len(Of.list) + 1
      <4>1. Taken(Of, At) + 1 \in Int /\ Taken(Of, At) + 1 >= 1
        BY <1>5, <1>6
      <4>2. SubSeq(Append(Of.list, f), Taken(Of, At) + 1, Len(Of.list) + 1)
              = Append(SubSeq(Of.list, Taken(Of, At) + 1, Len(Of.list)), f)
        BY <1>2, <3>1, <4>1, RestGrows
      <4> QED BY <1>9, <1>11, <2>1, <4>2
    <3>2. CASE Taken(Of, At) + 1 > Len(Of.list) + 1
      <4>1. ~(Taken(Of, At) <= Len(Of.list))
        BY <1>5, <3>2
      <4>2. Batch = <<>>
        BY <1>5, <1>9, <3>2, RestNone
      <4>3. Batch' = <<>>
        BY <1>5, <1>9, <2>1, <3>2, RestNone
      <4> QED BY <1>6, <4>1, <4>2, <4>3
    <3> QED BY <1>5, <3>1, <3>2
  <2>3. Dispatcher!Join(f)
    <3>1. Of'.list = Append(Of.list, f) /\ Of'.disabled = Of.disabled /\ Of'.stack = Of.stack
          /\ Of'.options = Of.options /\ Of'.firing /\ Of'.data = Of.data
      BY <1>2, <1>4, <1>8, <1>11 DEF Alike
    <3> QED
      BY <1>1, <2>2, <3>1 DEF Dispatcher!Join
  <2> QED BY <1>8, <2>3 DEF Steps, Dispatcher!Next
<1> QED
  BY <1>2, <1>10, <1>11

LEMMA Enters ==
    ASSUME NEW d, lists' = [lists EXCEPT ![L] = d], frames' = <<Frame(L)>>
    PROVE  Becomes(d, "loop")
<1>1. Frame(L) = FrameOf("loop", NoData) /\ NoData \in Called
  BY DEF Frame, FrameOf, Called
<1> QED
  BY <1>1 DEF Becomes

\* The list of a list that does not fire is not in a frame.
LEMMA RestIs ==
    ASSUME ListIInv, ~Of.firing
    PROVE  At = "none" /\ frames = <<>> /\ ~emptied
BY HeldIs, AtIs DEF ListOk, QueueOk

\* A list that is fired: all of its functions from the position on are called.
LEMMA Fires ==
    ASSUME ListIInv, NEW q \in OneVars, NEW v \in Data, Becomes(Fire(q, v), "loop"),
           q.disabled => q.stack = <<>> /\ q.list = <<>>, q.locked => q.stack = <<>>,
           q.firingStart <= Len(q.list), ~q.disabled,
           ops' \in 0 .. MaxOps, thrown' \in BOOLEAN, emptied' = FALSE
    PROVE  /\ ListIInv' /\ Of' = Fire(q, v)
           /\ Of'.list = q.list /\ Of'.stack = q.stack /\ Of'.disabled = q.disabled
           /\ Of'.options = q.options /\ Of'.firing /\ Of'.data = v
           /\ Batch' = SubSeq(q.list, q.firingStart + 1, Len(q.list))
<1>0. PICK d : d = Fire(q, v)
  OBVIOUS
<1>1. /\ d \in OneVars /\ d.options = q.options /\ d.list = q.list /\ d.stack = q.stack
      /\ d.disabled = q.disabled /\ d.locked = q.locked
      /\ d.memory \in {v, NoData} /\ d.data = v /\ d.fired /\ d.firing
      /\ d.firingStart = 0 /\ d.firingIndex = q.firingStart /\ d.firingLength = Len(q.list)
  BY <1>0, OneFires
<1>2. q.firingStart \in Nat /\ Len(q.list) \in Nat
  BY OneAre
<1>3. Taken(d, "loop") = q.firingStart
  BY <1>1, <1>2 DEF Taken
<1>4. QueueOk(d, "loop", emptied')
  BY <1>1 DEF QueueOk
<1>5. LoopInList(d, "loop", emptied')
  BY <1>1, <1>2, <1>3 DEF LoopInList
<1>6. ListIInv' /\ Of' = d /\ Batch' = BatchOf(d, "loop")
  BY <1>0, <1>1, <1>4, <1>5, Arrives DEF ListOk
<1>7. BatchOf(d, "loop") = SubSeq(q.list, q.firingStart + 1, Len(q.list))
  BY <1>1, <1>3 DEF BatchOf
<1> QED
  BY <1>0, <1>1, <1>6, <1>7

\* add to a list that does not fire and has a memory.
LEMMA AddAlone ==
    ASSUME ListIInv, NEW f \in Fn, Op, UNCHANGED emptied,
           ~Of.disabled, ~Of.firing, Of.memory # NoData,
           lists' = [lists EXCEPT ![L] = Fire([Pushed(Of, f) EXCEPT !.firingStart = Len(Of.list)], Of.memory)],
           frames' = Append(frames, Frame(L))
    PROVE  ListIInv' /\ Steps
<1>1. /\ Of \in OneVars /\ QueueOk(Of, At, emptied) /\ frames = <<>> /\ ~emptied
      /\ ops' \in 0 .. MaxOps /\ thrown' \in BOOLEAN /\ emptied' = FALSE /\ At = "none"
  BY HeldIs, OpIs, RestIs DEF ListIInv, ListOk
<1>2. PICK p \in OneVars :
      /\ p = Pushed(Of, f) /\ Alike(Of, p) /\ p.disabled = Of.disabled /\ p.locked = Of.locked
      /\ p.stack = Of.stack /\ p.memory = Of.memory
      /\ p = Of \/ p.list = Append(Of.list, f)
      /\ Of.list \in Seq(Fn) /\ Append(Of.list, f) \in Seq(Fn)
  BY <1>1, OnePushes
<1>3. PICK n \in Nat : n = Len(Of.list)
  BY <1>1, OneAre
<1>4. PICK v \in Data : v = Of.memory
  BY <1>1, OneAre
<1>5. PICK q : q = [p EXCEPT !.firingStart = n]
  OBVIOUS
<1>6. /\ q \in OneVars /\ q.options = p.options /\ q.disabled = p.disabled /\ q.locked = p.locked
      /\ q.stack = p.stack /\ q.list = p.list /\ q.firingStart = n
  BY <1>5 DEF OneVars
<1>8. Becomes(Fire(q, v), "loop")
  <2>1. lists' = [lists EXCEPT ![L] = Fire(q, v)]
    BY <1>2, <1>3, <1>4, <1>5
  <2>2. frames' = <<Frame(L)>>
    BY <1>1
  <2> QED BY <2>1, <2>2, Enters
<1>9. n <= Len(p.list) /\ (p # Of => Len(p.list) = n + 1)
  BY <1>2, <1>3, AppendProperties
<1>10. /\ ListIInv'
       /\ Of'.list = q.list /\ Of'.stack = q.stack /\ Of'.disabled = q.disabled
       /\ Of'.options = q.options /\ Of'.firing /\ Of'.data = v
       /\ Batch' = SubSeq(q.list, q.firingStart + 1, Len(q.list))
  <2>1. q.disabled => q.stack = <<>> /\ q.list = <<>>
    BY <1>2, <1>6
  <2>2. q.locked => q.stack = <<>>
    BY <1>1, <1>2, <1>6 DEF QueueOk
  <2>3. q.firingStart <= Len(q.list) /\ ~q.disabled
    BY <1>2, <1>6, <1>9
  <2> QED BY <1>1, <1>6, <1>8, <2>1, <2>2, <2>3, Fires
<1>11. Batch' = SubSeq(p.list, n + 1, Len(p.list))
  BY <1>6, <1>10
<1>12. CASE p = Of
  <2>1. Batch' = <<>>
    BY <1>3, <1>11, <1>12, RestNone
  <2>2. Dispatcher!Rejoin
    BY <1>1, <1>2, <1>4, <1>6, <1>10, <1>12, <2>1 DEF Dispatcher!Rejoin, Dispatcher!Start
  <2> QED BY <1>10, <2>2 DEF Steps, Dispatcher!Next
<1>13. CASE p.list = Append(Of.list, f)
  <2>2. Batch' = <<f>>
    <3>1. Len(p.list) = n + 1
      BY <1>2, <1>3, <1>13, AppendProperties
    <3>2. SubSeq(Append(Of.list, f), Len(Of.list) + 1, Len(Of.list) + 1) = <<f>>
      BY <1>2, RestLast
    <3> QED BY <1>3, <1>11, <1>13, <3>1, <3>2
  <2>3. Dispatcher!Join(f)
    BY <1>1, <1>2, <1>4, <1>6, <1>10, <1>13, <2>2 DEF Dispatcher!Join, Dispatcher!Start, Alike
  <2> QED BY <1>10, <2>3 DEF Steps, Dispatcher!Next
<1> QED
  BY <1>2, <1>12, <1>13

\* add to a list that does not fire and has no memory.
LEMMA AddWaits ==
    ASSUME ListIInv, NEW f \in Fn, Op, UNCHANGED <<frames, emptied>>,
           ~Of.disabled, ~Of.firing, Of.memory = NoData,
           lists' = [lists EXCEPT ![L] = Pushed(Of, f)]
    PROVE  ListIInv' /\ Steps
<1>1. /\ Of \in OneVars /\ QueueOk(Of, At, emptied) /\ ~emptied
      /\ ops' \in 0 .. MaxOps /\ thrown' \in BOOLEAN /\ emptied' = FALSE /\ At = "none"
  BY HeldIs, OpIs, RestIs DEF ListIInv, ListOk
<1>2. PICK p \in OneVars :
      /\ p = Pushed(Of, f) /\ Alike(Of, p) /\ p.disabled = Of.disabled /\ p.locked = Of.locked
      /\ p.stack = Of.stack /\ p.memory = Of.memory
      /\ p = Of \/ p.list = Append(Of.list, f)
  BY <1>1, OnePushes
<1>3. QueueOk(p, At, emptied') /\ LoopInList(p, At, emptied')
  BY <1>1, <1>2 DEF QueueOk, LoopInList, Alike
<1>4. Becomes(p, At)
  BY <1>2, Stays
<1>5. ListIInv' /\ Of' = p /\ Batch = BatchOf(Of, At) /\ Batch' = BatchOf(p, At)
  BY <1>1, <1>3, <1>4, Arrives DEF ListOk
<1>6. Batch = <<>> /\ Batch' = <<>>
  BY <1>2, <1>5 DEF BatchOf, Alike
<1>7. CASE p = Of
  <2>1. UNCHANGED Dispatcher!vars
    BY <1>1, <1>5, <1>6, <1>7 DEF Dispatcher!vars
  <2> QED BY <1>5, <2>1 DEF Steps
<1>8. CASE p.list = Append(Of.list, f)
  <2>1. Dispatcher!Join(f)
    BY <1>1, <1>2, <1>5, <1>6, <1>8 DEF Dispatcher!Join, Alike
  <2> QED BY <1>5, <2>1 DEF Steps, Dispatcher!Next
<1> QED
  BY <1>2, <1>7, <1>8

LEMMA AddStep ==
    ASSUME ListIInv, NEW f \in Fn, Add(L, f), UNCHANGED emptied
    PROVE  ListIInv' /\ Steps
<1>0. Op /\ ops' \in 0 .. MaxOps /\ thrown' \in BOOLEAN /\ Of = lists[L]
  BY OpIs DEF Add, Of
<1>1. CASE Of.disabled /\ UNCHANGED <<lists, frames>>
  BY <1>0, <1>1, Idles
<1>2. CASE /\ ~Of.disabled /\ Of.firing /\ UNCHANGED frames
           /\ lists' = [lists EXCEPT ![L] = [Pushed(Of, f) EXCEPT !.firingLength = Len(Pushed(Of, f).list)]]
  BY <1>0, <1>2, AddJoins
<1>3. CASE /\ ~Of.disabled /\ ~Of.firing /\ Of.memory # NoData /\ frames' = Append(frames, Frame(L))
           /\ lists' = [lists EXCEPT ![L] = Fire([Pushed(Of, f) EXCEPT !.firingStart = Len(Of.list)], Of.memory)]
  BY <1>0, <1>3, AddAlone
<1>4. CASE /\ ~Of.disabled /\ ~Of.firing /\ Of.memory = NoData /\ UNCHANGED frames
           /\ lists' = [lists EXCEPT ![L] = Pushed(Of, f)]
  BY <1>0, <1>4, AddWaits
<1> QED
  BY <1>0, <1>1, <1>2, <1>3, <1>4 DEF Add

LEMMA SameWithout == ASSUME NEW s, NEW f PROVE Dispatcher!Without(s, f) = Without(s, f)
BY DEF Dispatcher!Without, Without, Dispatcher!Kept, Kept

\* remove, from a list that is not disabled.
LEMMA RemoveMoves ==
    ASSUME ListIInv, NEW f \in Fn, Op, UNCHANGED <<frames, emptied>>, ~Of.disabled,
           lists' = [lists EXCEPT ![L] = RemoveFn(Of, f)]
    PROVE  ListIInv' /\ Steps
<1>1. /\ Of \in OneVars /\ QueueOk(Of, At, emptied) /\ LoopInList(Of, At, emptied) /\ emptied' = emptied
      /\ ops' \in 0 .. MaxOps /\ thrown' \in BOOLEAN /\ emptied \in BOOLEAN /\ At \in {"none", "call"}
  BY HeldIs, OpIs DEF ListIInv, ListOk
<1>2. Of.firing => Of.firingLength = Len(Of.list)
  BY <1>1 DEF LoopInList
<1>3. PICK d : d = RemoveFn(Of, f)
  OBVIOUS
<1>4. /\ d \in OneVars /\ Alike(Of, d) /\ d.disabled = Of.disabled /\ d.locked = Of.locked
      /\ d.stack = Of.stack /\ d.memory = Of.memory /\ d.list = Without(Of.list, f)
      /\ Of.firing => /\ d.firingLength = Len(d.list)
                      /\ d.firingIndex = Of.firingIndex - Cardinality(Found(Of.list, f, Of.firingIndex))
  BY <1>1, <1>2, <1>3, OneRemoves
<1>5. Of.list \in Seq(Fn) /\ Of.firingIndex \in Int /\ Taken(Of, At) = Of.firingIndex + 1 /\ Len(Of.list) \in Nat
      /\ Taken(d, At) = d.firingIndex + 1
  BY <1>1, OneAre DEF Taken
<1>6. Of.firing => Of.firingIndex >= -1 /\ (emptied \/ Of.firingIndex + 1 <= Len(Of.list))
  BY <1>1, <1>5 DEF LoopInList
<1>7. QueueOk(d, At, emptied')
  BY <1>1, <1>4 DEF QueueOk, Alike
<1>8. LoopInList(d, At, emptied')
  <2>1. SUFFICES ASSUME Of.firing
                 PROVE  Taken(d, At) >= 0 /\ (Taken(Of, At) <= Len(Of.list) => Taken(d, At) <= Len(d.list))
    BY <1>1, <1>4 DEF LoopInList, Alike
  <2>2. Cardinality(Found(Of.list, f, Of.firingIndex)) \in Nat
        /\ Cardinality(Found(Of.list, f, Of.firingIndex)) <= Of.firingIndex + 1
    BY <1>5, <1>6, <2>1, FoundIs
  <2>3. Taken(d, At) = Of.firingIndex - Cardinality(Found(Of.list, f, Of.firingIndex)) + 1
    BY <1>4, <1>5, <2>1
  <2>4. Taken(d, At) >= 0
    BY <1>5, <2>2, <2>3
  <2>5. ASSUME Taken(Of, At) <= Len(Of.list) PROVE Taken(d, At) <= Len(d.list)
    <3>1. PICK n \in 0 .. Len(Of.list) : n = Of.firingIndex + 1
      BY <1>5, <1>6, <2>1, <2>5
    <3>2. n - Cardinality(Found(Of.list, f, n - 1)) <= Len(Without(Of.list, f))
      BY <1>5, WithoutRest
    <3>3. n - 1 = Of.firingIndex
      BY <1>5, <3>1
    <3>4. PICK c \in Nat : c = Cardinality(Found(Of.list, f, Of.firingIndex))
      BY <2>2
    <3>5. n - c <= Len(d.list)
      BY <1>4, <3>2, <3>3, <3>4
    <3> QED BY <1>5, <2>3, <3>1, <3>4, <3>5
  <2> QED BY <2>4, <2>5
<1>9. Becomes(d, At)
  BY <1>3, Stays
<1>10. ListIInv' /\ Of' = d /\ Batch = BatchOf(Of, At) /\ Batch' = BatchOf(d, At)
  BY <1>1, <1>4, <1>7, <1>8, <1>9, Arrives DEF ListOk
<1>11. Batch' = Without(Batch, f)
  <2>1. CASE Of.firing
    <3>1. Batch = SubSeq(Of.list, Of.firingIndex + 2, Len(Of.list))
      <4>1. Batch = SubSeq(Of.list, Taken(Of, At) + 1, Len(Of.list))
        BY <1>1, <1>2, <1>10, <2>1 DEF BatchOf
      <4>2. Taken(Of, At) + 1 = Of.firingIndex + 2
        BY <1>5
      <4> QED BY <4>1, <4>2
    <3>2. Batch' = SubSeq(Without(Of.list, f),
                          (Of.firingIndex - Cardinality(Found(Of.list, f, Of.firingIndex))) + 2,
                          Len(Without(Of.list, f)))
      <4>1. Batch' = SubSeq(d.list, Taken(d, At) + 1, Len(d.list))
        BY <1>1, <1>4, <1>10, <2>1 DEF BatchOf, Alike
      <4>2. d.firingIndex \in Int
        BY <1>4, OneAre
      <4>3. Taken(d, At) + 1 = d.firingIndex + 2
        BY <1>5, <4>2
      <4> QED BY <1>4, <2>1, <4>1, <4>3
    <3> QED BY <1>5, <1>6, <2>1, <3>1, <3>2, RestRemoved
  <2>2. CASE ~Of.firing
    <3>1. Batch = <<>> /\ Batch' = <<>>
      BY <1>4, <1>10, <2>2 DEF BatchOf, Alike
    <3> QED BY <3>1, WithoutNone
  <2> QED BY <2>1, <2>2
<1>12. Dispatcher!Leave(f)
  BY <1>1, <1>4, <1>10, <1>11, SameWithout DEF Dispatcher!Leave, Alike
<1> QED
  BY <1>10, <1>12 DEF Steps, Dispatcher!Next

LEMMA RemoveStep ==
    ASSUME ListIInv, NEW f \in Fn, Remove(L, f), UNCHANGED emptied
    PROVE  ListIInv' /\ Steps
<1>0. /\ Op /\ ops' \in 0 .. MaxOps /\ thrown' \in BOOLEAN /\ Of = lists[L] /\ UNCHANGED frames
      /\ lists' = [lists EXCEPT ![L] = IF Of.disabled THEN Of ELSE RemoveFn(Of, f)]
  BY OpIs DEF Remove, Set, Of
<1>1. CASE Of.disabled
  <2>1. lists' = lists
    BY <1>0, <1>1, HeldIs
  <2> QED BY <1>0, <2>1, Idles
<1>2. CASE ~Of.disabled
  BY <1>0, <1>2, RemoveMoves
<1> QED
  BY <1>1, <1>2

\* disable.
LEMMA DisableStep ==
    ASSUME ListIInv, DisableList(L), UNCHANGED emptied
    PROVE  ListIInv' /\ Steps
<1>1. /\ Of \in OneVars /\ QueueOk(Of, At, emptied) /\ LoopInList(Of, At, emptied) /\ emptied' = emptied
      /\ ops' \in 0 .. MaxOps /\ thrown' \in BOOLEAN /\ emptied \in BOOLEAN /\ At \in {"none", "call"}
      /\ lists' = [lists EXCEPT ![L] = Disable(Of)] /\ UNCHANGED frames
  BY HeldIs, OpIs DEF ListIInv, ListOk, DisableList, Set, Of
<1>2. PICK d : d = Disable(Of)
  OBVIOUS
<1>3. /\ d \in OneVars /\ Alike(Of, d) /\ d.disabled /\ d.list = <<>> /\ d.locked
      /\ d.stack = <<>> /\ d.memory = NoData
      /\ d.firingIndex = Of.firingIndex /\ d.firingLength = Of.firingLength
  BY <1>1, <1>2, OneDisabled
<1>4. QueueOk(d, At, emptied') /\ LoopInList(d, At, emptied')
  BY <1>1, <1>3 DEF QueueOk, LoopInList, Alike, Taken
<1>5. Becomes(d, At)
  BY <1>1, <1>2, Stays
<1>6. ListIInv' /\ Of' = d /\ Batch' = BatchOf(d, At)
  BY <1>1, <1>3, <1>4, <1>5, Arrives DEF ListOk
<1>7. Batch' = <<>>
  BY <1>3, <1>6 DEF BatchOf
<1>8. Dispatcher!Close
  BY <1>1, <1>3, <1>6, <1>7 DEF Dispatcher!Close, Alike
<1> QED
  BY <1>6, <1>8 DEF Steps, Dispatcher!Next

\* lock: a list with no memory is disabled.
LEMMA LockStep ==
    ASSUME ListIInv, LockList(L), UNCHANGED emptied
    PROVE  ListIInv' /\ Steps
<1>1. /\ Of \in OneVars /\ QueueOk(Of, At, emptied) /\ LoopInList(Of, At, emptied) /\ emptied' = emptied
      /\ ops' \in 0 .. MaxOps /\ thrown' \in BOOLEAN /\ emptied \in BOOLEAN /\ At \in {"none", "call"}
      /\ lists' = [lists EXCEPT ![L] = Lock(Of)] /\ UNCHANGED frames
  BY HeldIs, OpIs DEF ListIInv, ListOk, LockList, Set, Of
<1>2. PICK d : d = Lock(Of)
  OBVIOUS
<1>3. /\ d \in OneVars /\ Alike(Of, d) /\ d.locked /\ d.stack = <<>> /\ d.memory = Of.memory
      /\ d.firingIndex = Of.firingIndex /\ d.firingLength = Of.firingLength
      /\ Of.memory = NoData => d.disabled /\ d.list = <<>>
      /\ Of.memory # NoData => d.disabled = Of.disabled /\ d.list = Of.list
  BY <1>1, <1>2, OneLocked
<1>4. QueueOk(d, At, emptied') /\ LoopInList(d, At, emptied')
  BY <1>1, <1>3 DEF QueueOk, LoopInList, Alike, Taken
<1>5. Becomes(d, At)
  BY <1>1, <1>2, Stays
<1>6. ListIInv' /\ Of' = d /\ Batch = BatchOf(Of, At) /\ Batch' = BatchOf(d, At)
  BY <1>1, <1>3, <1>4, <1>5, Arrives DEF ListOk
<1>7. CASE Of.memory = NoData
  <2>1. Batch' = <<>>
    BY <1>3, <1>6, <1>7 DEF BatchOf
  <2>2. Dispatcher!Close
    BY <1>1, <1>3, <1>6, <1>7, <2>1 DEF Dispatcher!Close, Alike
  <2> QED BY <1>6, <2>2 DEF Steps, Dispatcher!Next
<1>8. CASE Of.memory # NoData
  <2>1. Batch' = Batch
    BY <1>3, <1>6, <1>8 DEF BatchOf, Alike, Taken
  <2>2. Dispatcher!Lock
    BY <1>1, <1>3, <1>6, <1>8, <2>1 DEF Dispatcher!Lock, Alike
  <2> QED BY <1>6, <2>2 DEF Steps, Dispatcher!Next
<1> QED
  BY <1>7, <1>8

\* empty.
LEMMA EmptyStep ==
    ASSUME ListIInv, Empty(L), emptied' = Of.firing
    PROVE  ListIInv' /\ Steps
<1>1. /\ Of \in OneVars /\ QueueOk(Of, At, emptied) /\ LoopInList(Of, At, emptied)
      /\ ops' \in 0 .. MaxOps /\ thrown' \in BOOLEAN /\ emptied' \in BOOLEAN /\ At \in {"none", "call"}
      /\ lists' = [lists EXCEPT ![L] = [EmptyList(Of) EXCEPT !.disabled = FALSE]] /\ UNCHANGED frames
  BY HeldIs, OpIs, OneAre DEF ListIInv, ListOk, Empty, Set, Of
<1>2. PICK d : d = [EmptyList(Of) EXCEPT !.disabled = FALSE]
  OBVIOUS
<1>3. /\ d \in OneVars /\ Alike(Of, d) /\ ~d.disabled /\ d.list = <<>> /\ d.locked = Of.locked
      /\ d.stack = Of.stack /\ d.memory = Of.memory
      /\ d.firingIndex = Of.firingIndex /\ d.firingLength = 0
  BY <1>1, <1>2, OneEmptied
<1>4. Len(d.list) = 0
  BY <1>3
<1>5. QueueOk(d, At, emptied') /\ LoopInList(d, At, emptied')
  BY <1>1, <1>3, <1>4 DEF QueueOk, LoopInList, Alike, Taken
<1>6. Becomes(d, At)
  BY <1>1, <1>2, Stays
<1>7. ListIInv' /\ Of' = d /\ Batch' = BatchOf(d, At)
  BY <1>1, <1>3, <1>5, <1>6, Arrives DEF ListOk
<1>8. Batch' = <<>>
  <2>1. CASE Of.firing
    <3>1. Taken(d, At) + 1 > 0 /\ Taken(d, At) + 1 \in Int
      BY <1>1, <1>3, <2>1, OneAre DEF LoopInList, Taken
    <3>2. SubSeq(d.list, Taken(d, At) + 1, 0) = <<>>
      BY <3>1, RestNone
    <3> QED BY <1>3, <1>7, <3>2 DEF BatchOf
  <2>2. CASE ~Of.firing
    BY <1>3, <1>7, <2>2 DEF BatchOf, Alike
  <2> QED BY <2>1, <2>2
<1>9. Dispatcher!Clear
  BY <1>1, <1>3, <1>7, <1>8 DEF Dispatcher!Clear, Alike
<1> QED
  BY <1>7, <1>9 DEF Steps, Dispatcher!Next

LEMMA OneQueues ==
    ASSUME NEW cb \in OneVars, NEW v \in Data
    PROVE  LET d == [cb EXCEPT !.stack = Append(cb.stack, v)] IN
           /\ d \in OneVars /\ Alike(cb, d) /\ d.disabled = cb.disabled /\ d.locked = cb.locked
           /\ d.stack = Append(cb.stack, v) /\ d.memory = cb.memory /\ d.list = cb.list
           /\ d.firingIndex = cb.firingIndex /\ d.firingLength = cb.firingLength
<1>1. Append(cb.stack, v) \in Seq(Data)
  BY OneAre
<1>2. PICK q \in Seq(Data) : q = Append(cb.stack, v)
  BY <1>1
<1> DEFINE d == [cb EXCEPT !.stack = q]
<1>3. /\ d \in OneVars /\ Alike(cb, d) /\ d.disabled = cb.disabled /\ d.locked = cb.locked
      /\ d.stack = q /\ d.memory = cb.memory /\ d.list = cb.list
      /\ d.firingIndex = cb.firingIndex /\ d.firingLength = cb.firingLength
  BY DEF OneVars, Alike
<1> QED
  BY <1>2, <1>3

\* fireWith of a list that fires.
LEMMA FireQueues ==
    ASSUME ListIInv, NEW v \in Data, Op, UNCHANGED <<frames, emptied>>, MayFire(Of), Of.firing,
           lists' = [lists EXCEPT ![L] = [Of EXCEPT !.stack = Append(Of.stack, v)]]
    PROVE  ListIInv' /\ Steps
<1>1. /\ Of \in OneVars /\ QueueOk(Of, At, emptied) /\ LoopInList(Of, At, emptied) /\ emptied' = emptied
      /\ ops' \in 0 .. MaxOps /\ thrown' \in BOOLEAN /\ emptied \in BOOLEAN /\ At \in {"none", "call"}
  BY HeldIs, OpIs DEF ListIInv, ListOk
<1>2. PICK d : d = [Of EXCEPT !.stack = Append(Of.stack, v)]
  OBVIOUS
<1>3. /\ d \in OneVars /\ Alike(Of, d) /\ d.disabled = Of.disabled /\ d.locked = Of.locked
      /\ d.stack = Append(Of.stack, v) /\ d.memory = Of.memory /\ d.list = Of.list
      /\ d.firingIndex = Of.firingIndex /\ d.firingLength = Of.firingLength
  BY <1>1, <1>2, OneQueues
<1>4. ~Of.disabled /\ ~Of.locked
  BY <1>1 DEF MayFire, QueueOk
<1>5. QueueOk(d, At, emptied') /\ LoopInList(d, At, emptied')
  BY <1>1, <1>3, <1>4 DEF QueueOk, LoopInList, Alike, Taken
<1>6. Becomes(d, At)
  BY <1>2, Stays
<1>7. ListIInv' /\ Of' = d /\ Batch = BatchOf(Of, At) /\ Batch' = BatchOf(d, At)
  BY <1>1, <1>3, <1>5, <1>6, Arrives DEF ListOk
<1>8. Batch' = Batch
  BY <1>3, <1>7 DEF BatchOf, Alike, Taken
<1>9. Dispatcher!Give(v)
  BY <1>1, <1>3, <1>4, <1>7, <1>8 DEF Dispatcher!Give, Alike
<1> QED
  BY <1>7, <1>9 DEF Steps, Dispatcher!Next

\* fireWith of a list that does not fire: all of its functions are called.
LEMMA FireStarts ==
    ASSUME ListIInv, NEW v \in Data, Op, UNCHANGED emptied, MayFire(Of), ~Of.firing,
           lists' = [lists EXCEPT ![L] = Fire(Of, v)], frames' = Append(frames, Frame(L))
    PROVE  ListIInv' /\ Steps
<1>1. /\ Of \in OneVars /\ QueueOk(Of, At, emptied) /\ frames = <<>> /\ ~emptied
      /\ ops' \in 0 .. MaxOps /\ thrown' \in BOOLEAN /\ emptied' = FALSE
  BY HeldIs, OpIs, RestIs DEF ListIInv, ListOk
<1>2. frames' = <<Frame(L)>>
  BY <1>1
<1>3. Becomes(Fire(Of, v), "loop")
  BY <1>2, Enters
<1>4. ~Of.disabled /\ Of.firingStart = 0 /\ Len(Of.list) \in Nat /\ Of.list \in Seq(Fn)
  BY <1>1, OneAre DEF MayFire, QueueOk
<1>5. /\ ListIInv'
      /\ Of'.list = Of.list /\ Of'.stack = Of.stack /\ Of'.disabled = Of.disabled
      /\ Of'.options = Of.options /\ Of'.firing /\ Of'.data = v
      /\ Batch' = SubSeq(Of.list, Of.firingStart + 1, Len(Of.list))
  <2>1. Of.locked => Of.stack = <<>>
    BY <1>1 DEF QueueOk
  <2>2. Of.firingStart <= Len(Of.list) /\ (Of.disabled => Of.stack = <<>> /\ Of.list = <<>>)
    BY <1>4
  <2>3. PICK q \in OneVars : q = Of
    BY <1>1
  <2> QED BY <1>1, <1>3, <1>4, <2>1, <2>2, <2>3, Fires
<1>6. Batch' = Of.list
  <2>1. SubSeq(Of.list, 1, Len(Of.list)) = Of.list
    BY <1>4, SubSeqFull
  <2>2. Of.firingStart + 1 = 1
    BY <1>4
  <2> QED BY <1>5, <2>1, <2>2
<1>7. Dispatcher!Give(v)
  BY <1>1, <1>4, <1>5, <1>6 DEF Dispatcher!Give, Dispatcher!Start
<1> QED
  BY <1>5, <1>7 DEF Steps, Dispatcher!Next

LEMMA FireWithStep ==
    ASSUME ListIInv, NEW v \in Data, FireWith(L, v), UNCHANGED emptied
    PROVE  ListIInv' /\ Steps
<1>0. Op /\ ops' \in 0 .. MaxOps /\ thrown' \in BOOLEAN /\ Of = lists[L]
  BY OpIs DEF FireWith, Of
<1>1. CASE ~MayFire(Of) /\ UNCHANGED <<lists, frames>>
  BY <1>0, <1>1, Idles
<1>2. CASE /\ MayFire(Of) /\ Of.firing /\ UNCHANGED frames
           /\ lists' = [lists EXCEPT ![L] = [Of EXCEPT !.stack = Append(Of.stack, v)]]
  BY <1>0, <1>2, FireQueues
<1>3. CASE /\ MayFire(Of) /\ ~Of.firing /\ frames' = Append(frames, Frame(L))
           /\ lists' = [lists EXCEPT ![L] = Fire(Of, v)]
  BY <1>0, <1>3, FireStarts
<1> QED
  BY <1>0, <1>1, <1>2, <1>3 DEF FireWith

\* The list and the frame as they are.
LEMMA ListSame ==
    ASSUME ListIInv, lists' = lists
    PROVE  lists' = [lists EXCEPT ![L] = Of]
BY HeldIs

\* The loop calls the next function.
LEMMA CallNextStep ==
    ASSUME ListIInv, CallNext, UNCHANGED emptied
    PROVE  ListIInv' /\ Steps
<1>1. /\ Of \in OneVars /\ QueueOk(Of, At, emptied) /\ LoopInList(Of, At, emptied) /\ emptied' = emptied
      /\ emptied \in BOOLEAN /\ ops' \in 0 .. MaxOps /\ thrown' \in BOOLEAN
  BY HeldIs DEF ListIInv, ListOk, CallNext
<1>2. At = "loop" /\ Len(frames) = 1 /\ Top.of = L /\ frames = <<FrameOf(At, Top.fn)>>
      /\ Of = lists[Top.of]
  BY HeldIs, AtIs DEF CallNext, InLoop, Of
<1>3. Of.firing /\ ~Of.disabled /\ Of.firingIndex < Of.firingLength
  BY <1>1, <1>2 DEF CallNext, More, QueueOk
<1>4. Of.firingLength = Len(Of.list) /\ Of.firingIndex >= 0 /\ Of.firingIndex \in Int
      /\ Of.list \in Seq(Fn) /\ Len(Of.list) \in Nat
      /\ Taken(Of, At) = Of.firingIndex /\ Taken(Of, "call") = Of.firingIndex + 1
  BY <1>1, <1>2, <1>3, OneAre DEF LoopInList, Taken
<1>5. PICK g \in Called : g = Of.list[Of.firingIndex + 1]
  BY <1>3, <1>4 DEF Called, Callable
<1>6. Becomes(Of, "call")
  <2>1. frames' = <<FrameOf("call", g)>>
    <3>1. PICK h : frames = <<FrameOf("loop", h)>>
      BY <1>2
    <3>2. frames' = [frames EXCEPT ![1].at = "call", ![1].fn = g]
      BY <1>2, <1>5 DEF CallNext
    <3>3. PICK m : m = [frames EXCEPT ![1].at = "call"]
      OBVIOUS
    <3>4. m = <<FrameOf("call", h)>>
      BY <3>1, <3>3 DEF FrameOf
    <3>5. frames' = [m EXCEPT ![1].fn = g]
      BY <3>2, <3>3
    <3> QED BY <3>4, <3>5 DEF FrameOf
  <2> QED BY <1>5, <2>1, ListSame DEF Becomes, CallNext
<1>7. QueueOk(Of, "call", emptied') /\ LoopInList(Of, "call", emptied')
  <2>1. QueueOk(Of, "call", emptied')
    BY <1>1, <1>3 DEF QueueOk
  <2>2. Taken(Of, "call") >= 0 /\ Taken(Of, "call") <= Len(Of.list)
    BY <1>3, <1>4
  <2> QED BY <1>4, <2>1, <2>2 DEF LoopInList
<1>8. ListIInv' /\ Of' = Of /\ Batch = BatchOf(Of, At) /\ Batch' = BatchOf(Of, "call")
  BY <1>1, <1>6, <1>7, Arrives DEF ListOk
<1>9. Batch # <<>> /\ Batch' = Tail(Batch)
  <2>1. PICK n \in Int : n = Of.firingIndex + 1
    BY <1>4
  <2>2. Batch = SubSeq(Of.list, n, Len(Of.list))
    BY <1>2, <1>3, <1>4, <1>8, <2>1 DEF BatchOf
  <2>3. Batch' = SubSeq(Of.list, n + 1, Len(Of.list))
    BY <1>3, <1>4, <1>8, <2>1 DEF BatchOf
  <2>4. n >= 1 /\ n <= Len(Of.list)
    BY <1>3, <1>4, <2>1
  <2> QED BY <1>4, <2>2, <2>3, <2>4, RestCalled
<1>10. Dispatcher!Call
  BY <1>1, <1>8, <1>9 DEF Dispatcher!Call
<1> QED
  BY <1>8, <1>10 DEF Steps, Dispatcher!Next

LEMMA OneGoesOn ==
    ASSUME NEW cb \in OneVars
    PROVE  LET d == [cb EXCEPT !.firingIndex = cb.firingIndex + 1] g == [cb EXCEPT !.memory = NoData] IN
           /\ d \in OneVars /\ Alike(cb, d) /\ d.disabled = cb.disabled /\ d.locked = cb.locked
           /\ d.stack = cb.stack /\ d.memory = cb.memory /\ d.list = cb.list
           /\ d.firingIndex = cb.firingIndex + 1 /\ d.firingLength = cb.firingLength
           /\ g \in OneVars /\ Alike(cb, g) /\ g.disabled = cb.disabled /\ g.locked = cb.locked
           /\ g.stack = cb.stack /\ g.memory = NoData /\ g.list = cb.list
           /\ g.firingIndex = cb.firingIndex /\ g.firingLength = cb.firingLength
<1>1. PICK i \in Int : i = cb.firingIndex + 1
  BY OneAre
<1> DEFINE d == [cb EXCEPT !.firingIndex = i] g == [cb EXCEPT !.memory = NoData]
<1>2. /\ d \in OneVars /\ Alike(cb, d) /\ d.disabled = cb.disabled /\ d.locked = cb.locked
      /\ d.stack = cb.stack /\ d.memory = cb.memory /\ d.list = cb.list
      /\ d.firingIndex = i /\ d.firingLength = cb.firingLength
  BY DEF OneVars, Alike
<1>3. /\ g \in OneVars /\ Alike(cb, g) /\ g.disabled = cb.disabled /\ g.locked = cb.locked
      /\ g.stack = cb.stack /\ g.memory = NoData /\ g.list = cb.list
      /\ g.firingIndex = cb.firingIndex /\ g.firingLength = cb.firingLength
  BY DEF OneVars, Alike
<1> QED
  BY <1>1, <1>2, <1>3

\* The function returns false to a list with stopOnFalse.
LEMMA BreakStep ==
    ASSUME ListIInv, At = "call", UNCHANGED <<ops, thrown, emptied>>, Of.options.stopOnFalse,
           lists' = [lists EXCEPT ![L] = [Of EXCEPT !.memory = NoData]],
           \E fn \in Called : frames' = <<FrameOf("break", fn)>>
    PROVE  ListIInv' /\ Steps
<1>1. /\ Of \in OneVars /\ QueueOk(Of, At, emptied) /\ LoopInList(Of, At, emptied) /\ emptied' = emptied
      /\ ops' \in 0 .. MaxOps /\ thrown' \in BOOLEAN /\ emptied \in BOOLEAN
  BY HeldIs DEF ListIInv, ListOk
<1>2. PICK d : d = [Of EXCEPT !.memory = NoData]
  OBVIOUS
<1>3. /\ d \in OneVars /\ Alike(Of, d) /\ d.disabled = Of.disabled /\ d.locked = Of.locked
      /\ d.stack = Of.stack /\ d.memory = NoData /\ d.list = Of.list
      /\ d.firingIndex = Of.firingIndex /\ d.firingLength = Of.firingLength
  BY <1>1, <1>2, OneGoesOn
<1>4. Of.firing /\ QueueOk(d, "break", emptied') /\ LoopInList(d, "break", emptied')
  BY <1>1, <1>3 DEF QueueOk, LoopInList, Alike, Taken
<1>5. Becomes(d, "break")
  BY <1>2 DEF Becomes
<1>6. ListIInv' /\ Of' = d /\ Batch' = BatchOf(d, "break")
  BY <1>1, <1>3, <1>4, <1>5, Arrives DEF ListOk
<1>7. Batch' = <<>>
  BY <1>6 DEF BatchOf
<1>8. Dispatcher!Break
  BY <1>1, <1>3, <1>4, <1>6, <1>7 DEF Dispatcher!Break, Alike
<1> QED
  BY <1>6, <1>8 DEF Steps, Dispatcher!Next

\* The function returns and the loop goes on.
LEMMA LoopGoesOn ==
    ASSUME ListIInv, At = "call", UNCHANGED <<ops, thrown, emptied>>,
           lists' = [lists EXCEPT ![L] = [Of EXCEPT !.firingIndex = Of.firingIndex + 1]],
           \E fn \in Called : frames' = <<FrameOf("loop", fn)>>
    PROVE  ListIInv' /\ Steps
<1>1. /\ Of \in OneVars /\ QueueOk(Of, At, emptied) /\ LoopInList(Of, At, emptied) /\ emptied' = emptied
      /\ ops' \in 0 .. MaxOps /\ thrown' \in BOOLEAN /\ emptied \in BOOLEAN
  BY HeldIs DEF ListIInv, ListOk
<1>2. PICK d : d = [Of EXCEPT !.firingIndex = Of.firingIndex + 1]
  OBVIOUS
<1>3. /\ d \in OneVars /\ Alike(Of, d) /\ d.disabled = Of.disabled /\ d.locked = Of.locked
      /\ d.stack = Of.stack /\ d.memory = Of.memory /\ d.list = Of.list
      /\ d.firingIndex = Of.firingIndex + 1 /\ d.firingLength = Of.firingLength
  BY <1>1, <1>2, OneGoesOn
<1>4. Taken(d, "loop") = Taken(Of, At)
  BY <1>1, <1>3, OneAre DEF Taken
<1>5. Of.firing /\ QueueOk(d, "loop", emptied') /\ LoopInList(d, "loop", emptied')
  BY <1>1, <1>3, <1>4 DEF QueueOk, LoopInList, Alike
<1>6. Becomes(d, "loop")
  BY <1>2 DEF Becomes
<1>7. ListIInv' /\ Of' = d /\ Batch = BatchOf(Of, At) /\ Batch' = BatchOf(d, "loop")
  BY <1>1, <1>3, <1>5, <1>6, Arrives DEF ListOk
<1>8. Batch' = Batch
  BY <1>3, <1>4, <1>7 DEF BatchOf, Alike
<1>9. UNCHANGED Dispatcher!vars
  BY <1>1, <1>3, <1>7, <1>8 DEF Dispatcher!vars, Alike
<1> QED
  BY <1>7, <1>9 DEF Steps

LEMMA ListReturns ==
    ASSUME ListIInv, NEW false \in BOOLEAN, Return(false), UNCHANGED emptied
    PROVE  ListIInv' /\ Steps
<1>1. At = "call" /\ Len(frames) = 1 /\ Top.of = L /\ frames = <<FrameOf(At, Top.fn)>>
      /\ Of = lists[L] /\ Top.fn \in Called /\ UNCHANGED <<ops, thrown>>
  BY HeldIs, AtIs DEF Return, InLoop, Of
<1>2. PICK g \in Called : frames = <<FrameOf("call", g)>>
  BY <1>1
<1>3. CASE false /\ Of.options.stopOnFalse
  <2>1. frames' = <<FrameOf("break", g)>>
    BY <1>1, <1>2, <1>3 DEF Return, FrameOf
  <2>2. lists' = [lists EXCEPT ![L] = [Of EXCEPT !.memory = NoData]]
    BY <1>1, <1>3 DEF Return
  <2> QED BY <1>1, <1>3, <2>1, <2>2, BreakStep
<1>4. CASE ~(false /\ Of.options.stopOnFalse)
  <2>1. frames' = <<FrameOf("loop", g)>>
    BY <1>1, <1>2, <1>4 DEF Return, FrameOf
  <2>2. lists' = [lists EXCEPT ![L] = [Of EXCEPT !.firingIndex = Of.firingIndex + 1]]
    BY <1>1, <1>4 DEF Return
  <2> QED BY <1>1, <2>1, <2>2, LoopGoesOn
<1> QED
  BY <1>3, <1>4

\* An exception leaves the call of fire: the list stays firing.
LEMMA ListThrows ==
    ASSUME ListIInv, Throw, UNCHANGED emptied
    PROVE  ListIInv' /\ Steps
<1>1. /\ Of \in OneVars /\ QueueOk(Of, At, emptied) /\ LoopInList(Of, At, emptied) /\ emptied' = emptied
      /\ ops' \in 0 .. MaxOps /\ thrown' \in BOOLEAN /\ emptied \in BOOLEAN
      /\ lists' = lists /\ frames' = <<>>
  BY HeldIs DEF ListIInv, ListOk, Throw
<1>2. At = "call"
  BY HeldIs, AtIs DEF Throw, InLoop
<1>3. QueueOk(Of, "none", emptied') /\ LoopInList(Of, "none", emptied')
  BY <1>1, <1>2 DEF QueueOk, LoopInList, Taken
<1>4. Becomes(Of, "none")
  BY <1>1, ListSame DEF Becomes
<1>5. ListIInv' /\ Of' = Of /\ Batch = BatchOf(Of, At) /\ Batch' = BatchOf(Of, "none")
  BY <1>1, <1>3, <1>4, Arrives DEF ListOk
<1>6. Batch' = Batch
  BY <1>2, <1>5 DEF BatchOf, Taken
<1>7. UNCHANGED Dispatcher!vars
  BY <1>1, <1>5, <1>6 DEF Dispatcher!vars
<1> QED
  BY <1>5, <1>7 DEF Steps

\* When the loop has ended, every function of the batch has been called.
LEMMA BatchEnds ==
    ASSUME ListIInv, (InLoop("loop") /\ ~More(lists[Top.of])) \/ InLoop("break")
    PROVE  /\ Batch = <<>> /\ Of.firing /\ frames # <<>>
           /\ Len(frames) = 1 /\ Top.of = L /\ Pop = <<>>
<1>1. /\ Of \in OneVars /\ QueueOk(Of, At, emptied) /\ LoopInList(Of, At, emptied)
  BY HeldIs DEF ListOk
<1>2. At \in {"loop", "break"} /\ Len(frames) = 1 /\ Top.of = L /\ frames = <<FrameOf(At, Top.fn)>>
      /\ Of = lists[Top.of] /\ (At = "loop" => ~More(Of))
  BY HeldIs, AtIs DEF InLoop, Of
<1>3. Of.firing
  BY <1>1, <1>2 DEF QueueOk
<1>4. Batch = BatchOf(Of, At)
  BY HeldIs, BatchIs
<1>7. Batch = <<>>
  <2>1. CASE At = "loop" /\ ~Of.disabled
    <3>1. /\ Of.firingLength \in Int /\ Of.firingIndex \in Int /\ Taken(Of, At) = Of.firingIndex
          /\ Of.firingLength < Taken(Of, At) + 1 /\ Taken(Of, At) + 1 \in Int
      BY <1>1, <1>2, <2>1, OneAre DEF More, Taken
    <3>2. SubSeq(Of.list, Taken(Of, At) + 1, Of.firingLength) = <<>>
      BY <3>1, RestNone
    <3> QED BY <1>3, <1>4, <2>1, <3>2 DEF BatchOf
  <2>2. CASE At = "break" \/ Of.disabled
    BY <1>4, <2>2 DEF BatchOf
  <2> QED BY <1>2, <2>1, <2>2
<1>8. Pop = <<>>
  <2>1. Len(frames) - 1 < 1
    BY <1>2
  <2> QED BY <1>2, <2>1, RestNone DEF Pop
<1> QED
  BY <1>2, <1>3, <1>7, <1>8

\* The end of the loop, with a fire that waits.
LEMMA FinishRefires ==
    ASSUME ListIInv, Batch = <<>>, Of.firing, ~Of.disabled, ~Of.locked, Of.stack # <<>>,
           UNCHANGED <<ops, thrown>>, emptied' = FALSE, frames' = <<Frame(L)>>,
           lists' = [lists EXCEPT ![L] =
                       Fire([[Of EXCEPT !.firing = FALSE] EXCEPT !.stack = Tail(Of.stack)], Head(Of.stack))]
    PROVE  ListIInv' /\ Steps
<1>1. /\ Of \in OneVars /\ QueueOk(Of, At, emptied) /\ ops' \in 0 .. MaxOps /\ thrown' \in BOOLEAN
      /\ Of.stack \in Seq(Data) /\ Of.list \in Seq(Fn) /\ Of.firingStart = 0 /\ Len(Of.list) \in Nat
  BY HeldIs, OneAre DEF ListIInv, ListOk, QueueOk
<1>2. PICK t \in Seq(Data), v \in Data : t = Tail(Of.stack) /\ v = Head(Of.stack)
  BY <1>1, HeadTailProperties
<1>3. PICK q \in OneVars :
      /\ q = [[Of EXCEPT !.firing = FALSE] EXCEPT !.stack = t]
      /\ q.options = Of.options /\ q.firingStart = Of.firingStart
      /\ q.disabled = Of.disabled /\ q.locked = Of.locked /\ q.stack = t /\ q.list = Of.list
  BY <1>1, OneEnds, ZenonT(30)
<1>4. Becomes(Fire(q, v), "loop")
  <2>1. lists' = [lists EXCEPT ![L] = Fire(q, v)]
    BY <1>2, <1>3
  <2> QED BY <2>1, Enters
<1>5. /\ ListIInv'
      /\ Of'.list = q.list /\ Of'.stack = q.stack /\ Of'.disabled = q.disabled
      /\ Of'.options = q.options /\ Of'.firing /\ Of'.data = v
      /\ Batch' = SubSeq(q.list, q.firingStart + 1, Len(q.list))
  <2>1. q.firingStart <= Len(q.list) /\ ~q.disabled /\ ~q.locked
    BY <1>1, <1>3
  <2> QED BY <1>1, <1>4, <2>1, Fires
<1>6. Batch' = Of.list
  <2>1. SubSeq(Of.list, 1, Len(Of.list)) = Of.list
    BY <1>1, SubSeqFull
  <2>2. q.firingStart + 1 = 1
    BY <1>1, <1>3
  <2> QED BY <1>3, <1>5, <2>1, <2>2
<1>7. Dispatcher!End
  BY <1>1, <1>2, <1>3, <1>5, <1>6 DEF Dispatcher!End, Dispatcher!Start
<1> QED
  BY <1>5, <1>7 DEF Steps, Dispatcher!Next

\* The list and what it forgets when it has ended to fire.
EndsAs(d) ==
    /\ d \in OneVars /\ d.options = Of.options /\ ~d.firing /\ d.firingStart = 0
    /\ d.stack = <<>> /\ d.memory \in {Of.data, NoData}
    /\ d.disabled => d.list = <<>>
    /\ \/ d.list = Of.list /\ d.disabled = Of.disabled
       \/ d.list = <<>> /\ d.disabled \in {Of.disabled, d.memory = NoData}

LEMMA FinishEnds ==
    ASSUME ListIInv, Batch = <<>>, Of.firing, Of.stack = <<>>, NEW d, EndsAs(d),
           UNCHANGED <<ops, thrown>>, emptied' = FALSE, frames' = <<>>, lists' = [lists EXCEPT ![L] = d]
    PROVE  ListIInv' /\ Steps
<1>1. ops' \in 0 .. MaxOps /\ thrown' \in BOOLEAN /\ d \in OneVars
  BY DEF ListIInv, EndsAs
<1>2. QueueOk(d, "none", emptied') /\ LoopInList(d, "none", emptied')
  BY DEF EndsAs, QueueOk, LoopInList
<1>3. Becomes(d, "none")
  BY DEF Becomes
<1>4. ListIInv' /\ Of' = d /\ Batch' = BatchOf(d, "none")
  BY <1>1, <1>2, <1>3, Arrives DEF ListOk
<1>5. Batch' = <<>>
  BY <1>4 DEF BatchOf, EndsAs
<1>6. Dispatcher!End
  BY <1>4, <1>5 DEF Dispatcher!End, EndsAs
<1> QED
  BY <1>4, <1>6 DEF Steps, Dispatcher!Next

LEMMA ListFinishes ==
    ASSUME ListIInv, Finish, emptied' = FALSE
    PROVE  ListIInv' /\ Steps
<1>1. /\ Of \in OneVars /\ QueueOk(Of, At, emptied) /\ Of = lists[L] /\ UNCHANGED <<ops, thrown>>
  BY HeldIs DEF ListOk, Finish
<1>2. /\ Batch = <<>> /\ Of.firing /\ Len(frames) = 1 /\ Top.of = L /\ Pop = <<>>
      /\ Append(Pop, Frame(L)) = <<Frame(L)>>
  <2>1. (InLoop("loop") /\ ~More(lists[Top.of])) \/ InLoop("break")
    BY DEF Finish
  <2>2. Append(<<>>, Frame(L)) = <<Frame(L)>>
    OBVIOUS
  <2> QED BY <2>1, <2>2, BatchEnds
<1>3. PICK d \in OneVars :
      /\ d = [Of EXCEPT !.firing = FALSE] /\ d.options = Of.options /\ ~d.firing
      /\ d.firingStart = Of.firingStart /\ d.disabled = Of.disabled /\ d.locked = Of.locked
      /\ d.stack = Of.stack /\ d.memory = Of.memory /\ d.list = Of.list
  <2>1. <<>> \in Seq(Data)
    OBVIOUS
  <2> QED BY <1>1, <2>1, OneEnds
<1>4. CASE /\ ~Of.disabled /\ ~Of.locked /\ Of.stack # <<>>
           /\ lists' = [lists EXCEPT ![L] =
                          Fire([[Of EXCEPT !.firing = FALSE] EXCEPT !.stack = Tail(Of.stack)], Head(Of.stack))]
           /\ frames' = <<Frame(L)>>
  BY <1>1, <1>2, <1>4, FinishRefires
<1>5. CASE /\ Of.disabled \/ (~Of.locked /\ Of.stack = <<>>)
           /\ lists' = [lists EXCEPT ![L] = d] /\ frames' = <<>>
  <2>1. EndsAs(d) /\ Of.stack = <<>>
    BY <1>1, <1>2, <1>3, <1>5 DEF EndsAs, QueueOk
  <2> QED BY <1>1, <1>2, <1>5, <2>1, FinishEnds
<1>6. CASE /\ ~Of.disabled /\ Of.locked /\ frames' = <<>>
           /\ lists' = [lists EXCEPT ![L] =
                          IF Of.memory # NoData THEN [d EXCEPT !.list = <<>>] ELSE Disable(d)]
  <2>0. Of.stack = <<>>
    BY <1>1, <1>6 DEF QueueOk
  <2>1. CASE Of.memory # NoData
    <3>1. PICK g : g = [d EXCEPT !.list = <<>>]
      OBVIOUS
    <3>2. /\ g \in OneVars /\ g.options = Of.options /\ ~g.firing /\ g.firingStart = Of.firingStart
          /\ g.disabled = Of.disabled /\ g.stack = Of.stack /\ g.memory = Of.memory /\ g.list = <<>>
      <4>1. g = [[Of EXCEPT !.firing = FALSE] EXCEPT !.list = <<>>]
        BY <1>3, <3>1
      <4>2. <<>> \in Seq(Data)
        OBVIOUS
      <4> QED BY <1>1, <4>1, <4>2, OneEnds
    <3>3. EndsAs(g)
      BY <1>1, <1>2, <2>0, <3>2 DEF EndsAs, QueueOk
    <3> QED BY <1>1, <1>2, <1>6, <2>0, <2>1, <3>1, <3>3, FinishEnds
  <2>2. CASE Of.memory = NoData
    <3>1. PICK g : g = Disable(d)
      OBVIOUS
    <3>2. /\ g \in OneVars /\ Alike(d, g) /\ g.disabled /\ g.list = <<>>
          /\ g.stack = <<>> /\ g.memory = NoData
      BY <3>1, OneDisabled
    <3>3. EndsAs(g)
      BY <1>1, <1>3, <2>2, <3>2 DEF EndsAs, Alike, QueueOk
    <3> QED BY <1>1, <1>2, <1>6, <2>0, <2>2, <3>1, <3>3, FinishEnds
  <2> QED BY <2>1, <2>2
<1> QED
  BY <1>1, <1>2, <1>3, <1>4, <1>5, <1>6 DEF Finish

-----------------------------------------------------------------------------
LEMMA ListStarts ==
    ASSUME ListInit PROVE ListIInv /\ Dispatcher!Init
<1>1. PICK options \in Options : lists = [l \in {L} |-> New(options)]
  BY DEF ListInit
<1>2. <<>> \in Seq(Fn) /\ <<>> \in Seq(Data) /\ options.once \in BOOLEAN
  BY DEF Options
<1>3. PICK d : d = New(options)
  OBVIOUS
<1>4. /\ d \in OneVars /\ d.options = options /\ d.list = <<>> /\ d.stack = <<>> /\ ~d.disabled
      /\ d.memory = NoData /\ ~d.firing /\ d.firingStart = 0
  BY <1>2, <1>3 DEF New, OneVars
<1>5. lists \in [{L} -> OneVars] /\ Of = d
  BY <1>1, <1>3, <1>4 DEF Of
<1>6. frames = <<>> /\ At = "none" /\ OneFrame /\ ops = 0 /\ thrown = FALSE /\ emptied = FALSE
  BY DEF ListInit, At, OneFrame
<1>7. QueueOk(Of, At, emptied) /\ LoopInList(Of, At, emptied)
  BY <1>4, <1>5, <1>6 DEF QueueOk, LoopInList
<1>8. ops \in 0 .. MaxOps
  BY <1>6, CallbacksAssumption
<1>9. ListIInv
  BY <1>5, <1>6, <1>7, <1>8 DEF ListIInv, ListOk
<1>10. Batch = <<>>
  BY <1>4, <1>5 DEF Batch
<1>11. d.options.stopOnFalse \in BOOLEAN
  BY <1>4 DEF Options
<1> QED
  BY <1>4, <1>5, <1>6, <1>9, <1>10, <1>11 DEF Dispatcher!Init

LEMMA ListSteps ==
    ASSUME ListIInv, [ListNext]_listVars PROVE ListIInv' /\ Steps
<1>1. ASSUME NEW f \in Fn, Add(L, f), UNCHANGED emptied PROVE ListIInv' /\ Steps
  BY <1>1, AddStep
<1>2. ASSUME NEW f \in Fn, Remove(L, f), UNCHANGED emptied PROVE ListIInv' /\ Steps
  BY <1>2, RemoveStep
<1>3. ASSUME NEW v \in Data, FireWith(L, v), UNCHANGED emptied PROVE ListIInv' /\ Steps
  BY <1>3, FireWithStep
<1>4. CASE DisableList(L) /\ UNCHANGED emptied
  BY <1>4, DisableStep
<1>5. CASE LockList(L) /\ UNCHANGED emptied
  BY <1>5, LockStep
<1>6. CASE CallNext /\ UNCHANGED emptied
  BY <1>6, CallNextStep
<1>7. ASSUME NEW false \in BOOLEAN, Return(false), UNCHANGED emptied PROVE ListIInv' /\ Steps
  BY <1>7, ListReturns
<1>8. CASE Throw /\ UNCHANGED emptied
  BY <1>8, ListThrows
<1>9. CASE Empty(L) /\ emptied' = Of.firing
  BY <1>9, EmptyStep
<1>10. CASE Finish /\ emptied' = FALSE
  BY <1>10, ListFinishes
<1>11. CASE UNCHANGED listVars
  BY <1>11, Idles DEF listVars, vars, ListIInv
<1> QED
  BY <1>1, <1>2, <1>3, <1>4, <1>5, <1>6, <1>7, <1>8, <1>9, <1>10, <1>11 DEF ListNext

LEMMA ListMeans ==
    ASSUME ListIInv PROVE ListInv
<1>1. /\ Of \in OneVars /\ QueueOk(Of, At, emptied) /\ LoopInList(Of, At, emptied) /\ OneFrame
      /\ lists \in [{L} -> OneVars] /\ lists[L] = Of /\ DOMAIN lists = {L}
  BY HeldIs DEF ListOk
<1>2. TypeOK
  <2>1. /\ Of.list \in Seq(Callable) /\ Of.stack \in Seq(Data)
        /\ {Of.memory, Of.data} \subseteq Data \cup {NoData}
        /\ Of.firingStart \in Nat /\ Of.firingLength \in Nat /\ Of.firingIndex \in Int
    <3>1. Seq(Fn) \subseteq Seq(Callable)
      BY DEF Callable
    <3> QED BY <1>1, <3>1, OneAre
  <2>2. ASSUME NEW i \in DOMAIN frames
        PROVE  /\ frames[i].of \in DOMAIN lists /\ lists[frames[i].of].firing
               /\ frames[i].at \in {"loop", "call", "break"} /\ frames[i].fn \in Called
               /\ \A j \in DOMAIN frames : frames[i].of = frames[j].of => i = j
    <3>1. frames # <<>>
      BY <2>2
    <3>2. At # "none" /\ frames = <<FrameOf(At, Top.fn)>> /\ Top.fn \in Called /\ At \in {"loop", "call", "break"}
      <4>1. PICK at \in {"loop", "call", "break"}, fn \in Called : frames = <<FrameOf(at, fn)>>
        BY <1>1, <3>1 DEF OneFrame
      <4>2. At = at
        BY <3>1, <4>1, FrameHas DEF At
      <4>3. At # "none"
        BY <4>2
      <4> QED BY <1>1, <4>2, <4>3, AtIs
    <3>3. DOMAIN frames = {1} /\ frames[1] = FrameOf(At, Top.fn)
      BY <3>2
    <3>4. Of.firing
      BY <1>1, <3>2 DEF QueueOk
    <3> QED BY <1>1, <3>2, <3>3, <3>4, FrameHas
  <2> QED BY <1>1, <2>1, <2>2 DEF TypeOK, ListIInv, Called
<1>3. IndexesFollow
  <2>1. FrameAt("loop") <=> At = "loop"
    <3>1. CASE frames = <<>>
      BY <3>1 DEF FrameAt, At
    <3>2. CASE frames # <<>>
      <4>1. Len(frames) = 1 /\ frames = <<FrameOf(At, Top.fn)>>
        BY <1>1, <3>2, AtIs DEF At
      <4>2. DOMAIN frames = {1} /\ frames[1].of = L /\ frames[1].at = At
        BY <4>1, FrameHas
      <4> QED BY <4>2 DEF FrameAt
    <3> QED BY <3>1, <3>2
  <2>2. Of.firingIndex \in Int /\ Len(Of.list) \in Nat
    BY <1>1, OneAre
  <2>3. Taken(Of, At) = Of.firingIndex + (IF FrameAt("loop") THEN 0 ELSE 1)
    BY <2>1 DEF Taken
  <2>4. SUFFICES ASSUME Of.firing, ~Of.disabled
                 PROVE  /\ Of.firingLength = Len(Of.list)
                        /\ Of.firingIndex >= IF FrameAt("loop") THEN 0 ELSE -1
                        /\ emptied \/ Of.firingIndex <= Len(Of.list) - (IF FrameAt("loop") THEN 0 ELSE 1)
    BY DEF IndexesFollow
  <2>5. /\ Of.firingLength = Len(Of.list) /\ Taken(Of, At) >= 0
        /\ emptied \/ Taken(Of, At) <= Len(Of.list)
    BY <1>1, <2>4 DEF LoopInList
  <2>6. CASE FrameAt("loop")
    BY <2>2, <2>3, <2>5, <2>6
  <2>7. CASE ~FrameAt("loop")
    BY <2>2, <2>3, <2>5, <2>7
  <2> QED BY <2>6, <2>7
<1> QED
  BY <1>2, <1>3 DEF ListInv

\* A list never fires inside its own fire, its loop ends with the list, never
\* reads before its start nor, unless the list was emptied, beyond its end.
THEOREM CallbackListInv == ListSpec => []ListInv
<1>1. ListInit => ListIInv
  BY ListStarts
<1>2. ListIInv /\ [ListNext]_listVars => ListIInv'
  BY ListSteps
<1>3. ListIInv => ListInv
  BY ListMeans
<1> QED
  BY <1>1, <1>2, <1>3, PTL DEF ListSpec

\* Every member of a batch is called once and in order, who joins meanwhile too,
\* who leaves is not, and the batches are delivered in the order they were given.
THEOREM CallbackListImplements == ListSpec => ImplementsDispatch
<1>1. ListInit => ListIInv /\ Dispatcher!Init
  BY ListStarts
<1>2. ListIInv /\ [ListNext]_listVars => ListIInv' /\ [Dispatcher!Next]_(Dispatcher!vars)
  BY ListSteps DEF Steps
<1> QED
  BY <1>1, <1>2, PTL DEF ListSpec, ImplementsDispatch, Dispatcher!Spec
=============================================================================
