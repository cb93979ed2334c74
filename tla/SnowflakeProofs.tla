-------------------------- MODULE SnowflakeProofs --------------------------
(***************************************************************************)
(* Uniqueness and order of the ids for any number of generators, any field *)
(* widths and any clock, as long as no behaviour both sets clocks back and  *)
(* restarts processes.                                                     *)
(***************************************************************************)
EXTENDS SnowflakeIdGenerator, TLAPS

OneFault == \A F \in Faults : ~ {"back", "restart"} \subseteq F

Before(x, y) == x.time < y.time \/ (x.time = y.time /\ x.seq < y.seq)

\* What a generator knows of the ids it has made: they are from before its
\* last millisecond, or from that millisecond with smaller numbers.
Known(x) ==
    LET g == x.gen IN
    \/ lastTimestamp[g] = -1 /\ "restart" \in faults /\ x.time < clock
    \/ x.time < lastTimestamp[g]
    \/ x.time = lastTimestamp[g] /\ (g \in waiting \/ x.seq <= sequence[g])

FieldsOk ==
    /\ \A g \in waiting : sequence[g] = 0 /\ lastTimestamp[g] # -1
    /\ "back" \notin faults => \A g \in Generator : lastTimestamp[g] <= clock

IssuedOk ==
    /\ \A x \in issued : x.call < calls[x.gen] /\ Known(x)
    /\ \A x, y \in issued : x.gen = y.gen /\ x.call < y.call => Before(x, y)
    /\ \A x, y \in issued : x.gen = y.gen /\ x.call = y.call => x = y

IInv == TypeOK /\ FieldsOk /\ IssuedOk
-----------------------------------------------------------------------------
LEMMA ScaleLess ==
    ASSUME NEW a \in Int, NEW b \in Int, NEW k \in Nat \ {0}, a < b
    PROVE  a * k + k <= b * k
<1>1. PICK d \in Nat : b = a + 1 + d
  <2>1. b - a - 1 \in Nat /\ b = a + 1 + (b - a - 1)
    OBVIOUS
  <2> QED
    BY <2>1
<1>2. b * k = a * k + k + d * k
  BY <1>1
<1>3. d * k >= 0
  OBVIOUS
<1> QED
  BY <1>2, <1>3

\* Ids compare as their fields do, the time first.
LEMMA IdOrder ==
    ASSUME NEW x \in Issued, NEW y \in Issued
    PROVE  /\ x.time < y.time => Id(x) < Id(y)
           /\ x.time = y.time /\ NodeId[x.gen] < NodeId[y.gen] => Id(x) < Id(y)
           /\ x.time = y.time /\ x.gen = y.gen /\ x.seq < y.seq => Id(x) < Id(y)
<1> DEFINE top(z) == z.time * NodeCount + NodeId[z.gen]
<1>0. /\ NodeCount \in Nat \ {0} /\ SeqCount \in Nat \ {0}
      /\ NodeId[x.gen] \in 0 .. NodeCount - 1 /\ NodeId[y.gen] \in 0 .. NodeCount - 1
      /\ x.time \in Nat /\ y.time \in Nat
      /\ x.seq \in 0 .. SeqCount - 1 /\ y.seq \in 0 .. SeqCount - 1
  BY SnowflakeAssumption DEF Issued
<1>1. top(x) \in Nat /\ top(y) \in Nat
  BY <1>0
<1>2. top(x) < top(y) => top(x) * SeqCount + x.seq < top(y) * SeqCount + y.seq
  <2> HAVE top(x) < top(y)
  <2> HIDE DEF top
  <2>1. top(x) * SeqCount + SeqCount <= top(y) * SeqCount
    BY <1>0, <1>1, ScaleLess
  <2>2. top(x) * SeqCount \in Nat /\ top(y) * SeqCount \in Nat
    BY <1>0, <1>1
  <2> QED
    BY <1>0, <2>1, <2>2
<1>3. x.time < y.time => top(x) < top(y)
  <2> HAVE x.time < y.time
  <2>1. x.time * NodeCount + NodeCount <= y.time * NodeCount
    BY <1>0, ScaleLess
  <2> QED
    BY <1>0, <2>1
<1>4. Id(x) = top(x) * SeqCount + x.seq /\ Id(y) = top(y) * SeqCount + y.seq
  BY DEF Id
<1>5. x.time = y.time /\ NodeId[x.gen] < NodeId[y.gen] => top(x) < top(y)
  BY <1>0
<1>6. x.time = y.time /\ x.gen = y.gen /\ x.seq < y.seq => Id(x) < Id(y)
  <2> HAVE x.time = y.time /\ x.gen = y.gen /\ x.seq < y.seq
  <2>1. top(x) = top(y)
    OBVIOUS
  <2>2. top(x) * SeqCount \in Nat
    BY <1>0, <1>1
  <2> HIDE DEF top
  <2> QED
    BY <1>0, <1>4, <2>1, <2>2
<1> QED
  BY <1>2, <1>3, <1>4, <1>5, <1>6

LEMMA TypeOKStep == TypeOK /\ [Next]_vars => TypeOK'
<1> SUFFICES ASSUME TypeOK, [Next]_vars PROVE TypeOK'
  OBVIOUS
<1> USE SnowflakeAssumption DEF TypeOK, Issued
<1>1. ASSUME NEW g \in Generator, NEW seq \in 0 .. SeqCount - 1, Return(g, seq)
      PROVE /\ lastTimestamp' \in [Generator -> Nat \cup {-1}]
            /\ sequence' \in [Generator -> 0 .. SeqCount - 1]
            /\ calls' \in [Generator -> Nat]
            /\ issued' \subseteq Issued
  BY <1>1 DEF Return
<1>2. ASSUME NEW g \in Generator PROVE NextSequence(g) \in 0 .. SeqCount - 1
  BY DEF NextSequence
<1>3. 0 \in 0 .. SeqCount - 1
  OBVIOUS
<1>4. ASSUME NEW g \in Generator, NextIdNewMs(g) PROVE TypeOK'
  BY <1>1, <1>3, <1>4 DEF NextIdNewMs
<1>5. ASSUME NEW g \in Generator, NextIdSameMs(g) PROVE TypeOK'
  BY <1>1, <1>2, <1>5 DEF NextIdSameMs
<1>6. ASSUME NEW g \in Generator, NextIdExhausted(g) PROVE TypeOK'
  BY <1>3, <1>6 DEF NextIdExhausted
<1>7. ASSUME NEW g \in Generator, GetNextMs(g) PROVE TypeOK'
  BY <1>1, <1>7 DEF GetNextMs
<1>8. ASSUME NEW g \in Generator, Restart(g) PROVE TypeOK'
  BY <1>3, <1>8 DEF Restart
<1>9. CASE Tick \/ SetBack
  BY <1>9 DEF Tick, SetBack
<1>10. CASE UNCHANGED vars
  BY <1>10 DEF vars
<1> QED
  BY <1>4, <1>5, <1>6, <1>7, <1>8, <1>9, <1>10 DEF Next, NextId

LEMMA FieldsOkStep == TypeOK /\ FieldsOk /\ [Next]_vars => FieldsOk'
<1> SUFFICES ASSUME TypeOK, FieldsOk, [Next]_vars PROVE FieldsOk'
  OBVIOUS
<1> USE DEF TypeOK, FieldsOk, Return
<1>1. ASSUME NEW g \in Generator, NextIdNewMs(g) PROVE FieldsOk'
  BY <1>1 DEF NextIdNewMs
<1>2. ASSUME NEW g \in Generator, NextIdSameMs(g) PROVE FieldsOk'
  BY <1>2 DEF NextIdSameMs
<1>3. ASSUME NEW g \in Generator, NextIdExhausted(g) PROVE FieldsOk'
  BY <1>3 DEF NextIdExhausted
<1>4. ASSUME NEW g \in Generator, GetNextMs(g) PROVE FieldsOk'
  BY <1>4 DEF GetNextMs
<1>5. ASSUME NEW g \in Generator, Restart(g) PROVE FieldsOk'
  BY <1>5 DEF Restart
<1>6. CASE Tick \/ SetBack
  BY <1>6 DEF Tick, SetBack
<1>7. CASE UNCHANGED vars
  BY <1>7 DEF vars
<1> QED
  BY <1>1, <1>2, <1>3, <1>4, <1>5, <1>6, <1>7 DEF Next, NextId

\* A call that returns adds an id behind all the ids of its generator.
LEMMA ReturnStep ==
    ASSUME IInv, NEW g \in Generator, NEW seq \in 0 .. SeqCount - 1, Return(g, seq),
           UNCHANGED <<faults, clock>>, waiting' = waiting \ {g},
           \A x \in issued : x.gen = g =>
               x.time < clock \/ (x.time = clock /\ x.seq < seq)
    PROVE  IssuedOk'
<1> DEFINE z == [gen |-> g, call |-> calls[g], time |-> clock, seq |-> seq]
<1>1. issued' = issued \cup {z} /\ calls' = [calls EXCEPT ![g] = @ + 1]
  BY DEF Return
<1>2. \A x \in issued : x.gen \in Generator /\ x.time \in Nat /\ x.call \in Nat
                        /\ x.seq \in Nat /\ x.call < calls[x.gen]
  BY SnowflakeAssumption DEF IInv, IssuedOk, TypeOK, Issued
<1>3. \A x \in issued' : x.call < calls'[x.gen]
  BY <1>1, <1>2 DEF IInv, TypeOK
<1>4. \A x \in issued' : Known(x)'
  <2> SUFFICES ASSUME NEW x \in issued' PROVE Known(x)'
    OBVIOUS
  <2>1. lastTimestamp' = [lastTimestamp EXCEPT ![g] = clock]
        /\ sequence' = [sequence EXCEPT ![g] = seq]
    BY DEF Return
  <2>2. CASE x = z
    BY <2>1, <2>2 DEF Known, IInv, TypeOK
  <2>3. CASE x \in issued /\ x.gen = g
    BY <1>2, <2>1, <2>3 DEF Known, IInv, TypeOK
  <2>4. CASE x \in issued /\ x.gen # g
    BY <1>2, <2>1, <2>4 DEF Known, IInv, IssuedOk, TypeOK
  <2> QED
    BY <1>1, <2>2, <2>3, <2>4
<1>5. \A x, y \in issued' : x.gen = y.gen /\ x.call < y.call => Before(x, y)
  <2> SUFFICES ASSUME NEW x \in issued', NEW y \in issued',
                      x.gen = y.gen, x.call < y.call
               PROVE Before(x, y)
    OBVIOUS
  <2>1. CASE x \in issued /\ y \in issued
    BY <2>1 DEF IInv, IssuedOk
  <2>2. CASE x \in issued /\ y = z
    BY <2>2 DEF Before
  <2>3. CASE x = z /\ y \in issued
    BY <1>2, <2>3 DEF IInv, TypeOK
  <2> QED
    BY <1>1, <2>1, <2>2, <2>3 DEF IInv, TypeOK
<1>6. \A x, y \in issued' : x.gen = y.gen /\ x.call = y.call => x = y
  <2> SUFFICES ASSUME NEW x \in issued', NEW y \in issued',
                      x.gen = y.gen, x.call = y.call
               PROVE x = y
    OBVIOUS
  <2>1. CASE x \in issued /\ y \in issued
    BY <2>1 DEF IInv, IssuedOk
  <2>2. CASE x = z \/ y = z
    BY <1>1, <1>2, <2>2 DEF IInv, TypeOK
  <2> QED
    BY <1>1, <2>1, <2>2
<1> QED
  BY <1>3, <1>4, <1>5, <1>6 DEF IssuedOk

LEMMA IssuedOkStep == OneFault /\ IInv /\ [Next]_vars => IssuedOk'
<1> SUFFICES ASSUME OneFault, IInv, [Next]_vars PROVE IssuedOk'
  OBVIOUS
<1> USE DEF IInv
<1>0. \A x \in issued : x.gen \in Generator /\ x.time \in Nat /\ x.seq \in Nat
  BY SnowflakeAssumption DEF TypeOK, Issued
<1>1. ASSUME NEW g \in Generator, NextIdNewMs(g) PROVE IssuedOk'
  <2>1. \A x \in issued : x.gen = g => x.time < clock
    BY <1>0, <1>1 DEF NextIdNewMs, IssuedOk, Known, TypeOK
  <2>2. 0 \in 0 .. SeqCount - 1 /\ waiting' = waiting \ {g}
    BY <1>1, SnowflakeAssumption DEF NextIdNewMs
  <2> QED
    BY <1>1, <2>1, <2>2, ReturnStep DEF NextIdNewMs
<1>2. ASSUME NEW g \in Generator, NextIdSameMs(g) PROVE IssuedOk'
  <2>1. NextSequence(g) = sequence[g] + 1 /\ NextSequence(g) \in 0 .. SeqCount - 1
    BY <1>2, SnowflakeAssumption DEF NextIdSameMs, NextSequence, TypeOK
  <2>2. clock = lastTimestamp[g] /\ clock \in Nat /\ g \notin waiting /\ sequence[g] \in Nat
    BY <1>2, SnowflakeAssumption DEF NextIdSameMs, TypeOK
  <2>3. \A x \in issued : x.gen = g =>
            x.time < clock \/ (x.time = clock /\ x.seq < NextSequence(g))
    BY <1>0, <2>1, <2>2 DEF IssuedOk, Known
  <2>4. waiting' = waiting \ {g} /\ UNCHANGED <<faults, clock>>
    BY <1>2, <2>2 DEF NextIdSameMs
  <2>5. Return(g, NextSequence(g))
    BY <1>2 DEF NextIdSameMs
  <2> QED
    BY <2>1, <2>3, <2>4, <2>5, ReturnStep
<1>3. ASSUME NEW g \in Generator, NextIdExhausted(g) PROVE IssuedOk'
  <2>1. \A x \in issued : Known(x)'
    BY <1>0, <1>3 DEF NextIdExhausted, IssuedOk, Known, TypeOK
  <2> QED
    BY <1>3, <2>1 DEF NextIdExhausted, IssuedOk, Before
<1>4. ASSUME NEW g \in Generator, GetNextMs(g) PROVE IssuedOk'
  <2>1. lastTimestamp[g] # -1 /\ clock > lastTimestamp[g]
    BY <1>4 DEF GetNextMs, FieldsOk
  <2>2. \A x \in issued : x.gen = g => x.time < clock
    BY <1>0, <2>1 DEF IssuedOk, Known, TypeOK
  <2>3. sequence[g] \in 0 .. SeqCount - 1
    BY DEF TypeOK
  <2> QED
    BY <1>4, <2>2, <2>3, ReturnStep DEF GetNextMs
<1>5. ASSUME NEW g \in Generator, Restart(g) PROVE IssuedOk'
  <2>1. \A x \in issued : Known(x)'
    BY <1>0, <1>5 DEF Restart, IssuedOk, FieldsOk, Known, TypeOK, OneFault
  <2> QED
    BY <1>5, <2>1 DEF Restart, IssuedOk, Before
<1>6. CASE Tick \/ SetBack
  <2>1. \A x \in issued : Known(x)'
    BY <1>0, <1>6 DEF Tick, SetBack, IssuedOk, Known, TypeOK, OneFault
  <2> QED
    BY <1>6, <2>1 DEF Tick, SetBack, IssuedOk, Before
<1>7. CASE UNCHANGED vars
  BY <1>7 DEF vars, IssuedOk, Known, Before
<1> QED
  BY <1>1, <1>2, <1>3, <1>4, <1>5, <1>6, <1>7 DEF Next, NextId

LEMMA IInvHolds == ASSUME OneFault PROVE Spec => []IInv
<1>1. Init => IInv
  BY SnowflakeAssumption DEF Init, IInv, TypeOK, FieldsOk, IssuedOk
<1>2. IInv /\ [Next]_vars => IInv'
  BY OneFault, TypeOKStep, FieldsOkStep, IssuedOkStep DEF IInv
<1> QED
  BY <1>1, <1>2, PTL DEF Spec

\* The fields of the generator keep their types under every fault.
THEOREM SnowflakeTypeOK == Spec => []TypeOK
<1>1. Init => TypeOK
  BY SnowflakeAssumption DEF Init, TypeOK
<1> QED
  BY <1>1, TypeOKStep, PTL DEF Spec

\* nextId: the ids of one generator grow, for every clock and every width of
\* the fields, unless the clock is set back across a restart.
THEOREM SnowflakeIncreasing == ASSUME OneFault PROVE Spec => []IncreasingIds
<1>1. IInv => IncreasingIds
  <2> SUFFICES ASSUME IInv, NEW x \in issued, NEW y \in issued,
                      x.gen = y.gen, x.call < y.call
               PROVE Id(x) < Id(y)
    BY DEF IncreasingIds
  <2>1. Before(x, y) /\ x \in Issued /\ y \in Issued
    BY DEF IInv, IssuedOk, TypeOK
  <2> QED
    BY <2>1, IdOrder DEF Before
<1> QED
  BY OneFault, <1>1, IInvHolds, PTL

\* nextId: no id is returned twice by any of the generators.
THEOREM SnowflakeUnique == ASSUME OneFault PROVE Spec => []UniqueIds
<1>1. IInv => UniqueIds
  <2> SUFFICES ASSUME IInv, NEW x \in issued, NEW y \in issued, Id(x) = Id(y), x # y
               PROVE FALSE
    BY DEF UniqueIds
  <2>1. x \in Issued /\ y \in Issued
    BY DEF IInv, TypeOK
  <2>2. /\ x.time \in Nat /\ y.time \in Nat /\ x.call \in Nat /\ y.call \in Nat
        /\ x.gen \in Generator /\ y.gen \in Generator
        /\ NodeId[x.gen] \in Int /\ NodeId[y.gen] \in Int
    BY <2>1, SnowflakeAssumption DEF Issued
  <2>3. Id(x) \in Int /\ Id(y) \in Int
    BY <2>1, <2>2, SnowflakeAssumption DEF Id, Issued
  <2>4. x.time = y.time
    BY <2>1, <2>2, <2>3, IdOrder
  <2>5. x.gen = y.gen
    BY <2>1, <2>2, <2>3, <2>4, IdOrder, SnowflakeAssumption
  <2>6. x.call # y.call
    BY <2>5 DEF IInv, IssuedOk
  <2>7. Before(x, y) \/ Before(y, x)
    BY <2>2, <2>5, <2>6 DEF IInv, IssuedOk
  <2> QED
    BY <2>1, <2>3, <2>4, <2>5, <2>7, IdOrder DEF Before
<1> QED
  BY OneFault, <1>1, IInvHolds, PTL
=============================================================================
