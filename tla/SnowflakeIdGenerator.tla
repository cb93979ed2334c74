------------------------ MODULE SnowflakeIdGenerator ------------------------
(***************************************************************************)
(* com.hewentian.util.SnowflakeIdGenerator: ids of time, node and sequence *)
(* number.  nextId is synchronized, so a call is one step, except when the *)
(* numbers of a millisecond are used up and it waits, holding the monitor, *)
(* for the next one.  A call that finds the clock behind lastTimestamp     *)
(* throws and changes nothing, so it is no step.                           *)
(*                                                                         *)
(* Time is in milliseconds since startPoint.  Clocks before startPoint and *)
(* beyond its 41 bits (the year 2089) are left out.                        *)
(***************************************************************************)
EXTENDS Integers, FiniteSets

CONSTANTS
    Generator,  \* the generators, each in a process of its own
    NodeId,     \* dataCenterId and workerId of a generator, as one number
    NodeCount,  \* 2^(dataCenterIdBits + workerIdBits)
    SeqCount,   \* sequenceMask + 1
    MaxTime,    \* bound of the clock, for model checking
    Faults      \* what may go wrong: sets of "back" and "restart", one per behaviour

ASSUME SnowflakeAssumption ==
    /\ NodeCount \in Nat \ {0}
    /\ SeqCount \in Nat \ {0}
    /\ MaxTime \in Nat
    /\ NodeId \in [Generator -> 0 .. NodeCount - 1]
    /\ \A g, h \in Generator : NodeId[g] = NodeId[h] => g = h
    /\ Faults \subseteq SUBSET {"back", "restart"}

VARIABLES
    faults,         \* what goes wrong in this behaviour, one of Faults
    clock,          \* System.currentTimeMillis of the machines
    lastTimestamp,
    sequence,
    waiting,        \* the generators with a call inside getNextMs
    calls,          \* number of ids a generator has returned
    issued          \* the ids returned: which, when, with what number

vars == <<faults, clock, lastTimestamp, sequence, waiting, calls, issued>>

Issued == [gen : Generator, call : Nat, time : Nat, seq : 0 .. SeqCount - 1]

\* The fields next to each other; they are disjoint, so | is +.
Id(x) == (x.time * NodeCount + NodeId[x.gen]) * SeqCount + x.seq

Init ==
    /\ faults \in Faults
    /\ clock = 0
    /\ lastTimestamp = [g \in Generator |-> -1]
    /\ sequence = [g \in Generator |-> 0]
    /\ waiting = {}
    /\ calls = [g \in Generator |-> 0]
    /\ issued = {}

Return(g, seq) ==
    /\ lastTimestamp' = [lastTimestamp EXCEPT ![g] = clock]
    /\ sequence' = [sequence EXCEPT ![g] = seq]
    /\ calls' = [calls EXCEPT ![g] = @ + 1]
    /\ issued' = issued \cup {[gen |-> g, call |-> calls[g], time |-> clock, seq |-> seq]}

\* (sequence + 1) & sequenceMask
NextSequence(g) == IF sequence[g] + 1 = SeqCount THEN 0 ELSE sequence[g] + 1

\* Mutant: an equal clock is taken for a new millisecond.
NextIdNewMs_NotStrict(g) ==
    /\ g \notin waiting
    /\ clock >= lastTimestamp[g]
    /\ Return(g, 0)
    /\ UNCHANGED <<faults, clock, waiting>>

NextIdNewMs(g) ==
    /\ g \notin waiting
    /\ clock > lastTimestamp[g]
    /\ Return(g, 0)
    /\ UNCHANGED <<faults, clock, waiting>>

NextIdSameMs(g) ==
    /\ g \notin waiting
    /\ clock = lastTimestamp[g]
    /\ NextSequence(g) # 0
    /\ Return(g, NextSequence(g))
    /\ UNCHANGED <<faults, clock, waiting>>

\* The numbers of this millisecond are used up: sequence is already 0 when the
\* call starts to wait.
NextIdExhausted(g) ==
    /\ g \notin waiting
    /\ clock = lastTimestamp[g]
    /\ NextSequence(g) = 0
    /\ sequence' = [sequence EXCEPT ![g] = 0]
    /\ waiting' = waiting \cup {g}
    /\ UNCHANGED <<faults, clock, lastTimestamp, calls, issued>>

\* Mutant: the loop stops at the same millisecond.
GetNextMs_NotStrict(g) ==
    /\ g \in waiting
    /\ clock >= lastTimestamp[g]
    /\ Return(g, sequence[g])
    /\ waiting' = waiting \ {g}
    /\ UNCHANGED <<faults, clock>>

\* Mutant: the loop looks at a clock it read once.
GetNextMs_Stuck(g) ==
    /\ g \in waiting
    /\ clock < lastTimestamp[g]
    /\ Return(g, sequence[g])
    /\ waiting' = waiting \ {g}
    /\ UNCHANGED <<faults, clock>>

GetNextMs(g) ==
    /\ g \in waiting
    /\ clock > lastTimestamp[g]
    /\ Return(g, sequence[g])
    /\ waiting' = waiting \ {g}
    /\ UNCHANGED <<faults, clock>>

Tick ==
    /\ clock < MaxTime
    /\ clock' = clock + 1
    /\ UNCHANGED <<faults, lastTimestamp, sequence, waiting, calls, issued>>

\* The clock is set back.
SetBack ==
    /\ "back" \in faults
    /\ clock' \in 0 .. clock - 1
    /\ UNCHANGED <<faults, lastTimestamp, sequence, waiting, calls, issued>>

\* A new process with the same ids starts from the initial values of the
\* fields; that takes at least one millisecond.
Restart(g) ==
    /\ "restart" \in faults
    /\ clock < MaxTime
    /\ clock' = clock + 1
    /\ lastTimestamp' = [lastTimestamp EXCEPT ![g] = -1]
    /\ sequence' = [sequence EXCEPT ![g] = 0]
    /\ waiting' = waiting \ {g}
    /\ UNCHANGED <<faults, calls, issued>>

NextId(g) == NextIdNewMs(g) \/ NextIdSameMs(g) \/ NextIdExhausted(g) \/ GetNextMs(g)

Next ==
    \/ Tick \/ SetBack
    \/ \E g \in Generator : NextId(g) \/ Restart(g)

Spec == Init /\ [][Next]_vars

\* Time passes and a call that can go on does.
FairSpec == Spec /\ WF_vars(Tick) /\ \A g \in Generator : WF_vars(GetNextMs(g))
-----------------------------------------------------------------------------
\* The variables have the types their comments say.
TypeOK ==
    /\ faults \in Faults
    /\ clock \in Nat
    /\ lastTimestamp \in [Generator -> Nat \cup {-1}]
    /\ sequence \in [Generator -> 0 .. SeqCount - 1]
    /\ waiting \subseteq Generator
    /\ calls \in [Generator -> Nat]
    /\ issued \subseteq Issued

\* No two calls of nextId, on one generator or on two, return the same id,
\* although the sequence wraps and the clock may be set back.
UniqueIds == \A x, y \in issued : Id(x) = Id(y) => x = y

\* The ids of one generator grow from call to call.
IncreasingIds ==
    \A x, y \in issued : x.gen = y.gen /\ x.call < y.call => Id(x) < Id(y)

\* getNextMs: a call that waits for the next millisecond returns while there
\* is one, also when the clock is set back under it, unless that goes on
\* happening for ever.
WaitEnds ==
    \A g \in Generator :
        <>[][~SetBack]_clock =>
            (g \in waiting /\ lastTimestamp[g] < MaxTime ~> g \notin waiting)
=============================================================================
