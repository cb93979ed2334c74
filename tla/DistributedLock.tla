-------------------------- MODULE DistributedLock --------------------------
(***************************************************************************)
(* The ZooKeeper lock of com.hewentian.zookeeper.lock: every client is one *)
(* thread of TestLock running LockService.doService with a session of its  *)
(* own, one DistributedLock and one LockWatcher.  The event thread of a    *)
(* session takes over where the first thread returned, so one program      *)
(* counter per client stands for both.                                     *)
(*                                                                         *)
(* A client creates at most one node under /disLocks, so the node is       *)
(* named by the client that owns it and ordered by its sequence number.    *)
(* Reads are linearizable: a read answered by a follower that lags equals  *)
(* the same read made earlier, and a session always sees its own writes.   *)
(***************************************************************************)
EXTENDS Integers, FiniteSets

CONSTANTS
    Client,         \* the threads that call LockService.doService
    Jvm,            \* the processes (one TestLock.main each)
    JvmOf,          \* the process a thread runs in
    ParentExists,   \* /disLocks is there before the first thread starts
    Faults          \* the faults that may occur, a subset of FaultKind

FaultKind == {"connloss", "expiry", "throw", "crash"}

ASSUME LockAssumption ==
    /\ IsFiniteSet(Client)
    /\ JvmOf \in [Client -> Jvm]
    /\ ParentExists \in BOOLEAN
    /\ Faults \subseteq FaultKind

VARIABLES
    parent,     \* ZooKeeper: /disLocks exists
    znode,      \* ZooKeeper: owners of the nodes now under /disLocks
    ticket,     \* ZooKeeper: sequence number of a client's node, 0 if none yet
    counter,    \* ZooKeeper: next sequence number of /disLocks
    session,    \* each client's session: "left" if only the client knows it is over
    watch,      \* ZooKeeper: the clients with a data watch on waitPath[c]
    event,      \* deleted nodes whose NodeDeleted event c has not handled yet
    flag,       \* hasCreateParentPath, static in each process
    target,     \* the Boolean object the thread synchronizes on
    waitPath,   \* DistributedLock.waitPath
    onEvent,    \* clients whose code runs in the daemon event thread
    pc,         \* the call the client makes next
    latch,      \* TestLock.latch
    main        \* the thread of TestLock.main

zkVars   == <<parent, znode, ticket, counter, session, watch, event>>
jvmVars  == <<flag, latch, main>>
selfVars == <<target, waitPath, onEvent, pc>>
vars     == <<zkVars, jvmVars, selfVars>>

None == "none"

\* Inside the synchronized block, that is, holding the monitor of target[c].
Synchronized == {"existsParent", "raiseFlag", "createParent"}

Ended   == {"done", "aborted", "dead"}
Locking == {"getChildren", "getData", "existsWait", "await", "doInvoke"}
Pc      == {"connect", "readFlag", "enterMonitor", "createNode",
            "existsSelf", "delete", "close"}
           \cup Synchronized \cup Locking \cup Ended

ThreadsOf(j) == {c \in Client : JvmOf[c] = j}

Init ==
    /\ parent = ParentExists
    /\ znode = {}
    /\ ticket = [c \in Client |-> 0]
    /\ counter = 1
    /\ session = [c \in Client |-> "none"]
    /\ watch = {}
    /\ event = [c \in Client |-> {}]
    /\ flag = [j \in Jvm |-> FALSE]
    /\ target = [c \in Client |-> FALSE]
    /\ waitPath = [c \in Client |-> None]
    /\ onEvent = {}
    /\ pc = [c \in Client |-> "connect"]
    /\ latch = [j \in Jvm |-> Cardinality(ThreadsOf(j))]
    /\ main = [j \in Jvm |-> "await"]

-----------------------------------------------------------------------------
(***************************************************************************)
(* ZooKeeper, as the client code relies on it.                             *)
(***************************************************************************)
Open(c)     == session[c] = "open"
Kept(c)     == session[c] \in {"open", "left"}     \* by the server
MayThrow(c) == ~Open(c) \/ "connloss" \in Faults

\* Deleting the node of c fires, once, every watch set on it; a watch is only
\* ever set on a node that is there.
FireWatches(c) ==
    /\ znode' = znode \ {c}
    /\ event' = [d \in Client |->
                   IF d \in watch /\ waitPath[d] = c THEN event[d] \cup {c} ELSE event[d]]

RemoveNode(c) ==
    /\ FireWatches(c)
    /\ watch' = {d \in watch : waitPath[d] # c}

\* The end of a session removes its ephemeral node and its own watches.
EndSession(c) ==
    /\ session' = [session EXCEPT ![c] = "gone"]
    /\ FireWatches(c)
    /\ watch' = {d \in watch : waitPath[d] # c /\ d # c}
    /\ UNCHANGED <<parent, ticket, counter>>

\* Nobody pings any more: the process is gone, or the client closed the session
\* and the server does not know.
Silent(c) == pc[c] = "dead" \/ session[c] = "left"

\* The server gives up a session: at any time under the fault "expiry", and
\* in the end when nobody keeps it alive.
Expire(c) ==
    /\ Kept(c)
    /\ "expiry" \in Faults \/ Silent(c)
    /\ EndSession(c)
    /\ UNCHANGED <<jvmVars, selfVars>>

-----------------------------------------------------------------------------
Goto(c, label) == pc' = [pc EXCEPT ![c] = label]

\* A call that throws leaves doService or process: the exception is printed,
\* the session stays as it is, nothing is closed.
Throw(c) == MayThrow(c) /\ Goto(c, "aborted")

Connect(c) ==
    /\ pc[c] = "connect"
    /\ session' = [session EXCEPT ![c] = "open"]
    /\ Goto(c, "readFlag")
    /\ UNCHANGED <<parent, znode, ticket, counter, watch, event,
                   jvmVars, target, waitPath, onEvent>>

-----------------------------------------------------------------------------
(***************************************************************************)
(* DistributedLock.createParentPath                                        *)
(***************************************************************************)
\* synchronized (hasCreateParentPath) evaluates the field first ...
ReadFlag(c) ==
    /\ pc[c] = "readFlag"
    /\ target' = [target EXCEPT ![c] = flag[JvmOf[c]]]
    /\ Goto(c, "enterMonitor")
    /\ UNCHANGED <<zkVars, jvmVars, waitPath, onEvent>>

\* Mutant: no synchronized block.
EnterMonitor_Unsynchronized(c) ==
    /\ pc[c] = "enterMonitor"
    /\ Goto(c, "existsParent")
    /\ UNCHANGED <<zkVars, jvmVars, target, waitPath, onEvent>>

\* ... and then enters the monitor of the object it read.
EnterMonitor(c) ==
    /\ pc[c] = "enterMonitor"
    /\ \A d \in ThreadsOf(JvmOf[c]) : target[d] = target[c] => pc[d] \notin Synchronized
    /\ Goto(c, "existsParent")
    /\ UNCHANGED <<zkVars, jvmVars, target, waitPath, onEvent>>

ExistsParent(c) ==
    /\ pc[c] = "existsParent"
    /\ \/ Open(c) /\ ~parent /\ ~flag[JvmOf[c]] /\ Goto(c, "raiseFlag")
       \/ Open(c) /\ (parent \/ flag[JvmOf[c]]) /\ Goto(c, "createNode")
       \/ Throw(c)
    /\ UNCHANGED <<zkVars, jvmVars, target, waitPath, onEvent>>

\* The flag is raised before the node is created.
RaiseFlag(c) ==
    /\ pc[c] = "raiseFlag"
    /\ flag' = [flag EXCEPT ![JvmOf[c]] = TRUE]
    /\ Goto(c, "createParent")
    /\ UNCHANGED <<zkVars, latch, main, target, waitPath, onEvent>>

\* zk.create(GROUP_PATH): NodeExists if another process was faster; a lost
\* connection leaves open whether the node was created.
CreateParent(c) ==
    /\ pc[c] = "createParent"
    /\ \/ /\ Open(c) /\ ~parent
          /\ parent' = TRUE
          /\ Goto(c, "createNode")
       \/ /\ Open(c) /\ parent
          /\ Goto(c, "aborted")
          /\ UNCHANGED parent
       \/ /\ Throw(c)
          /\ UNCHANGED parent
       \/ /\ Open(c) /\ Throw(c)
          /\ parent' = TRUE
    /\ UNCHANGED <<znode, ticket, counter, session, watch, event,
                   jvmVars, target, waitPath, onEvent>>

-----------------------------------------------------------------------------
(***************************************************************************)
(* DistributedLock.getLock and checkMinPath                                *)
(***************************************************************************)
AddNode(c) ==
    /\ parent
    /\ ticket' = [ticket EXCEPT ![c] = counter]
    /\ counter' = counter + 1
    /\ znode' = znode \cup {c}

\* EPHEMERAL_SEQUENTIAL create: NoNode when /disLocks is missing.  A lost
\* connection may leave a node whose name the client never learns.
CreateNode(c) ==
    /\ pc[c] = "createNode"
    /\ \/ /\ Open(c)
          /\ AddNode(c)
          /\ Goto(c, "getChildren")
       \/ /\ Open(c) /\ ~parent
          /\ Goto(c, "aborted")
          /\ UNCHANGED <<znode, ticket, counter>>
       \/ /\ Throw(c)
          /\ UNCHANGED <<znode, ticket, counter>>
       \/ /\ Open(c) /\ Throw(c)
          /\ AddNode(c)
    /\ UNCHANGED <<parent, session, watch, event,
                   jvmVars, target, waitPath, onEvent>>

\* Mutant: index 1 counts as the front of the queue.
Ahead_OffByOne(c) == {d \in znode : ticket[d] < ticket[c] - 1}

Ahead(c) == {d \in znode : ticket[d] < ticket[c]}

\* Mutant: everybody waits for the first node of the queue.
JustBefore_First(c, d) == d \in Ahead(c) /\ \A e \in Ahead(c) : ticket[d] <= ticket[e]

JustBefore(c, d) == d \in Ahead(c) /\ \A e \in Ahead(c) : ticket[e] <= ticket[d]

\* getChildren, sort and indexOf: first in the queue, behind the node it has
\* to wait for, or (index -1) without a node, which ends the client quietly.
GetChildren(c) ==
    /\ pc[c] = "getChildren"
    /\ \/ /\ Open(c) /\ c \in znode
          /\ Ahead(c) = {}
          /\ Goto(c, "doInvoke")
          /\ UNCHANGED waitPath
       \/ /\ Open(c) /\ c \in znode
          /\ \E d \in Client : JustBefore(c, d) /\ waitPath' = [waitPath EXCEPT ![c] = d]
          /\ Goto(c, "getData")
       \/ /\ MayThrow(c) \/ c \notin znode
          /\ Goto(c, "aborted")
          /\ UNCHANGED waitPath
    /\ UNCHANGED <<zkVars, jvmVars, target, onEvent>>

\* Mutant: a node that vanished in between is not looked into again.
GetData_NoRecheck(c) ==
    /\ pc[c] = "getData"
    /\ watch' = IF Open(c) /\ waitPath[c] \in znode THEN watch \cup {c} ELSE watch
    /\ Goto(c, "await")
    /\ UNCHANGED <<parent, znode, ticket, counter, session, event,
                   jvmVars, target, waitPath, onEvent>>

\* getData sets the watch only when the node is still there.
GetData(c) ==
    /\ pc[c] = "getData"
    /\ \/ /\ Open(c) /\ waitPath[c] \in znode
          /\ watch' = watch \cup {c}
          /\ Goto(c, "await")
       \/ /\ MayThrow(c) \/ waitPath[c] \notin znode
          /\ Goto(c, "existsWait")
          /\ UNCHANGED watch
    /\ UNCHANGED <<parent, znode, ticket, counter, session, event,
                   jvmVars, target, waitPath, onEvent>>

\* The catch block: start over when the node is gone, rethrow when it is not.
ExistsWait(c) ==
    /\ pc[c] = "existsWait"
    /\ \/ /\ Open(c) /\ waitPath[c] \notin znode
          /\ Goto(c, "getChildren")
       \/ /\ Open(c) /\ waitPath[c] \in znode
          /\ Goto(c, "aborted")
       \/ Throw(c)
    /\ UNCHANGED <<zkVars, jvmVars, target, waitPath, onEvent>>

\* LockWatcher.process on the event thread: NodeDeleted of another path than
\* waitPath is ignored.
Process(c) ==
    \E d \in event[c] :
       /\ pc[c] # "dead"
       /\ event' = [event EXCEPT ![c] = @ \ {d}]
       /\ IF d = waitPath[c]
          THEN /\ Goto(c, "getChildren")
               /\ onEvent' = onEvent \cup {c}
          ELSE UNCHANGED <<pc, onEvent>>
       /\ UNCHANGED <<parent, znode, ticket, counter, session, watch,
                      jvmVars, target, waitPath>>

-----------------------------------------------------------------------------
(***************************************************************************)
(* LockWatcher.doSomething and DistributedLock.unlock                      *)
(***************************************************************************)
CountDown(j) == latch' = [latch EXCEPT ![j] = IF @ > 0 THEN @ - 1 ELSE 0]

\* doInvoke returns and TestLock.latch is counted down; when it throws,
\* neither the latch nor unlock is reached.
DoSomething(c) ==
    /\ pc[c] = "doInvoke"
    /\ \/ /\ CountDown(JvmOf[c])
          /\ Goto(c, "existsSelf")
       \/ /\ "throw" \in Faults
          /\ Goto(c, "aborted")
          /\ UNCHANGED latch
    /\ UNCHANGED <<zkVars, flag, main, target, waitPath, onEvent>>

ExistsSelf(c) ==
    /\ pc[c] = "existsSelf"
    /\ \/ Open(c) /\ c \in znode /\ Goto(c, "delete")
       \/ (MayThrow(c) \/ c \notin znode) /\ Goto(c, "close")
    /\ UNCHANGED <<zkVars, jvmVars, target, waitPath, onEvent>>

Delete(c) ==
    /\ pc[c] = "delete"
    /\ \/ Open(c) /\ RemoveNode(c)
       \/ MayThrow(c) /\ UNCHANGED <<znode, watch, event>>
    /\ Goto(c, "close")
    /\ UNCHANGED <<parent, ticket, counter, session,
                   jvmVars, target, waitPath, onEvent>>

\* Mutant: the session of an unlock that failed is kept open.
Close_Kept(c) ==
    /\ pc[c] = "close"
    /\ \/ EndSession(c)
       \/ Open(c) /\ MayThrow(c) /\ UNCHANGED <<parent, znode, ticket, counter, session, watch, event>>
    /\ Goto(c, "done")
    /\ UNCHANGED <<jvmVars, target, waitPath, onEvent>>

\* The finally block.  zk.close() ends the session; on a lost connection it
\* reaches nobody and only the client stops pinging.
Close(c) ==
    /\ pc[c] = "close"
    /\ \/ EndSession(c)
       \/ /\ Open(c) /\ MayThrow(c)
          /\ session' = [session EXCEPT ![c] = "left"]
          /\ UNCHANGED <<parent, znode, ticket, counter, watch, event>>
    /\ Goto(c, "done")
    /\ UNCHANGED <<jvmVars, target, waitPath, onEvent>>

-----------------------------------------------------------------------------
(***************************************************************************)
(* TestLock.main and the end of a process                                  *)
(***************************************************************************)
MainReturns(j) ==
    /\ main[j] = "await"
    /\ latch[j] = 0
    /\ main' = [main EXCEPT ![j] = "returned"]
    /\ UNCHANGED <<zkVars, flag, latch, selfVars>>

Halt(j) ==
    /\ main' = [main EXCEPT ![j] = "dead"]
    /\ pc' = [c \in Client |->
                IF JvmOf[c] = j /\ pc[c] # "done" THEN "dead" ELSE pc[c]]
    /\ UNCHANGED <<zkVars, flag, latch, target, waitPath, onEvent>>

\* The process ends once main and the threads it started have returned; event
\* threads are daemons and are cut off wherever they are.
Exit(j) ==
    /\ main[j] = "returned"
    /\ \A c \in ThreadsOf(j) : pc[c] \in {"done", "aborted"} \/ c \in onEvent
    /\ Halt(j)

Crash(j) ==
    /\ "crash" \in Faults
    /\ main[j] # "dead"
    /\ Halt(j)

-----------------------------------------------------------------------------
Step(c) ==
    \/ Connect(c)     \/ ReadFlag(c)     \/ EnterMonitor(c)
    \/ ExistsParent(c) \/ RaiseFlag(c) \/ CreateParent(c) \/ CreateNode(c)
    \/ GetChildren(c) \/ GetData(c)      \/ ExistsWait(c)
    \/ DoSomething(c) \/ ExistsSelf(c)   \/ Delete(c) \/ Close(c)

Next ==
    \/ \E c \in Client : Step(c) \/ Process(c) \/ Expire(c)
    \/ \E j \in Jvm : MainReturns(j) \/ Exit(j) \/ Crash(j)

Spec == Init /\ [][Next]_vars

\* Threads that can run are scheduled, ZooKeeper answers every call, events
\* are delivered, tasks end, and the server expires a session nobody pings.
\* Nothing forces a fault.
Fairness ==
    /\ \A c \in Client : WF_vars(Step(c)) /\ WF_vars(Process(c))
    /\ \A c \in Client : WF_vars(Silent(c) /\ Expire(c))
    /\ \A j \in Jvm : WF_vars(MainReturns(j))

FairSpec == Spec /\ Fairness
-----------------------------------------------------------------------------
(***************************************************************************)
(* Properties                                                              *)
(***************************************************************************)
\* The variables have the types their comments say.
TypeOK ==
    /\ parent \in BOOLEAN
    /\ znode \subseteq Client
    /\ ticket \in [Client -> Nat]
    /\ counter \in Nat \ {0}
    /\ session \in [Client -> {"none", "open", "left", "gone"}]
    /\ watch \subseteq Client
    /\ event \in [Client -> SUBSET Client]
    /\ flag \in [Jvm -> BOOLEAN]
    /\ target \in [Client -> BOOLEAN]
    /\ waitPath \in [Client -> Client \cup {None}]
    /\ onEvent \subseteq Client
    /\ pc \in [Client -> Pc]
    /\ latch \in [Jvm -> Nat]
    /\ main \in [Jvm -> {"await", "returned", "dead"}]

\* Mutual exclusion as far as ZooKeeper can promise it: two clients run their
\* task (LockWatcher.doSomething) at once only if one has lost its session.
LeaseMutex ==
    \A c, d \in Client :
        pc[c] = "doInvoke" /\ pc[d] = "doInvoke" /\ Open(c) /\ Open(d) => c = d

\* No lost wake-up between getChildren and getData (checkMinPath): a client
\* that waits has a watch on a node that is there, or its event is on the way.
NoLostWakeup ==
    \A c \in Client :
        pc[c] = "await" /\ Open(c) =>
            \/ c \in watch /\ waitPath[c] \in znode
            \/ waitPath[c] \in event[c]

\* Waiting for the node just before spares the others: the end of one node
\* wakes at most one client that still has its session.
NoHerd ==
    \A c, d \in Client :
        /\ pc[c] = "await" /\ pc[d] = "await" /\ Open(c) /\ Open(d)
        /\ waitPath[c] = waitPath[d]
        => c = d

\* LockWatcher.process never drops the event that would free a client, and it
\* never runs checkMinPath while the first thread is still inside it.
EventMatchesWait ==
    \A c \in Client :
        event[c] # {} => pc[c] \in {"await", "dead"} /\ event[c] = {waitPath[c]}

\* createParentPath: although the field it locks changes under it, one thread
\* of a process at most gets to create /disLocks.
OneCreator ==
    \A c, d \in Client :
        /\ pc[c] = "createParent" /\ pc[d] = "createParent"
        /\ JvmOf[c] = JvmOf[d]
        => c = d

\* TestLock.main prints "all threads run successful." only after each of its
\* threads has run its task.
MainReturnsLast ==
    \A j \in Jvm : main[j] = "returned" =>
        \A c \in ThreadsOf(j) : pc[c] \in {"existsSelf", "delete", "close", "done"}

\* What one thread does never upsets another thread of its process, nor the
\* watcher its own first thread: an event only finds a client that waits for it,
\* one thread creates /disLocks, and main waits for all.
ThreadsInv == EventMatchesWait /\ OneCreator /\ MainReturnsLast

\* unlock gives the node back in the end, whichever of its calls fails and
\* wherever the end of the process cuts it off: the node of a client that has
\* run its task, or whose process ended, goes away.
NodeGivenBack ==
    <>[](\A c \in Client :
            pc[c] \in {"existsSelf", "delete", "close", "done", "dead"} => c \notin znode)

\* LockService.doService closes nothing when a call or the task throws.
GaveUp(c) == pc[c] = "aborted"

\* Every client gets its turn, or loses its session or its process, or gives up:
\* only the node of a client that gave up and still runs keeps others waiting.
EveryoneServed ==
    <>[](\A c \in Client :
            \/ pc[c] \in {"done", "dead"} \/ session[c] = "gone" \/ GaveUp(c)
            \/ \E d \in znode : GaveUp(d) /\ ticket[d] < ticket[c])

\* Nothing but a lost session or process keeps main from printing
\* "all threads run successful.".
AllThreadsRun ==
    \A j \in Jvm : <>(main[j] # "await")

-----------------------------------------------------------------------------
\* The lock implements FifoLock: the nodes under /disLocks are the line, and a
\* client is inside while it runs its task with its session open.
Line == INSTANCE FifoLock WITH
            line   <- znode,
            place  <- ticket,
            last   <- counter,
            inside <- {c \in Client : pc[c] = "doInvoke" /\ Open(c)}

ImplementsFifoLock == Line!Spec
=============================================================================
