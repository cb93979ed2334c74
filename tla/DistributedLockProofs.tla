----------------------- MODULE DistributedLockProofs -----------------------
(***************************************************************************)
(* Safety of the ZooKeeper lock for any number of clients and processes    *)
(* and any combination of faults.                                          *)
(***************************************************************************)
EXTENDS DistributedLock, FiniteSetTheorems, TLAPS

BeforeNode == {"connect", "readFlag", "enterMonitor", "existsParent",
               "raiseFlag", "createParent", "createNode"}

\* A node has a session the server keeps and a number; numbers are unique and only given
\* by getLock.
NodesOk ==
    /\ \A c \in znode : Kept(c) /\ ticket[c] # 0
    /\ \A c \in Client : ticket[c] < counter
    /\ \A c, d \in Client : ticket[c] = ticket[d] /\ ticket[c] # 0 => c = d
    /\ \A c \in Client : pc[c] \in BeforeNode => ticket[c] = 0

\* Between getLock and unlock a client with a session has its node, and the
\* client that runs its task has the first one.
QueueOk ==
    \A c \in Client : pc[c] \in Locking /\ Open(c) =>
        /\ c \in znode
        /\ pc[c] = "doInvoke" => \A d \in znode \ {c} : ticket[c] < ticket[d]

\* A watch is set on a node that is there, by a client that waits for it and
\* has no event; an event is for the node its client waits for.
WatchOk ==
    /\ \A c \in watch :
         waitPath[c] \in znode /\ pc[c] \in {"await", "dead"} /\ event[c] = {}
    /\ EventMatchesWait
    /\ NoLostWakeup

\* No node comes between a client that waits and the node it waits for.
GapOk ==
    \A c \in Client : pc[c] \in {"getData", "existsWait", "await"} /\ Open(c) =>
        /\ waitPath[c] \in Client
        /\ ticket[waitPath[c]] # 0
        /\ ticket[waitPath[c]] < ticket[c]
        /\ \A e \in znode : ticket[e] <= ticket[waitPath[c]] \/ ticket[c] <= ticket[e]

IInv == TypeOK /\ NodesOk /\ QueueOk /\ WatchOk /\ GapOk
-----------------------------------------------------------------------------
LEMMA InitTypeOK == Init => TypeOK
<1> SUFFICES ASSUME Init PROVE TypeOK
  OBVIOUS
<1>1. \A j \in Jvm : Cardinality(ThreadsOf(j)) \in Nat
  <2> TAKE j \in Jvm
  <2>1. ThreadsOf(j) \subseteq Client
    BY DEF ThreadsOf
  <2>2. IsFiniteSet(ThreadsOf(j))
    BY <2>1, LockAssumption, FS_Subset
  <2> QED
    BY <2>2, FS_CardinalityType
<1>2. latch \in [Jvm -> Nat]
  BY <1>1 DEF Init
<1> QED
  BY <1>2, LockAssumption DEF Init, TypeOK, Pc, Synchronized, Locking, Ended, None

LEMMA TypeOKStep == TypeOK /\ [Next]_vars => TypeOK'
<1> SUFFICES ASSUME TypeOK, [Next]_vars PROVE TypeOK'
  OBVIOUS
<1> USE LockAssumption DEF TypeOK, zkVars, jvmVars, selfVars, Goto, Pc, Synchronized, Locking, Ended
<1>1. ASSUME NEW c \in Client, Connect(c) PROVE TypeOK'
  BY <1>1 DEF Connect
<1>2. ASSUME NEW c \in Client, ReadFlag(c) PROVE TypeOK'
  BY <1>2 DEF ReadFlag
<1>3. ASSUME NEW c \in Client, EnterMonitor(c) PROVE TypeOK'
  BY <1>3 DEF EnterMonitor
<1>4. ASSUME NEW c \in Client, ExistsParent(c) \/ RaiseFlag(c) PROVE TypeOK'
  <2>1. CASE ExistsParent(c)
    BY <2>1 DEF ExistsParent, Throw
  <2>2. CASE RaiseFlag(c)
    <3>1. flag' \in [Jvm -> BOOLEAN]
      BY <2>2 DEF RaiseFlag
    <3> QED
      BY <2>2, <3>1 DEF RaiseFlag
  <2> QED
    BY <1>4, <2>1, <2>2
<1>5. ASSUME NEW c \in Client, CreateParent(c) PROVE TypeOK'
  BY <1>5 DEF CreateParent, Throw
<1>6. ASSUME NEW c \in Client, CreateNode(c) PROVE TypeOK'
  BY <1>6 DEF CreateNode, AddNode, Throw
<1>7. ASSUME NEW c \in Client, GetChildren(c) PROVE TypeOK'
  BY <1>7 DEF GetChildren, JustBefore, Ahead
<1>8. ASSUME NEW c \in Client, GetData(c) PROVE TypeOK'
  BY <1>8 DEF GetData
<1>9. ASSUME NEW c \in Client, ExistsWait(c) PROVE TypeOK'
  BY <1>9 DEF ExistsWait, Throw
<1>10. ASSUME NEW c \in Client, DoSomething(c) PROVE TypeOK'
  BY <1>10 DEF DoSomething, CountDown
<1>11. ASSUME NEW c \in Client, ExistsSelf(c) PROVE TypeOK'
  BY <1>11 DEF ExistsSelf
<1>12. ASSUME NEW c \in Client, Delete(c) PROVE TypeOK'
  BY <1>12 DEF Delete, RemoveNode, FireWatches
<1>13. ASSUME NEW c \in Client, Close(c) PROVE TypeOK'
  BY <1>13 DEF Close, EndSession, FireWatches
<1>14. ASSUME NEW c \in Client, Process(c) PROVE TypeOK'
  BY <1>14 DEF Process
<1>15. ASSUME NEW c \in Client, Expire(c) PROVE TypeOK'
  BY <1>15 DEF Expire, EndSession, FireWatches
<1>16. ASSUME NEW j \in Jvm, MainReturns(j) PROVE TypeOK'
  BY <1>16 DEF MainReturns
<1>17. ASSUME NEW j \in Jvm, Exit(j) \/ Crash(j) PROVE TypeOK'
  BY <1>17 DEF Exit, Crash, Halt
<1>18. CASE UNCHANGED vars
  BY <1>18 DEF vars
<1> QED
  BY <1>1, <1>2, <1>3, <1>4, <1>5, <1>6, <1>7, <1>8, <1>9, <1>10, <1>11,
     <1>12, <1>13, <1>14, <1>15, <1>16, <1>17, <1>18 DEF Next, Step

LEMMA NodesOkStep == TypeOK /\ NodesOk /\ [Next]_vars => NodesOk'
<1> SUFFICES ASSUME TypeOK, NodesOk, [Next]_vars PROVE NodesOk'
  OBVIOUS
<1> USE DEF TypeOK, NodesOk, BeforeNode, zkVars, jvmVars, selfVars, Goto, Open, Kept, Silent
<1>1. ASSUME NEW c \in Client, Connect(c) PROVE NodesOk'
  BY <1>1 DEF Connect
<1>2. ASSUME NEW c \in Client, ReadFlag(c) PROVE NodesOk'
  BY <1>2 DEF ReadFlag
<1>3. ASSUME NEW c \in Client, EnterMonitor(c) PROVE NodesOk'
  BY <1>3 DEF EnterMonitor
<1>4. ASSUME NEW c \in Client, ExistsParent(c) \/ RaiseFlag(c) PROVE NodesOk'
  BY <1>4 DEF ExistsParent, RaiseFlag, Throw
<1>5. ASSUME NEW c \in Client, CreateParent(c) PROVE NodesOk'
  BY <1>5 DEF CreateParent, Throw
<1>6. ASSUME NEW c \in Client, CreateNode(c) PROVE NodesOk'
  BY <1>6 DEF CreateNode, AddNode, Throw
<1>7. ASSUME NEW c \in Client, GetChildren(c) PROVE NodesOk'
  BY <1>7 DEF GetChildren, JustBefore, Ahead
<1>8. ASSUME NEW c \in Client, GetData(c) PROVE NodesOk'
  BY <1>8 DEF GetData
<1>9. ASSUME NEW c \in Client, ExistsWait(c) PROVE NodesOk'
  BY <1>9 DEF ExistsWait, Throw
<1>10. ASSUME NEW c \in Client, DoSomething(c) PROVE NodesOk'
  BY <1>10 DEF DoSomething, CountDown
<1>11. ASSUME NEW c \in Client, ExistsSelf(c) PROVE NodesOk'
  BY <1>11 DEF ExistsSelf
<1>12. ASSUME NEW c \in Client, Delete(c) PROVE NodesOk'
  BY <1>12 DEF Delete, RemoveNode, FireWatches
<1>13. ASSUME NEW c \in Client, Close(c) PROVE NodesOk'
  BY <1>13 DEF Close, EndSession, FireWatches
<1>14. ASSUME NEW c \in Client, Process(c) PROVE NodesOk'
  BY <1>14 DEF Process
<1>15. ASSUME NEW c \in Client, Expire(c) PROVE NodesOk'
  BY <1>15 DEF Expire, EndSession, FireWatches
<1>16. ASSUME NEW j \in Jvm, MainReturns(j) PROVE NodesOk'
  BY <1>16 DEF MainReturns
<1>17. ASSUME NEW j \in Jvm, Exit(j) \/ Crash(j) PROVE NodesOk'
  BY <1>17 DEF Exit, Crash, Halt
<1>18. CASE UNCHANGED vars
  BY <1>18 DEF vars
<1> QED
  BY <1>1, <1>2, <1>3, <1>4, <1>5, <1>6, <1>7, <1>8, <1>9, <1>10, <1>11, <1>12, <1>13, <1>14, <1>15, <1>16, <1>17, <1>18
     DEF Next, Step

LEMMA QueueOkStep == TypeOK /\ NodesOk /\ WatchOk /\ QueueOk /\ [Next]_vars => QueueOk'
<1> SUFFICES ASSUME TypeOK, NodesOk, WatchOk, QueueOk, [Next]_vars PROVE QueueOk'
  OBVIOUS
<1>0. EventMatchesWait
  BY DEF WatchOk
<1> USE <1>0 DEF TypeOK, NodesOk, QueueOk, EventMatchesWait, Locking, BeforeNode,
                 zkVars, jvmVars, selfVars, Goto, Open, Kept, Silent
<1>1. ASSUME NEW c \in Client, Connect(c) PROVE QueueOk'
  BY <1>1 DEF Connect
<1>2. ASSUME NEW c \in Client, ReadFlag(c) PROVE QueueOk'
  BY <1>2 DEF ReadFlag
<1>3. ASSUME NEW c \in Client, EnterMonitor(c) PROVE QueueOk'
  BY <1>3 DEF EnterMonitor
<1>4. ASSUME NEW c \in Client, ExistsParent(c) \/ RaiseFlag(c) PROVE QueueOk'
  BY <1>4 DEF ExistsParent, RaiseFlag, Throw
<1>5. ASSUME NEW c \in Client, CreateParent(c) PROVE QueueOk'
  BY <1>5 DEF CreateParent, Throw
<1>6. ASSUME NEW c \in Client, CreateNode(c) PROVE QueueOk'
  BY <1>6 DEF CreateNode, AddNode, Throw
<1>7. ASSUME NEW c \in Client, GetChildren(c) PROVE QueueOk'
  BY <1>7 DEF GetChildren, JustBefore, Ahead
<1>8. ASSUME NEW c \in Client, GetData(c) PROVE QueueOk'
  BY <1>8 DEF GetData
<1>9. ASSUME NEW c \in Client, ExistsWait(c) PROVE QueueOk'
  BY <1>9 DEF ExistsWait, Throw
<1>10. ASSUME NEW c \in Client, DoSomething(c) PROVE QueueOk'
  BY <1>10 DEF DoSomething, CountDown
<1>11. ASSUME NEW c \in Client, ExistsSelf(c) PROVE QueueOk'
  BY <1>11 DEF ExistsSelf
<1>12. ASSUME NEW c \in Client, Delete(c) PROVE QueueOk'
  BY <1>12 DEF Delete, RemoveNode, FireWatches
<1>13. ASSUME NEW c \in Client, Close(c) PROVE QueueOk'
  BY <1>13 DEF Close, EndSession, FireWatches
<1>14. ASSUME NEW c \in Client, Process(c) PROVE QueueOk'
  BY <1>14 DEF Process
<1>15. ASSUME NEW c \in Client, Expire(c) PROVE QueueOk'
  BY <1>15 DEF Expire, EndSession, FireWatches
<1>16. ASSUME NEW j \in Jvm, MainReturns(j) PROVE QueueOk'
  BY <1>16 DEF MainReturns
<1>17. ASSUME NEW j \in Jvm, Exit(j) \/ Crash(j) PROVE QueueOk'
  BY <1>17 DEF Exit, Crash, Halt
<1>18. CASE UNCHANGED vars
  BY <1>18 DEF vars
<1> QED
  BY <1>1, <1>2, <1>3, <1>4, <1>5, <1>6, <1>7, <1>8, <1>9,
     <1>10, <1>11, <1>12, <1>13, <1>14, <1>15, <1>16, <1>17, <1>18
     DEF Next, Step

LEMMA WatchOkStep == TypeOK /\ WatchOk /\ [Next]_vars => WatchOk'
<1> SUFFICES ASSUME TypeOK, WatchOk, [Next]_vars PROVE WatchOk'
  OBVIOUS
<1> USE DEF TypeOK, WatchOk, EventMatchesWait, NoLostWakeup,
            zkVars, jvmVars, selfVars, Goto, Open, Kept, Silent
<1>1. ASSUME NEW c \in Client, Connect(c) PROVE WatchOk'
  BY <1>1 DEF Connect
<1>2. ASSUME NEW c \in Client, ReadFlag(c) PROVE WatchOk'
  BY <1>2 DEF ReadFlag
<1>3. ASSUME NEW c \in Client, EnterMonitor(c) PROVE WatchOk'
  BY <1>3 DEF EnterMonitor
<1>4. ASSUME NEW c \in Client, ExistsParent(c) \/ RaiseFlag(c) PROVE WatchOk'
  BY <1>4 DEF ExistsParent, RaiseFlag, Throw
<1>5. ASSUME NEW c \in Client, CreateParent(c) PROVE WatchOk'
  BY <1>5 DEF CreateParent, Throw
<1>6. ASSUME NEW c \in Client, CreateNode(c) PROVE WatchOk'
  BY <1>6 DEF CreateNode, AddNode, Throw
<1>7. ASSUME NEW c \in Client, GetChildren(c) PROVE WatchOk'
  BY <1>7 DEF GetChildren, JustBefore, Ahead
<1>8. ASSUME NEW c \in Client, GetData(c) PROVE WatchOk'
  BY <1>8 DEF GetData
<1>9. ASSUME NEW c \in Client, ExistsWait(c) PROVE WatchOk'
  BY <1>9 DEF ExistsWait, Throw
<1>10. ASSUME NEW c \in Client, DoSomething(c) PROVE WatchOk'
  BY <1>10 DEF DoSomething, CountDown
<1>11. ASSUME NEW c \in Client, ExistsSelf(c) PROVE WatchOk'
  BY <1>11 DEF ExistsSelf
<1>12. ASSUME NEW c \in Client, Delete(c) PROVE WatchOk'
  BY <1>12 DEF Delete, RemoveNode, FireWatches
<1>13. ASSUME NEW c \in Client, Close(c) PROVE WatchOk'
  BY <1>13 DEF Close, EndSession, FireWatches
<1>14. ASSUME NEW c \in Client, Process(c) PROVE WatchOk'
  BY <1>14 DEF Process
<1>15. ASSUME NEW c \in Client, Expire(c) PROVE WatchOk'
  BY <1>15 DEF Expire, EndSession, FireWatches
<1>16. ASSUME NEW j \in Jvm, MainReturns(j) PROVE WatchOk'
  BY <1>16 DEF MainReturns
<1>17. ASSUME NEW j \in Jvm, Exit(j) \/ Crash(j) PROVE WatchOk'
  BY <1>17 DEF Exit, Crash, Halt
<1>18. CASE UNCHANGED vars
  BY <1>18 DEF vars
<1> QED
  BY <1>1, <1>2, <1>3, <1>4, <1>5, <1>6, <1>7, <1>8, <1>9,
     <1>10, <1>11, <1>12, <1>13, <1>14, <1>15, <1>16, <1>17, <1>18
     DEF Next, Step

LEMMA GapOkStep == TypeOK /\ NodesOk /\ WatchOk /\ GapOk /\ [Next]_vars => GapOk'
<1> SUFFICES ASSUME TypeOK, NodesOk, WatchOk, GapOk, [Next]_vars PROVE GapOk'
  OBVIOUS
<1>0. EventMatchesWait
  BY DEF WatchOk
<1> USE <1>0 DEF TypeOK, NodesOk, GapOk, EventMatchesWait, BeforeNode,
                 zkVars, jvmVars, selfVars, Goto, Open, Kept, Silent
<1>1. ASSUME NEW c \in Client, Connect(c) PROVE GapOk'
  BY <1>1 DEF Connect
<1>2. ASSUME NEW c \in Client, ReadFlag(c) PROVE GapOk'
  BY <1>2 DEF ReadFlag
<1>3. ASSUME NEW c \in Client, EnterMonitor(c) PROVE GapOk'
  BY <1>3 DEF EnterMonitor
<1>4. ASSUME NEW c \in Client, ExistsParent(c) \/ RaiseFlag(c) PROVE GapOk'
  BY <1>4 DEF ExistsParent, RaiseFlag, Throw
<1>5. ASSUME NEW c \in Client, CreateParent(c) PROVE GapOk'
  BY <1>5 DEF CreateParent, Throw
<1>6. ASSUME NEW c \in Client, CreateNode(c) PROVE GapOk'
  BY <1>6 DEF CreateNode, AddNode, Throw
<1>7. ASSUME NEW c \in Client, GetChildren(c) PROVE GapOk'
  BY <1>7 DEF GetChildren, JustBefore, Ahead
<1>8. ASSUME NEW c \in Client, GetData(c) PROVE GapOk'
  BY <1>8 DEF GetData
<1>9. ASSUME NEW c \in Client, ExistsWait(c) PROVE GapOk'
  BY <1>9 DEF ExistsWait, Throw
<1>10. ASSUME NEW c \in Client, DoSomething(c) PROVE GapOk'
  BY <1>10 DEF DoSomething, CountDown
<1>11. ASSUME NEW c \in Client, ExistsSelf(c) PROVE GapOk'
  BY <1>11 DEF ExistsSelf
<1>12. ASSUME NEW c \in Client, Delete(c) PROVE GapOk'
  BY <1>12 DEF Delete, RemoveNode, FireWatches
<1>13. ASSUME NEW c \in Client, Close(c) PROVE GapOk'
  BY <1>13 DEF Close, EndSession, FireWatches
<1>14. ASSUME NEW c \in Client, Process(c) PROVE GapOk'
  BY <1>14 DEF Process
<1>15. ASSUME NEW c \in Client, Expire(c) PROVE GapOk'
  BY <1>15 DEF Expire, EndSession, FireWatches
<1>16. ASSUME NEW j \in Jvm, MainReturns(j) PROVE GapOk'
  BY <1>16 DEF MainReturns
<1>17. ASSUME NEW j \in Jvm, Exit(j) \/ Crash(j) PROVE GapOk'
  BY <1>17 DEF Exit, Crash, Halt
<1>18. CASE UNCHANGED vars
  BY <1>18 DEF vars
<1> QED
  BY <1>1, <1>2, <1>3, <1>4, <1>5, <1>6, <1>7, <1>8, <1>9,
     <1>10, <1>11, <1>12, <1>13, <1>14, <1>15, <1>16, <1>17, <1>18
     DEF Next, Step

-----------------------------------------------------------------------------
LEMMA IInvHolds == Spec => []IInv
<1>1. Init => IInv
  <2> SUFFICES ASSUME Init PROVE IInv
    OBVIOUS
  <2>1. TypeOK
    BY InitTypeOK
  <2>2. NodesOk /\ QueueOk /\ WatchOk /\ GapOk
    BY DEF Init, NodesOk, QueueOk, WatchOk, GapOk, EventMatchesWait, NoLostWakeup,
           Locking, Open, Kept
  <2> QED
    BY <2>1, <2>2 DEF IInv
<1>2. IInv /\ [Next]_vars => IInv'
  BY TypeOKStep, NodesOkStep, QueueOkStep, WatchOkStep, GapOkStep DEF IInv
<1> QED
  BY <1>1, <1>2, PTL DEF Spec

\* The variables keep their types.
THEOREM LockTypeOK == Spec => []TypeOK
<1>1. IInv => TypeOK
  BY DEF IInv
<1> QED
  BY <1>1, IInvHolds, PTL

LEMMA MutexFromInv == IInv => LeaseMutex
<1> SUFFICES ASSUME IInv,
                    NEW c \in Client, NEW d \in Client,
                    pc[c] = "doInvoke", pc[d] = "doInvoke", Open(c), Open(d), c # d
             PROVE FALSE
  BY DEF LeaseMutex
<1>1. c \in znode /\ ticket[c] < ticket[d]
  BY DEF IInv, QueueOk, Locking
<1>2. d \in znode /\ ticket[d] < ticket[c]
  BY DEF IInv, QueueOk, Locking
<1> QED
  BY <1>1, <1>2 DEF IInv, TypeOK

\* LockWatcher.doSomething: under every fault, two clients run their task at
\* once only if the session of one of them is gone.
THEOREM LockLeaseMutex == Spec => []LeaseMutex
BY MutexFromInv, IInvHolds, PTL

\* checkMinPath: a client that waits has a watch or an event, whatever is
\* deleted between getChildren and getData.
THEOREM LockNoLostWakeup == Spec => []NoLostWakeup
<1>1. IInv => NoLostWakeup
  BY DEF IInv, WatchOk
<1> QED
  BY <1>1, IInvHolds, PTL

\* LockWatcher.process gets an event only while its client waits for that node.
THEOREM LockEventMatchesWait == Spec => []EventMatchesWait
<1>1. IInv => EventMatchesWait
  BY DEF IInv, WatchOk
<1> QED
  BY <1>1, IInvHolds, PTL

\* checkMinPath: no two clients with a session wait for the same node.
THEOREM LockNoHerd == Spec => []NoHerd
<1>1. IInv => NoHerd
  <2> SUFFICES ASSUME IInv,
                      NEW c \in Client, NEW d \in Client,
                      pc[c] = "await", pc[d] = "await", Open(c), Open(d),
                      waitPath[c] = waitPath[d], c # d
               PROVE FALSE
    BY DEF NoHerd
  <2>1. c \in znode /\ d \in znode
    BY DEF IInv, QueueOk, Locking
  <2>2. ticket[c] # ticket[d]
    BY <2>1 DEF IInv, NodesOk
  <2>3. ticket[waitPath[c]] < ticket[c] /\ ticket[waitPath[c]] < ticket[d]
    BY DEF IInv, GapOk
  <2>4. ticket[d] <= ticket[waitPath[c]] \/ ticket[c] <= ticket[d]
    BY <2>1 DEF IInv, GapOk
  <2>5. ticket[c] <= ticket[waitPath[c]] \/ ticket[d] <= ticket[c]
    BY <2>1 DEF IInv, GapOk
  <2>6. ticket[c] \in Nat /\ ticket[d] \in Nat
        /\ waitPath[c] \in Client /\ ticket[waitPath[c]] \in Nat
    BY DEF IInv, TypeOK, GapOk
  <2> QED
    BY <2>2, <2>3, <2>4, <2>5, <2>6
<1> QED
  BY <1>1, IInvHolds, PTL
-----------------------------------------------------------------------------
\* A thread that read the raised flag finds it raised, and among those that did
\* not the monitor lets one in.
CreatorOk ==
    /\ \A c \in Client : target[c] => flag[JvmOf[c]]
    /\ \A c \in Client : pc[c] \in {"raiseFlag", "createParent"} => ~target[c]
    /\ \A c, d \in Client :
         /\ pc[c] \in Synchronized /\ pc[d] \in Synchronized
         /\ JvmOf[c] = JvmOf[d] /\ target[c] = target[d]
         => c = d

LEMMA CreatorOkStep == IInv /\ CreatorOk /\ [Next]_vars => CreatorOk'
<1> SUFFICES ASSUME TypeOK, EventMatchesWait, CreatorOk, [Next]_vars PROVE CreatorOk'
  BY DEF IInv, WatchOk
<1> USE LockAssumption DEF TypeOK, CreatorOk, Synchronized, zkVars, jvmVars, selfVars, Goto
<1>1. ASSUME NEW c \in Client, Connect(c) \/ CreateNode(c) \/ GetChildren(c) \/ GetData(c)
                               \/ ExistsWait(c) \/ ExistsSelf(c) \/ Delete(c) \/ Close(c)
      PROVE CreatorOk'
  <2>1. \E label \in Pc \ Synchronized : Goto(c, label)
    BY <1>1 DEF Connect, CreateNode, GetChildren, GetData, ExistsWait, ExistsSelf, Delete, Close,
                Throw, Pc, Locking, Ended
  <2>2. UNCHANGED <<flag, target>>
    BY <1>1 DEF Connect, CreateNode, GetChildren, GetData, ExistsWait, ExistsSelf, Delete, Close
  <2> QED
    BY <2>1, <2>2
<1>2. ASSUME NEW c \in Client, DoSomething(c) PROVE CreatorOk'
  BY <1>2 DEF DoSomething
<1>3. ASSUME NEW c \in Client, ReadFlag(c) PROVE CreatorOk'
  BY <1>3 DEF ReadFlag
<1>4. ASSUME NEW c \in Client, EnterMonitor(c) PROVE CreatorOk'
  BY <1>4 DEF EnterMonitor, ThreadsOf
<1>5. ASSUME NEW c \in Client, ExistsParent(c) PROVE CreatorOk'
  BY <1>5 DEF ExistsParent, Throw
<1>6. ASSUME NEW c \in Client, RaiseFlag(c) PROVE CreatorOk'
  <2>1. \A j \in Jvm : flag[j] => flag'[j]
    BY <1>6 DEF RaiseFlag
  <2>2. \A d \in Client : JvmOf[d] \in Jvm
    OBVIOUS
  <2> QED
    BY <1>6, <2>1, <2>2 DEF RaiseFlag
<1>7. ASSUME NEW c \in Client, CreateParent(c) PROVE CreatorOk'
  BY <1>7 DEF CreateParent, Throw
<1>8. ASSUME NEW c \in Client, Process(c) PROVE CreatorOk'
  <2>1. pc' = pc \/ Goto(c, "getChildren")
    BY <1>8 DEF Process
  <2> QED
    BY <1>8, <2>1 DEF Process
<1>9. ASSUME NEW c \in Client, Expire(c) PROVE CreatorOk'
  BY <1>9 DEF Expire
<1>10. ASSUME NEW j \in Jvm, MainReturns(j) \/ Exit(j) \/ Crash(j) PROVE CreatorOk'
  BY <1>10 DEF MainReturns, Exit, Crash, Halt
<1>11. CASE UNCHANGED vars
  BY <1>11 DEF vars
<1> QED
  BY <1>1, <1>2, <1>3, <1>4, <1>5, <1>6, <1>7, <1>8, <1>9, <1>10, <1>11 DEF Next, Step

\* createParentPath: of the threads of one process, one at most creates /disLocks.
THEOREM LockOneCreator == Spec => []OneCreator
<1>1. Init => CreatorOk
  BY LockAssumption DEF Init, CreatorOk, Synchronized
<1>2. IInv /\ CreatorOk => OneCreator
  BY DEF IInv, TypeOK, CreatorOk, OneCreator, Synchronized
<1> QED
  BY <1>1, <1>2, CreatorOkStep, IInvHolds, PTL DEF Spec
-----------------------------------------------------------------------------
\* The threads of a process that have not counted the latch down, and never
\* will when they have thrown before.
Uncounted(j) == {c \in ThreadsOf(j) : pc[c] \notin {"existsSelf", "delete", "close", "done"}}

\* The latch counts them, as long as the process runs.
LatchOk ==
    \A j \in Jvm :
        /\ main[j] # "dead" => latch[j] = Cardinality(Uncounted(j))
        /\ main[j] = "returned" => latch[j] = 0

LEMMA UncountedFinite ==
    ASSUME NEW j \in Jvm
    PROVE  IsFiniteSet(Uncounted(j)) /\ Cardinality(Uncounted(j)) \in Nat
<1>1. Uncounted(j) \subseteq Client
  BY DEF Uncounted, ThreadsOf
<1>2. IsFiniteSet(Uncounted(j))
  BY <1>1, LockAssumption, FS_Subset
<1> QED
  BY <1>2, FS_CardinalityType

LEMMA LatchOkStep == IInv /\ LatchOk /\ [Next]_vars => LatchOk'
<1> SUFFICES ASSUME TypeOK, EventMatchesWait, LatchOk, [Next]_vars PROVE LatchOk'
  BY DEF IInv, WatchOk
<1> DEFINE Same == UNCHANGED <<latch, main>> /\ \A j \in Jvm : Uncounted(j)' = Uncounted(j)
<1>0. Same => LatchOk'
  BY DEF LatchOk
<1> USE LockAssumption DEF zkVars, jvmVars, selfVars, Goto
<1>1. ASSUME NEW c \in Client, Connect(c) \/ ReadFlag(c) \/ EnterMonitor(c) \/ ExistsParent(c)
                               \/ RaiseFlag(c) \/ CreateParent(c) \/ CreateNode(c)
                               \/ GetChildren(c) \/ GetData(c) \/ ExistsWait(c)
      PROVE Same
  <2>1. \E label \in Pc \ {"existsSelf", "delete", "close", "done"} : Goto(c, label)
    BY <1>1 DEF Connect, ReadFlag, EnterMonitor, ExistsParent, RaiseFlag, CreateParent, CreateNode,
                GetChildren, GetData, ExistsWait, Throw, Pc, Synchronized, Locking, Ended
  <2>2. pc[c] \notin {"existsSelf", "delete", "close", "done"} /\ UNCHANGED <<latch, main>>
    BY <1>1 DEF Connect, ReadFlag, EnterMonitor, ExistsParent, RaiseFlag, CreateParent, CreateNode,
                GetChildren, GetData, ExistsWait
  <2> QED
    BY <2>1, <2>2 DEF Uncounted, ThreadsOf, TypeOK
<1>2. ASSUME NEW c \in Client, ExistsSelf(c) \/ Delete(c) \/ Close(c) PROVE Same
  BY <1>2 DEF ExistsSelf, Delete, Close, Uncounted, ThreadsOf, TypeOK
<1>3. ASSUME NEW c \in Client, DoSomething(c) PROVE LatchOk'
  <2>1. CASE CountDown(JvmOf[c]) /\ Goto(c, "existsSelf") /\ UNCHANGED main
    <3> DEFINE j == JvmOf[c]
    <3>1. j \in Jvm /\ c \in Uncounted(j)
      BY <1>3 DEF DoSomething, Uncounted, ThreadsOf
    <3>2. Uncounted(j)' = Uncounted(j) \ {c}
      BY <1>3, <2>1 DEF DoSomething, Uncounted, ThreadsOf, TypeOK
    <3>3. \A i \in Jvm \ {j} : Uncounted(i)' = Uncounted(i)
      BY <2>1 DEF Uncounted, ThreadsOf, TypeOK
    <3>4. Cardinality(Uncounted(j) \ {c}) = Cardinality(Uncounted(j)) - 1
      BY <3>1, UncountedFinite, FS_RemoveElement
    <3>5. latch[j] \in Nat /\ latch'[j] = IF latch[j] > 0 THEN latch[j] - 1 ELSE 0
      BY <2>1, <3>1 DEF CountDown, TypeOK
    <3>6. Cardinality(Uncounted(j)) \in Nat /\ Cardinality(Uncounted(j)') \in Nat
      <4>1. IsFiniteSet(Uncounted(j) \ {c})
        BY <3>1, UncountedFinite, FS_RemoveElement
      <4> QED
        BY <3>1, <3>2, <4>1, UncountedFinite, FS_CardinalityType
    <3>7. \A i \in Jvm \ {j} : latch'[i] = latch[i]
      BY <2>1 DEF CountDown, TypeOK
    <3> HIDE DEF j
    <3>8. main[j] # "dead" => latch'[j] = Cardinality(Uncounted(j)')
      BY <3>1, <3>2, <3>4, <3>5, <3>6 DEF LatchOk
    <3>9. main[j] = "returned" => latch'[j] = 0
      BY <3>1, <3>5 DEF LatchOk
    <3>10. ASSUME NEW i \in Jvm
           PROVE  /\ main'[i] # "dead" => latch'[i] = Cardinality(Uncounted(i)')
                  /\ main'[i] = "returned" => latch'[i] = 0
      <4>1. main' = main
        BY <2>1
      <4>2. CASE i = j
        BY <3>8, <3>9, <4>1, <4>2
      <4>3. CASE i # j
        BY <3>3, <3>7, <4>1, <4>3 DEF LatchOk, Uncounted, ThreadsOf
      <4> QED
        BY <4>2, <4>3
    <3> QED
      BY <3>10 DEF LatchOk
  <2>2. CASE Goto(c, "aborted") /\ UNCHANGED <<latch, main>>
    <3>1. Same
      BY <1>3, <2>2 DEF DoSomething, Uncounted, ThreadsOf, TypeOK
    <3> QED
      BY <1>0, <3>1
  <2> QED
    BY <1>3, <2>1, <2>2 DEF DoSomething
<1>4. ASSUME NEW c \in Client, Process(c) PROVE Same
  <2>1. pc' = pc \/ Goto(c, "getChildren")
    BY <1>4 DEF Process
  <2>2. pc[c] = "await" /\ UNCHANGED <<latch, main>>
    BY <1>4 DEF Process, EventMatchesWait
  <2> QED
    BY <2>1, <2>2 DEF Uncounted, ThreadsOf, TypeOK
<1>5. ASSUME NEW c \in Client, Expire(c) PROVE Same
  BY <1>5 DEF Expire, Uncounted
<1>6. ASSUME NEW j \in Jvm, MainReturns(j) PROVE LatchOk'
  <2>1. \A i \in Jvm : Uncounted(i)' = Uncounted(i)
    BY <1>6 DEF MainReturns, Uncounted
  <2> QED
    BY <1>6, <2>1 DEF MainReturns, LatchOk, TypeOK
<1>7. ASSUME NEW j \in Jvm, Exit(j) \/ Crash(j) PROVE LatchOk'
  <2>1. Halt(j)
    BY <1>7 DEF Exit, Crash
  <2>2. \A i \in Jvm \ {j} : Uncounted(i)' = Uncounted(i) /\ main'[i] = main[i]
    BY <2>1 DEF Halt, Uncounted, ThreadsOf, TypeOK
  <2>3. main'[j] = "dead" /\ UNCHANGED latch
    BY <2>1 DEF Halt, TypeOK
  <2> QED
    BY <2>2, <2>3 DEF LatchOk
<1>8. CASE UNCHANGED vars
  BY <1>8 DEF vars, LatchOk, Uncounted
<1> QED
  BY <1>0, <1>1, <1>2, <1>3, <1>4, <1>5, <1>6, <1>7, <1>8 DEF Next, Step

\* TestLock.main: the latch lets main go on only after every thread of the
\* process has run its task, for any number of threads.
THEOREM LockMainReturnsLast == Spec => []MainReturnsLast
<1>1. Init => LatchOk
  BY DEF Init, LatchOk, Uncounted, ThreadsOf
<1>2. LatchOk => MainReturnsLast
  <2> SUFFICES ASSUME LatchOk, NEW j \in Jvm, main[j] = "returned"
               PROVE  Uncounted(j) = {}
    BY DEF MainReturnsLast, Uncounted
  <2>1. Cardinality(Uncounted(j)) = 0
    BY DEF LatchOk
  <2> QED
    BY <2>1, UncountedFinite, FS_EmptySet
<1> QED
  BY <1>1, <1>2, LatchOkStep, IInvHolds, PTL DEF Spec
-----------------------------------------------------------------------------
\* LockWatcher, TestLock: under every fault, no thread of a process upsets another
\* one: events match, one creator, main last.
THEOREM LockThreadsInv == Spec => []ThreadsInv
BY LockEventMatchesWait, LockOneCreator, LockMainReturnsLast, PTL DEF ThreadsInv
-----------------------------------------------------------------------------
Inside == {c \in Client : pc[c] = "doInvoke" /\ Open(c)}
LineVars == <<znode, ticket, counter, Inside>>

\* A step of c that neither enters nor leaves the task, nor touches the nodes,
\* is invisible in the line.
LEMMA QuietStep ==
    ASSUME TypeOK, NEW c \in Client, NEW label \in Pc,
           Goto(c, label), pc[c] # "doInvoke", label # "doInvoke",
           UNCHANGED <<znode, ticket, counter>>,
           \A d \in Client \ {c} : session'[d] = session[d]
    PROVE  UNCHANGED LineVars
BY DEF TypeOK, Goto, LineVars, Inside, Open

\* The end of a session takes its client out of the line.
LEMMA EndSessionStep ==
    ASSUME IInv, NEW c \in Client, EndSession(c),
           \A d \in Client \ {c} : pc'[d] = pc[d]
    PROVE  Line!DropOut(c) \/ UNCHANGED LineVars
<1>1. Inside' = Inside \ {c}
  BY DEF IInv, TypeOK, EndSession, Inside, Open
<1>2. CASE c \in znode
  BY <1>1, <1>2 DEF EndSession, FireWatches, Line!DropOut, Inside
<1>3. CASE c \notin znode
  <2>1. c \notin Inside
    BY <1>3 DEF IInv, QueueOk, Locking, Inside
  <2> QED
    BY <1>1, <1>3, <2>1 DEF EndSession, FireWatches, LineVars
<1> QED
  BY <1>2, <1>3

\* Every step of the lock is a step of FifoLock or leaves the line alone.
LEMMA LineStep == IInv /\ [Next]_vars => [Line!Next]_(Line!lineVars)
<1> SUFFICES ASSUME IInv, [Next]_vars
             PROVE Line!Next \/ UNCHANGED LineVars
  BY DEF Line!lineVars, LineVars, Inside
<1>0. TypeOK
  BY DEF IInv
<1> USE <1>0 DEF zkVars, jvmVars, selfVars
<1>1. ASSUME NEW c \in Client,
             \/ Connect(c) \/ ReadFlag(c) \/ EnterMonitor(c) \/ ExistsParent(c)
             \/ RaiseFlag(c) \/ CreateParent(c) \/ GetData(c) \/ ExistsWait(c) \/ ExistsSelf(c)
      PROVE UNCHANGED LineVars
  <2>1. PICK label \in Pc \ {"doInvoke"} : Goto(c, label)
    BY <1>1 DEF Connect, ReadFlag, EnterMonitor, ExistsParent, RaiseFlag, CreateParent,
                GetData, ExistsWait, ExistsSelf, Throw, Pc, Locking, Ended, Synchronized
  <2>2. pc[c] # "doInvoke"
    BY <1>1 DEF Connect, ReadFlag, EnterMonitor, ExistsParent, RaiseFlag, CreateParent,
                GetData, ExistsWait, ExistsSelf
  <2>3. /\ UNCHANGED <<znode, ticket, counter>>
        /\ \A d \in Client \ {c} : session'[d] = session[d]
    BY <1>1 DEF Connect, ReadFlag, EnterMonitor, ExistsParent, RaiseFlag, CreateParent,
                GetData, ExistsWait, ExistsSelf, TypeOK
  <2> QED
    BY <2>1, <2>2, <2>3, QuietStep
<1>2. ASSUME NEW c \in Client, CreateNode(c) PROVE Line!Arrive(c) \/ UNCHANGED LineVars
  <2>1. Inside' = Inside
    BY <1>2 DEF CreateNode, Throw, Goto, Inside, TypeOK, Open
  <2>2. ticket[c] = 0
    BY <1>2 DEF CreateNode, IInv, NodesOk, BeforeNode
  <2> QED
    BY <1>2, <2>1, <2>2 DEF CreateNode, AddNode, Line!Arrive, LineVars, Inside
<1>3. ASSUME NEW c \in Client, GetChildren(c) PROVE Line!Enter(c) \/ UNCHANGED LineVars
  <2>1. CASE Goto(c, "doInvoke") /\ Open(c) /\ c \in znode /\ Ahead(c) = {}
    <3>1. \A d \in znode \ {c} : ticket[c] < ticket[d]
      BY <2>1 DEF Ahead, IInv, NodesOk, TypeOK
    <3>2. pc[c] = "getChildren" /\ UNCHANGED <<znode, ticket, counter, session>>
      BY <1>3 DEF GetChildren
    <3>3. Inside = {}
      <4> SUFFICES ASSUME NEW d \in Inside PROVE FALSE
        OBVIOUS
      <4>1. d \in znode /\ d # c /\ ticket[d] < ticket[c]
        BY <2>1, <3>2 DEF Inside, IInv, QueueOk, Locking
      <4> QED
        BY <3>1, <4>1 DEF TypeOK
    <3>4. Inside' = {c}
      BY <2>1, <3>2, <3>3 DEF Inside, Goto, Open, TypeOK
    <3> QED
      BY <2>1, <3>1, <3>2, <3>3, <3>4 DEF Line!Enter, Inside
  <2>2. CASE Goto(c, "getData") \/ Goto(c, "aborted")
    <3>1. "getData" \in Pc /\ "aborted" \in Pc
      BY DEF Pc, Locking, Ended
    <3>2. /\ pc[c] # "doInvoke"
          /\ UNCHANGED <<znode, ticket, counter, session>>
      BY <1>3 DEF GetChildren
    <3> QED
      BY <2>2, <3>1, <3>2, QuietStep
  <2> QED
    BY <1>3, <2>1, <2>2 DEF GetChildren
<1>4. ASSUME NEW c \in Client, DoSomething(c) PROVE Line!Leave(c) \/ UNCHANGED LineVars
  <2>1. Inside' = Inside \ {c} /\ UNCHANGED <<znode, ticket, counter>>
    BY <1>4 DEF DoSomething, CountDown, Goto, Inside, TypeOK, Open
  <2> QED
    BY <2>1 DEF Line!Leave, LineVars, Inside
<1>5. ASSUME NEW c \in Client, Delete(c) PROVE Line!DropOut(c) \/ UNCHANGED LineVars
  <2>1. Inside' = Inside /\ c \notin Inside
    BY <1>5 DEF Delete, Goto, Inside, TypeOK, Open
  <2> QED
    BY <1>5, <2>1 DEF Delete, RemoveNode, FireWatches, Line!DropOut, LineVars, Inside
<1>6. ASSUME NEW c \in Client, Close(c) \/ Expire(c)
      PROVE Line!DropOut(c) \/ UNCHANGED LineVars
  <2>1. \A d \in Client \ {c} : pc'[d] = pc[d]
    BY <1>6 DEF Close, Expire, Goto, TypeOK
  <2>2. CASE EndSession(c)
    BY <2>1, <2>2, EndSessionStep
  <2>3. CASE Close(c) /\ session' = [session EXCEPT ![c] = "left"]
                      /\ UNCHANGED <<znode, ticket, counter>>
    <3>1. pc[c] = "close" /\ Goto(c, "done")
      BY <2>3 DEF Close
    <3>2. "done" \in Pc /\ \A d \in Client \ {c} : session'[d] = session[d]
      BY <2>3 DEF Pc, Ended, TypeOK
    <3> QED
      BY <2>3, <3>1, <3>2, QuietStep
  <2> QED
    BY <1>6, <2>2, <2>3 DEF Close, Expire
<1>7. ASSUME NEW c \in Client, Process(c) PROVE UNCHANGED LineVars
  <2>1. PICK d \in event[c] : IF d = waitPath[c] THEN Goto(c, "getChildren") ELSE UNCHANGED pc
    BY <1>7 DEF Process
  <2>2. pc[c] # "doInvoke"
    BY <2>1, <1>7 DEF Process, IInv, WatchOk, EventMatchesWait
  <2>3. UNCHANGED <<znode, ticket, counter, session>>
    BY <1>7 DEF Process
  <2>4. CASE Goto(c, "getChildren")
    BY <2>2, <2>3, <2>4, QuietStep DEF Pc, Locking
  <2>5. CASE UNCHANGED pc
    BY <2>3, <2>5 DEF LineVars, Inside, Open
  <2> QED
    BY <2>1, <2>4, <2>5
<1>8. ASSUME NEW j \in Jvm, MainReturns(j) PROVE UNCHANGED LineVars
  BY <1>8 DEF MainReturns, LineVars, Inside, Open
<1>9. ASSUME NEW j \in Jvm, Exit(j) \/ Crash(j)
      PROVE (\E c \in Client : Line!Leave(c)) \/ UNCHANGED LineVars
  <2>1. Inside' = {c \in Inside : JvmOf[c] # j} /\ UNCHANGED <<znode, ticket, counter>>
    BY <1>9 DEF Exit, Crash, Halt, Inside, TypeOK, Open
  <2>2. CASE \E c \in Inside : JvmOf[c] = j
    <3>1. PICK c \in Inside : JvmOf[c] = j
      BY <2>2
    <3>2. Inside = {c}
      BY <3>1, MutexFromInv DEF LeaseMutex, Inside
    <3>3. Line!Leave(c)
      BY <2>1, <3>1, <3>2 DEF Line!Leave, Inside
    <3> QED
      BY <3>1, <3>3 DEF Inside
  <2>3. CASE \A c \in Inside : JvmOf[c] # j
    BY <2>1, <2>3 DEF LineVars
  <2> QED
    BY <2>2, <2>3
<1>10. CASE UNCHANGED vars
  BY <1>10 DEF vars, LineVars, Inside, Open
<1> QED
  BY <1>1, <1>2, <1>3, <1>4, <1>5, <1>6, <1>7, <1>8, <1>9, <1>10
     DEF Next, Step, Line!Next

\* The lock is a FIFO lock for every set of clients and every fault: the nodes
\* are a line that is joined at the end and entered at the front, one client
\* with a session at a time.
THEOREM LockImplementsFifo == Spec => ImplementsFifoLock
<1>1. Init => Line!Init
  BY DEF Init, Line!Init, Open
<1> QED
  BY <1>1, LineStep, IInvHolds, PTL DEF Spec, ImplementsFifoLock, Line!Spec
=============================================================================
