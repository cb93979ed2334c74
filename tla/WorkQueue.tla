----------------------------- MODULE WorkQueue -----------------------------
(***************************************************************************)
(* com.hewentian.rabbitmq.demo.NewTask and Worker: persistent tasks in the *)
(* durable task_queue, taken one at a time and acknowledged when done.     *)
(*                                                                         *)
(* NewTask waits for no confirmation, and the broker writes a task to disk *)
(* some time after it took it.  When the broker restarts, the connections  *)
(* of the client library recover by themselves: a worker goes on with the  *)
(* deliveries it has, and an acknowledgement of one of them, which belongs *)
(* to an earlier channel, is dropped.                                      *)
(***************************************************************************)
EXTENDS Naturals, Sequences

CONSTANTS
    Task,
    Worker,
    MaxWorkerCrashes,   \* bound of the crashes of workers
    MaxRestarts         \* bound of the restarts of the broker

ASSUME QueueAssumption ==
    /\ MaxWorkerCrashes \in Nat
    /\ MaxRestarts \in Nat

VARIABLES
    sent,       \* the tasks NewTask has published
    wire,       \* the published tasks the broker has not taken
    queue,      \* the tasks ready in task_queue, in whatever order
    disk,       \* the tasks that have been written to disk
    unacked,    \* the tasks each worker's channel has not acknowledged
    inbox,      \* the deliveries a worker has; it works at the first
    working,    \* the workers inside handleDelivery that have done the work
    done,       \* the tasks whose doWork has come to its end
    running,    \* the workers that run
    workerCrashes,
    epoch       \* the number of restarts of the broker

workVars == <<sent, wire, queue, disk, unacked, inbox, working, done, running, workerCrashes, epoch>>

Unacked == UNION {unacked[w] : w \in Worker}

WorkInit ==
    /\ sent = {} /\ wire = {} /\ queue = {} /\ disk = {}
    /\ unacked = [w \in Worker |-> {}]
    /\ inbox = [w \in Worker |-> <<>>]
    /\ working = {} /\ done = {} /\ running = {}
    /\ workerCrashes = 0
    /\ epoch = 0
-----------------------------------------------------------------------------
\* NewTask.main
Publish(t) ==
    /\ t \notin sent
    /\ sent' = sent \cup {t}
    /\ wire' = wire \cup {t}
    /\ UNCHANGED <<queue, disk, unacked, inbox, working, done, running, workerCrashes, epoch>>

\* The broker takes a task, and writes it to disk.
Enqueue(t) ==
    /\ t \in wire
    /\ wire' = wire \ {t}
    /\ queue' = queue \cup {t}
    /\ UNCHANGED <<sent, disk, unacked, inbox, working, done, running, workerCrashes, epoch>>

Persist(t) ==
    /\ t \in (queue \cup Unacked) \ disk
    /\ disk' = disk \cup {t}
    /\ UNCHANGED <<sent, wire, queue, unacked, inbox, working, done, running, workerCrashes, epoch>>
-----------------------------------------------------------------------------
\* Worker.main
StartWorker(w) ==
    /\ w \notin running
    /\ running' = running \cup {w}
    /\ UNCHANGED <<sent, wire, queue, disk, unacked, inbox, working, done, workerCrashes, epoch>>

\* Mutant: basicConsume with autoAck.
DeliverTask_AutoAck(w, t) ==
    /\ w \in running
    /\ t \in queue
    /\ inbox[w] = <<>>
    /\ queue' = queue \ {t}
    /\ inbox' = [inbox EXCEPT ![w] = Append(@, [task |-> t, epoch |-> epoch])]
    /\ UNCHANGED <<sent, wire, disk, unacked, working, done, running, workerCrashes, epoch>>

\* basicQos(1): one unacknowledged delivery at a time.
DeliverTask(w, t) ==
    /\ w \in running
    /\ t \in queue
    /\ unacked[w] = {}
    /\ queue' = queue \ {t}
    /\ unacked' = [unacked EXCEPT ![w] = {t}]
    /\ inbox' = [inbox EXCEPT ![w] = Append(@, [task |-> t, epoch |-> epoch])]
    /\ UNCHANGED <<sent, wire, disk, working, done, running, workerCrashes, epoch>>

DoWork(w) ==
    /\ inbox[w] # <<>>
    /\ w \notin working
    /\ working' = working \cup {w}
    /\ done' = done \cup {Head(inbox[w]).task}
    /\ UNCHANGED <<sent, wire, queue, disk, unacked, inbox, running, workerCrashes, epoch>>

\* Mutant: no acknowledgement.
AckTask_None(w) ==
    /\ w \in working
    /\ working' = working \ {w}
    /\ inbox' = [inbox EXCEPT ![w] = Tail(@)]
    /\ UNCHANGED <<sent, wire, queue, disk, unacked, done, running, workerCrashes, epoch>>

\* The finally block.
AckTask(w) ==
    /\ w \in working
    /\ working' = working \ {w}
    /\ inbox' = [inbox EXCEPT ![w] = Tail(@)]
    /\ LET d == Head(inbox[w]) IN
       unacked' = IF d.epoch = epoch THEN [unacked EXCEPT ![w] = @ \ {d.task}] ELSE unacked
    /\ UNCHANGED <<sent, wire, queue, disk, done, running, workerCrashes, epoch>>
-----------------------------------------------------------------------------
\* A worker ends; its channel gives its tasks back.
CrashWorker(w) ==
    /\ w \in running
    /\ workerCrashes < MaxWorkerCrashes
    /\ workerCrashes' = workerCrashes + 1
    /\ running' = running \ {w}
    /\ working' = working \ {w}
    /\ inbox' = [inbox EXCEPT ![w] = <<>>]
    /\ queue' = queue \cup unacked[w]
    /\ unacked' = [unacked EXCEPT ![w] = {}]
    /\ UNCHANGED <<sent, wire, disk, done, epoch>>

\* What is on the way or not on disk is lost.
Restart ==
    /\ epoch < MaxRestarts
    /\ epoch' = epoch + 1
    /\ wire' = {}
    /\ queue' = (queue \cup Unacked) \cap disk
    /\ unacked' = [w \in Worker |-> {}]
    /\ UNCHANGED <<sent, disk, inbox, working, done, running, workerCrashes>>

Work(w) == (\E t \in Task : DeliverTask(w, t)) \/ DoWork(w) \/ AckTask(w)

WorkNext ==
    \/ \E t \in Task : Publish(t) \/ Enqueue(t) \/ Persist(t)
    \/ \E w \in Worker : StartWorker(w) \/ Work(w) \/ CrashWorker(w)
    \/ Restart

WorkSpec == WorkInit /\ [][WorkNext]_workVars
-----------------------------------------------------------------------------
\* The variables have the types their comments say.
TasksTypeOK ==
    /\ wire \subseteq sent /\ sent \subseteq Task
    /\ queue \subseteq Task
    /\ disk \subseteq Task
    /\ unacked \in [Worker -> SUBSET Task]
    /\ \A w \in Worker : \A t, u \in unacked[w] : t = u
    /\ inbox \in [Worker -> Seq([task : Task, epoch : 0 .. epoch])]
    /\ working \subseteq Worker /\ running \subseteq Worker
    /\ done \subseteq Task
    /\ workerCrashes \in 0 .. MaxWorkerCrashes
    /\ epoch \in 0 .. MaxRestarts

\* handleDelivery acknowledges in a finally block: a task on disk is in the
\* queue or with a worker's channel until it has been done, through crashes of
\* workers and restarts of the broker.
NoTaskLost == disk \subseteq queue \cup Unacked \cup done

\* Tasks the broker has are done in the end.
EveryTaskDone == \A t \in Task : t \in queue /\ epoch = MaxRestarts ~> t \in done

TaskQueue == INSTANCE AckQueue WITH
    Message <- Task,
    Consumer <- Worker,
    accepted <- queue \cup Unacked \cup done,
    pending <- queue,
    held <- unacked,
    handled <- done

\* As long as the broker does not restart, task_queue and its workers
\* implement AckQueue.
WorkImplementsAckQueue ==
    TaskQueue!Init /\ [][epoch' = 0 => TaskQueue!Next]_(TaskQueue!vars)
=============================================================================
