------------------------------ MODULE MCRabbit ------------------------------
(***************************************************************************)
(* The two programs on one broker, each in behaviours of its own, as they  *)
(* share no queue: the RPC with two clients, the first of which may call   *)
(* twice, and the work queue with three tasks and two workers.             *)
(***************************************************************************)
EXTENDS RabbitRpc, WorkQueue, TLC

CONSTANTS k1, k2, s1, s2, t1, t2, t3, w1, w2

TwoAndOne == (k1 :> 2) @@ (k2 :> 1)

VARIABLE program

\* What the calls ask matters in the first program only.
MCInit ==
    /\ Init /\ WorkInit
    /\ \/ program = "rpc"
       \/ program = "work" /\ \A id \in CorrId : input[id] = "number"

MCNext ==
    \/ program = "rpc" /\ Next /\ UNCHANGED <<workVars, program>>
    \/ program = "work" /\ WorkNext /\ UNCHANGED <<vars, program>>

\* In the RPC a call goes on, servers are started again, and the broker
\* delivers.
RpcFairness ==
    /\ \A k \in Client :
        /\ WF_vars(program = "rpc" /\ BasicConsume(k))
        /\ WF_vars(program = "rpc" /\ Take(k))
        /\ WF_vars(program = "rpc" /\ HandleReply(k))
    /\ \A s \in Server :
        /\ WF_vars(program = "rpc" /\ Start(s))
        /\ WF_vars(program = "rpc" /\ Serve(s))

\* In the work queue the broker does its part, and workers are started again
\* and go on.
WorkFairness ==
    /\ \A t \in Task :
        /\ WF_workVars(program = "work" /\ Enqueue(t))
        /\ WF_workVars(program = "work" /\ Persist(t))
    /\ \A w \in Worker :
        /\ WF_workVars(program = "work" /\ StartWorker(w))
        /\ WF_workVars(program = "work" /\ Work(w))

MCSpec ==
    /\ MCInit /\ [][MCNext]_<<vars, workVars, program>>
    /\ RpcFairness /\ WorkFairness
=============================================================================
