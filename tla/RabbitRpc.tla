----------------------------- MODULE RabbitRpc -----------------------------
(***************************************************************************)
(* com.hewentian.rabbitmq.demo.RPCClient and RPCServer: a call publishes a *)
(* request to rpc_queue and takes the reply with its correlation id from   *)
(* the reply queue of its client.  A server takes one request at a time,   *)
(* replies, and then acknowledges.                                         *)
(*                                                                         *)
(* The broker hands the messages of a reply queue to its consumers in      *)
(* turn; RPCClient.call starts one more consumer each time it runs.  The   *)
(* connection of a process that ends gives its request back to the head of *)
(* rpc_queue.  The broker itself does not fail.                            *)
(***************************************************************************)
EXTENDS Naturals, Sequences

CONSTANTS
    Client,
    Server,
    Inputs,     \* a subset of {"number", "text", "negative"}: what callers send
    MaxCalls,   \* bound of the calls of each client
    MaxCrashes, \* bound of the crashes of server processes
    None        \* no request

ASSUME RpcAssumption ==
    /\ Inputs \subseteq {"number", "text", "negative"}
    /\ MaxCalls \in [Client -> Nat]
    /\ MaxCrashes \in Nat
    /\ None \notin Client \X Nat

VARIABLES
    declared,   \* rpc_queue exists
    rpcQueue,   \* the correlation ids of the requests in it
    input,      \* what the request with a correlation id asks
    replyQueue, \* of each client
    consumers,  \* of each reply queue: their correlation ids, the next one first
    client,     \* where each client is
    calls,      \* the number of calls a client has begun
    response,   \* the BlockingQueue of the current call
    results,    \* what the calls of a client have returned
    server,     \* where each server is
    request,    \* the request a server has not acknowledged
    answered,   \* the requests a reply has been published for
    crashes

clientVars == <<consumers, client, calls, response, results>>
serverVars == <<server, request, answered, crashes>>
vars == <<declared, rpcQueue, input, replyQueue, clientVars, serverVars>>

CorrId == UNION {{k} \X (1 .. MaxCalls[k]) : k \in Client}
Current(k) == <<k, calls[k]>>
Elements(s) == {s[i] : i \in DOMAIN s}

\* What a server replies: fib(n), or nothing when n is not a number it can do.
Answer(id) == IF input[id] = "number" THEN id ELSE "empty"

Init ==
    /\ declared = FALSE
    /\ rpcQueue = <<>>
    /\ input \in [CorrId -> Inputs]
    /\ replyQueue = [k \in Client |-> <<>>]
    /\ consumers = [k \in Client |-> <<>>]
    /\ client = [k \in Client |-> "idle"]
    /\ calls = [k \in Client |-> 0]
    /\ response = [k \in Client |-> <<>>]
    /\ results = [k \in Client |-> <<>>]
    /\ server = [s \in Server |-> "off"]
    /\ request = [s \in Server |-> None]
    /\ answered = {}
    /\ crashes = 0
-----------------------------------------------------------------------------
\* RPCClient.call

\* The default exchange drops a request when there is no rpc_queue.
PublishRequest(k) ==
    /\ client[k] = "idle"
    /\ calls[k] < MaxCalls[k]
    /\ client' = [client EXCEPT ![k] = "consume"]
    /\ calls' = [calls EXCEPT ![k] = @ + 1]
    /\ rpcQueue' = IF declared THEN Append(rpcQueue, <<k, calls[k] + 1>>) ELSE rpcQueue
    /\ UNCHANGED <<declared, input, replyQueue, consumers, response, results, serverVars>>

BasicConsume(k) ==
    /\ client[k] = "consume"
    /\ client' = [client EXCEPT ![k] = "take"]
    /\ consumers' = [consumers EXCEPT ![k] = Append(@, Current(k))]
    /\ response' = [response EXCEPT ![k] = <<>>]
    /\ UNCHANGED <<declared, rpcQueue, input, replyQueue, calls, results, serverVars>>

\* Mutant: the correlation id is not looked at.
Accepts_Any(k, consumer, reply) == consumer = Current(k) /\ response[k] = <<>>

\* What a consumer of an earlier call accepts goes to a queue nobody reads.
Accepts(k, consumer, reply) ==
    /\ consumer = reply.corrId
    /\ consumer = Current(k)
    /\ response[k] = <<>>

HandleReply(k) ==
    /\ replyQueue[k] # <<>>
    /\ consumers[k] # <<>>
    /\ replyQueue' = [replyQueue EXCEPT ![k] = Tail(@)]
    /\ consumers' = [consumers EXCEPT ![k] = Append(Tail(@), Head(@))]
    /\ response' =
        IF Accepts(k, Head(consumers[k]), Head(replyQueue[k]))
          THEN [response EXCEPT ![k] = Append(@, Head(replyQueue[k]).body)]
          ELSE response
    /\ UNCHANGED <<declared, rpcQueue, input, client, calls, results, serverVars>>

Take(k) ==
    /\ client[k] = "take"
    /\ response[k] # <<>>
    /\ client' = [client EXCEPT ![k] = "idle"]
    /\ results' = [results EXCEPT ![k] = Append(@, Head(response[k]))]
    /\ response' = [response EXCEPT ![k] = <<>>]
    /\ UNCHANGED <<declared, rpcQueue, input, replyQueue, consumers, calls, serverVars>>

\* RPCClient.close, or the end of the process: the reply queue goes away.
Close(k) ==
    /\ client[k] # "closed"
    /\ client' = [client EXCEPT ![k] = "closed"]
    /\ replyQueue' = [replyQueue EXCEPT ![k] = <<>>]
    /\ consumers' = [consumers EXCEPT ![k] = <<>>]
    /\ response' = [response EXCEPT ![k] = <<>>]
    /\ UNCHANGED <<declared, rpcQueue, input, calls, results, serverVars>>
-----------------------------------------------------------------------------
\* RPCServer.main

Start(s) ==
    /\ server[s] = "off"
    /\ server' = [server EXCEPT ![s] = "wait"]
    /\ declared' = TRUE
    /\ UNCHANGED <<rpcQueue, input, replyQueue, clientVars, request, answered, crashes>>

Send(id) ==
    /\ replyQueue' =
        IF client[id[1]] = "closed" THEN replyQueue
        ELSE [replyQueue EXCEPT ![id[1]] = Append(@, [corrId |-> id, body |-> Answer(id)])]
    /\ answered' = answered \cup {id}

\* Mutant: the request is acknowledged before the reply is published.
Deliver_AutoAck(s) ==
    /\ server[s] = "wait"
    /\ rpcQueue # <<>>
    /\ rpcQueue' = Tail(rpcQueue)
    /\ \/ /\ Send(Head(rpcQueue))
          /\ UNCHANGED <<server, crashes>>
       \/ /\ crashes < MaxCrashes
          /\ crashes' = crashes + 1
          /\ server' = [server EXCEPT ![s] = "off"]
          /\ UNCHANGED <<replyQueue, answered>>
    /\ UNCHANGED <<declared, input, clientVars, request>>

Deliver(s) ==
    /\ server[s] = "wait"
    /\ rpcQueue # <<>>
    /\ server' = [server EXCEPT ![s] = "reply"]
    /\ request' = [request EXCEPT ![s] = Head(rpcQueue)]
    /\ rpcQueue' = Tail(rpcQueue)
    /\ UNCHANGED <<declared, input, replyQueue, clientVars, answered, crashes>>

PublishReply(s) ==
    /\ server[s] = "reply"
    /\ server' = [server EXCEPT ![s] = "ack"]
    /\ Send(request[s])
    /\ UNCHANGED <<declared, rpcQueue, input, clientVars, request, crashes>>

\* fib of a negative number overflows the stack: the error goes on after the
\* finally block, and the client library closes the channel.
BasicAck(s) ==
    /\ server[s] = "ack"
    /\ request' = [request EXCEPT ![s] = None]
    /\ server' = [server EXCEPT ![s] = IF input[request[s]] = "negative" THEN "closed" ELSE "wait"]
    /\ UNCHANGED <<declared, rpcQueue, input, replyQueue, clientVars, answered, crashes>>

Crash(s) ==
    /\ server[s] # "off"
    /\ crashes < MaxCrashes
    /\ crashes' = crashes + 1
    /\ server' = [server EXCEPT ![s] = "off"]
    /\ request' = [request EXCEPT ![s] = None]
    /\ rpcQueue' = IF request[s] = None THEN rpcQueue ELSE <<request[s]>> \o rpcQueue
    /\ UNCHANGED <<declared, input, replyQueue, clientVars, answered>>

Call(k) == PublishRequest(k) \/ BasicConsume(k) \/ Take(k)
Serve(s) == Deliver(s) \/ PublishReply(s) \/ BasicAck(s)

Next ==
    \/ \E k \in Client : Call(k) \/ HandleReply(k) \/ Close(k)
    \/ \E s \in Server : Start(s) \/ Serve(s) \/ Crash(s)

Spec == Init /\ [][Next]_vars
-----------------------------------------------------------------------------
\* The variables have the types their comments say.
TypeOK ==
    /\ declared \in BOOLEAN
    /\ rpcQueue \in Seq(CorrId)
    /\ input \in [CorrId -> Inputs]
    /\ client \in [Client -> {"idle", "consume", "take", "closed"}]
    /\ \A k \in Client : calls[k] \in 0 .. MaxCalls[k]
    /\ \A k \in Client : Elements(consumers[k]) \subseteq {k} \X (1 .. calls[k])
    /\ \A k \in Client : Len(consumers[k]) <= calls[k] /\ Len(response[k]) <= 1
    /\ server \in [Server -> {"off", "wait", "reply", "ack", "closed"}]
    /\ request \in [Server -> CorrId \cup {None}]
    /\ answered \subseteq CorrId
    /\ crashes \in 0 .. MaxCrashes

\* call: a call returns the answer to its own request, whatever replies of
\* earlier calls and of servers that repeat a request arrive.
RightAnswer ==
    \A k \in Client : \A n \in DOMAIN results[k] : results[k][n] = Answer(<<k, n>>)

\* call never takes more than one answer, and that one is its own.
AnswerInv == TypeOK /\ RightAnswer

InService == {request[s] : s \in Server} \ {None}

\* A first call made while rpc_queue exists returns, although servers crash and
\* repeat requests, if they are started again and no request closes a channel.
CallReturns ==
    \A k \in Client :
        calls[k] = 1 /\ <<k, 1>> \in Elements(rpcQueue) ~>
            client[k] \in {"idle", "closed"} \/ \E s \in Server : server[s] = "closed"

Accepted == Elements(rpcQueue) \cup InService \cup answered

RequestQueue == INSTANCE AckQueue WITH
    Message <- CorrId,
    Consumer <- Server,
    accepted <- Accepted,
    pending <- Elements(rpcQueue),
    held <- [s \in Server |-> {request[s]} \ {None}],
    handled <- answered

\* rpc_queue with its servers implements AckQueue.
ImplementsAckQueue == RequestQueue!Spec
=============================================================================
