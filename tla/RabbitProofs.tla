---------------------------- MODULE RabbitProofs ----------------------------
(***************************************************************************)
(* The two programs over RabbitMQ.  A remote call returns the answer to    *)
(* its own request, for any number of clients, servers, calls and crashes; *)
(* no task on disk is lost, for any number of tasks, workers, crashes and  *)
(* restarts; and the queue of either program implements AckQueue, that of  *)
(* the tasks while the broker runs.                                        *)
(***************************************************************************)
EXTENDS RabbitRpc, WorkQueue, SequenceTheorems, TLAPS

Body == CorrId \cup {"empty"}
Reply == [corrId : CorrId, body : Body]

TypesOk ==
    /\ TypeOK
    /\ calls \in [Client -> Nat]
    /\ replyQueue \in [Client -> Seq(Reply)]
    /\ consumers \in [Client -> Seq(CorrId)]
    /\ response \in [Client -> Seq(Body)]
    /\ results \in [Client -> Seq(Body)]

\* A client has a result for each call it has finished; a response left over
\* from an earlier call is dropped before the client waits for the next one.
CallOk ==
    \A k \in Client :
        /\ client[k] = "idle" => Len(results[k]) = calls[k]
        /\ client[k] \in {"consume", "take"} => Len(results[k]) + 1 = calls[k]
        /\ client[k] = "consume" => Len(consumers[k]) < calls[k]
        /\ client[k] = "take" /\ response[k] # <<>> => response[k][1] = Answer(Current(k))

\* A reply answers the request it names.
RepliesOk ==
    \A k \in Client : \A i \in DOMAIN replyQueue[k] :
        replyQueue[k][i].body = Answer(replyQueue[k][i].corrId)

\* A server has a request exactly while it works at it, and has answered the one
\* it acknowledges.
ServersOk ==
    \A s \in Server :
        /\ server[s] \in {"reply", "ack"} <=> request[s] # None
        /\ server[s] = "ack" => request[s] \in answered

IInv == TypesOk /\ CallOk /\ RepliesOk /\ ServersOk /\ RightAnswer
-----------------------------------------------------------------------------
\* Sequences as sets.
LEMMA ElementsAppend ==
    ASSUME NEW S, NEW s \in Seq(S), NEW x \in S
    PROVE  Elements(Append(s, x)) = Elements(s) \cup {x}
<1>1. DOMAIN Append(s, x) = DOMAIN s \cup {Len(s) + 1}
  OBVIOUS
<1>2. \A i \in DOMAIN s : Append(s, x)[i] = s[i]
  OBVIOUS
<1>3. Append(s, x)[Len(s) + 1] = x
  OBVIOUS
<1> QED
  BY <1>1, <1>2, <1>3 DEF Elements

LEMMA ElementsTail ==
    ASSUME NEW S, NEW s \in Seq(S), s # <<>>
    PROVE  Elements(s) = {Head(s)} \cup Elements(Tail(s))
<1>1. /\ Tail(s) \in Seq(S) /\ Len(Tail(s)) = Len(s) - 1
      /\ \A i \in 1 .. Len(Tail(s)) : Tail(s)[i] = s[i + 1]
      /\ Head(s) = s[1] /\ Len(s) \in Nat \ {0}
  BY HeadTailProperties, EmptySeq
<1>2. DOMAIN s = 1 .. Len(s) /\ DOMAIN Tail(s) = 1 .. Len(s) - 1
  BY <1>1
<1>3. \A i \in 2 .. Len(s) : i - 1 \in 1 .. Len(s) - 1 /\ s[i] = Tail(s)[i - 1]
  BY <1>1
<1>4. Elements(s) \subseteq {Head(s)} \cup Elements(Tail(s))
  <2> SUFFICES ASSUME NEW i \in DOMAIN s PROVE s[i] = Head(s) \/ s[i] \in Elements(Tail(s))
    BY DEF Elements
  <2>1. i = 1 \/ i \in 2 .. Len(s)
    BY <1>1, <1>2
  <2> QED
    BY <2>1, <1>1, <1>2, <1>3 DEF Elements
<1>5. {Head(s)} \cup Elements(Tail(s)) \subseteq Elements(s)
  BY <1>1, <1>2 DEF Elements
<1> QED
  BY <1>4, <1>5

LEMMA ElementsPush ==
    ASSUME NEW S, NEW s \in Seq(S), NEW x \in S
    PROVE  Elements(<<x>> \o s) = {x} \cup Elements(s)
<1> DEFINE t == <<x>> \o s
<1>1. t \in Seq(S) /\ t # <<>> /\ Head(t) = x /\ Tail(t) = s
  OBVIOUS
<1> HIDE DEF t
<1>2. Elements(t) = {Head(t)} \cup Elements(Tail(t))
  BY <1>1, ElementsTail
<1> QED
  BY <1>1, <1>2 DEF t

LEMMA CorrIdIs ==
    /\ \A id \in CorrId : id[1] \in Client /\ id[2] \in 1 .. MaxCalls[id[1]] /\ id = <<id[1], id[2]>>
    /\ \A k \in Client : \A n \in 1 .. MaxCalls[k] : <<k, n>> \in CorrId
    /\ None \notin CorrId
<1>1. \A id \in CorrId : id[1] \in Client /\ id[2] \in 1 .. MaxCalls[id[1]] /\ id = <<id[1], id[2]>>
  BY DEF CorrId
<1>2. \A k \in Client : MaxCalls[k] \in Nat
  BY RpcAssumption
<1>3. None \notin CorrId
  BY <1>1, <1>2, RpcAssumption
<1> QED
  BY <1>1, <1>3 DEF CorrId

LEMMA AnswerIsBody == ASSUME input \in [CorrId -> Inputs], NEW id \in CorrId PROVE Answer(id) \in Body
BY DEF Answer, Body

LEMMA ReplaceOne ==
    ASSUME NEW f \in [Client -> Seq(Body)], \A j \in Client : Len(f[j]) <= 1,
           NEW k \in Client, NEW x \in Seq(Body), Len(x) = 1,
           NEW g, g = [f EXCEPT ![k] = x]
    PROVE  g \in [Client -> Seq(Body)] /\ \A j \in Client : Len(g[j]) <= 1
<1>1. g \in [Client -> Seq(Body)]
  OBVIOUS
<1>2. ASSUME NEW j \in Client PROVE Len(g[j]) <= 1
  <2>1. CASE j = k
    <3>1. g[j] = x
      BY <2>1
    <3>2. Len(g[j]) = 1
      BY <3>1, Zenon
    <3>3. \A n : n = 1 => n <= 1
      OBVIOUS
    <3> QED
      BY <3>2, <3>3, Zenon
  <2>2. CASE j # k
    <3>1. g[j] = f[j]
      BY <2>2
    <3> QED
      BY <3>1, Zenon
  <2> QED
    BY <2>1, <2>2
<1> QED
  BY <1>1, <1>2

\* What a client has got so far, and what it waits for.
LEMMA CurrentIs ==
    ASSUME TypesOk, NEW k \in Client, calls[k] # 0
    PROVE  Current(k) \in CorrId
BY CorrIdIs, RpcAssumption DEF TypesOk, TypeOK, Current
-----------------------------------------------------------------------------
LEMMA TypesOkInit == Init => TypesOk
<1> SUFFICES ASSUME Init PROVE TypesOk
  OBVIOUS
<1> USE RpcAssumption DEF Init
<1>1. calls \in [Client -> Nat] /\ \A k \in Client : calls[k] \in 0 .. MaxCalls[k]
  OBVIOUS
<1>2. /\ <<>> \in Seq(Reply) /\ <<>> \in Seq(CorrId) /\ <<>> \in Seq(Body)
      /\ Len(<<>>) = 0 /\ Elements(<<>>) = {}
  BY DEF Elements
<1>3. /\ replyQueue \in [Client -> Seq(Reply)]
      /\ consumers \in [Client -> Seq(CorrId)]
      /\ response \in [Client -> Seq(Body)]
      /\ results \in [Client -> Seq(Body)]
      /\ rpcQueue \in Seq(CorrId)
  BY <1>2
<1>4. \A k \in Client : /\ Elements(consumers[k]) \subseteq {k} \X (1 .. calls[k])
                        /\ Len(consumers[k]) <= calls[k] /\ Len(response[k]) <= 1
  <2> TAKE k \in Client
  <2>1. consumers[k] = <<>> /\ response[k] = <<>> /\ calls[k] = 0
    OBVIOUS
  <2>2. Elements(consumers[k]) = {} /\ Len(consumers[k]) = 0 /\ Len(response[k]) = 0
    BY <1>2, <2>1, Zenon
  <2> HIDE DEF Init
  <2> QED
    BY <2>1, <2>2
<1>5. /\ request \in [Server -> CorrId \cup {None}]
      /\ crashes \in 0 .. MaxCrashes
      /\ server \in [Server -> {"off", "wait", "reply", "ack", "closed"}]
  OBVIOUS
<1> QED
  BY <1>1, <1>3, <1>4, <1>5 DEF TypesOk, TypeOK

LEMMA CallsBefore ==
    ASSUME NEW j, NEW c \in Nat, NEW d \in Nat, c <= d
    PROVE  {j} \X (1 .. c) \subseteq {j} \X (1 .. d)
<1>1. 1 .. c \subseteq 1 .. d
  OBVIOUS
<1> QED BY <1>1

LEMMA OneMoreCall ==
    ASSUME NEW m \in [Client -> Nat], NEW c \in [Client -> Nat], \A j \in Client : c[j] \in 0 .. m[j],
           NEW k \in Client, c[k] < m[k], NEW d, d = [c EXCEPT ![k] = @ + 1]
    PROVE  d \in [Client -> Nat] /\ \A j \in Client : d[j] \in 0 .. m[j] /\ c[j] <= d[j]
<1>1. d \in [Client -> Nat] /\ d[k] = c[k] + 1 /\ \A j \in Client \ {k} : d[j] = c[j]
  OBVIOUS
<1> QED BY <1>1

LEMMA TypesOkStep == TypesOk /\ CallOk /\ ServersOk /\ [Next]_vars => TypesOk'
<1> SUFFICES ASSUME TypesOk, CallOk, ServersOk, [Next]_vars PROVE TypesOk'
  OBVIOUS
<1> USE RpcAssumption DEF TypesOk, TypeOK, clientVars, serverVars
<1>1. ASSUME NEW k \in Client, PublishRequest(k) PROVE TypesOk'
  <2>1. calls[k] + 1 \in 1 .. MaxCalls[k]
    BY <1>1 DEF PublishRequest
  <2>2. <<k, calls[k] + 1>> \in CorrId
    BY <2>1, CorrIdIs
  <2>3. rpcQueue' \in Seq(CorrId)
    BY <1>1, <2>2 DEF PublishRequest
  <2>4. calls' \in [Client -> Nat] /\ \A j \in Client : calls'[j] \in 0 .. MaxCalls[j] /\ calls[j] <= calls'[j]
    <3>1. calls' = [calls EXCEPT ![k] = @ + 1] /\ calls[k] < MaxCalls[k]
      BY <1>1 DEF PublishRequest
    <3>2. calls \in [Client -> Nat] /\ MaxCalls \in [Client -> Nat] /\ \A j \in Client : calls[j] \in 0 .. MaxCalls[j]
      OBVIOUS
    <3> QED
      BY <3>1, <3>2, OneMoreCall
  <2>5. \A j \in Client : /\ Elements(consumers'[j]) \subseteq {j} \X (1 .. calls'[j])
                          /\ Len(consumers'[j]) <= calls'[j] /\ Len(response'[j]) <= 1
    <3>1. UNCHANGED <<consumers, response>>
      BY <1>1 DEF PublishRequest
    <3> TAKE j \in Client
    <3>2. Len(consumers[j]) \in Nat /\ Len(consumers[j]) <= calls[j] /\ calls[j] \in Nat
      OBVIOUS
    <3>3. calls'[j] \in Nat /\ calls[j] <= calls'[j]
      BY <2>4
    <3>4. {j} \X (1 .. calls[j]) \subseteq {j} \X (1 .. calls'[j])
      BY <3>2, <3>3, CallsBefore
    <3>5. consumers'[j] = consumers[j] /\ response'[j] = response[j]
      BY <3>1
    <3>6. Elements(consumers'[j]) \subseteq {j} \X (1 .. calls'[j])
      BY <3>4, <3>5
    <3>7. Len(consumers'[j]) <= calls'[j]
      BY <3>2, <3>3, <3>5
    <3>8. Len(response'[j]) <= 1
      BY <3>5
    <3> QED
      BY ZenonT(20), <3>6, <3>7, <3>8
  <2> QED
    BY <1>1, <2>3, <2>4, <2>5 DEF PublishRequest
<1>2. ASSUME NEW k \in Client, BasicConsume(k) PROVE TypesOk'
  <2>1. Len(consumers[k]) < calls[k] /\ calls[k] # 0
    BY <1>2 DEF BasicConsume, CallOk
  <2>2. Current(k) \in CorrId
    BY <2>1, CurrentIs
  <2>3. Elements(Append(consumers[k], Current(k))) = Elements(consumers[k]) \cup {Current(k)}
    BY <2>2, ElementsAppend
  <2>4. Current(k) \in {k} \X (1 .. calls[k])
    BY <2>1 DEF Current
  <2>5. Append(consumers[k], Current(k)) \in Seq(CorrId)
        /\ Len(Append(consumers[k], Current(k))) <= calls[k]
    BY <2>1, <2>2
  <2>6. <<>> \in Seq(Body) /\ Len(<<>>) = 0
    OBVIOUS
  <2>7. consumers' \in [Client -> Seq(CorrId)] /\ response' \in [Client -> Seq(Body)]
    BY <1>2, <2>5, <2>6 DEF BasicConsume
  <2>8. \A j \in Client : /\ Elements(consumers'[j]) \subseteq {j} \X (1 .. calls[j])
                          /\ Len(consumers'[j]) <= calls[j] /\ Len(response'[j]) <= 1
    <3> TAKE j \in Client
    <3>1. CASE j = k
      <4>1. consumers'[j] = Append(consumers[k], Current(k)) /\ response'[j] = <<>>
        BY <1>2, <3>1 DEF BasicConsume
      <4> QED BY <2>3, <2>4, <2>5, <2>6, <3>1, <4>1
    <3>2. CASE j # k
      <4>1. consumers'[j] = consumers[j] /\ response'[j] = response[j]
        BY <1>2, <3>2 DEF BasicConsume
      <4> QED BY <4>1
    <3> QED BY <3>1, <3>2
  <2> QED
    BY <1>2, <2>7, <2>8 DEF BasicConsume
<1>3. ASSUME NEW k \in Client, HandleReply(k) PROVE TypesOk'
  <2> DEFINE h == Head(consumers[k])
             t == Tail(consumers[k])
             r == Head(replyQueue[k])
  <2>1. consumers[k] # <<>> /\ replyQueue[k] # <<>>
    BY <1>3 DEF HandleReply
  <2>2. /\ h \in CorrId /\ t \in Seq(CorrId) /\ Len(t) = Len(consumers[k]) - 1
        /\ Append(t, h) \in Seq(CorrId) /\ Len(Append(t, h)) = Len(consumers[k])
    BY <2>1, HeadTailProperties
  <2>3. Elements(Append(t, h)) = Elements(consumers[k])
    <3>1. Elements(consumers[k]) = {h} \cup Elements(t)
      BY <2>1, ElementsTail
    <3>2. Elements(Append(t, h)) = Elements(t) \cup {h}
      <4> HIDE DEF t, h
      <4> QED
        BY <2>2, ElementsAppend
    <3> QED
      BY <3>1, <3>2
  <2>4. r \in Reply /\ Tail(replyQueue[k]) \in Seq(Reply)
    <3> HIDE DEF r
    <3> QED
      BY <2>1, HeadTailProperties DEF r
  <2>5. r.body \in Body
    BY <2>4 DEF Reply
  <2> HIDE DEF h, t, r
  <2>6. replyQueue' \in [Client -> Seq(Reply)]
    BY <1>3, <2>4 DEF HandleReply
  <2>7. consumers' = [consumers EXCEPT ![k] = Append(t, h)]
    BY <1>3 DEF HandleReply, h, t
  <2>8. consumers' \in [Client -> Seq(CorrId)]
        /\ \A j \in Client : Elements(consumers'[j]) = Elements(consumers[j])
                             /\ Len(consumers'[j]) = Len(consumers[j])
    BY <2>2, <2>3, <2>7
  <2>9. \/ response' = response
        \/ response[k] = <<>> /\ response' = [response EXCEPT ![k] = Append(@, r.body)]
    BY <1>3 DEF HandleReply, Accepts, r
  <2>10. response[k] = <<>> => Append(response[k], r.body) \in Seq(Body) /\ Len(Append(response[k], r.body)) = 1
    BY <2>5
  <2>11. response' \in [Client -> Seq(Body)] /\ \A j \in Client : Len(response'[j]) <= 1
    <3>1. CASE response' = response
      BY <3>1
    <3>2. CASE response[k] = <<>> /\ response' = [response EXCEPT ![k] = Append(@, r.body)]
      BY <2>10, <3>2, ReplaceOne
    <3> QED
      BY <2>9, <3>1, <3>2
  <2> QED
    BY <1>3, <2>6, <2>8, <2>11 DEF HandleReply
<1>4. ASSUME NEW k \in Client, Take(k) PROVE TypesOk'
  <2>1. Head(response[k]) \in Body
    BY <1>4, HeadTailProperties DEF Take
  <2>2. Append(results[k], Head(response[k])) \in Seq(Body)
    BY <2>1
  <2>3. <<>> \in Seq(Body) /\ Len(<<>>) = 0
    OBVIOUS
  <2>4. results' \in [Client -> Seq(Body)]
    BY <1>4, <2>2 DEF Take
  <2>5. response' \in [Client -> Seq(Body)] /\ \A j \in Client : Len(response'[j]) <= 1
    BY <1>4, <2>3 DEF Take
  <2> QED
    BY <1>4, <2>4, <2>5 DEF Take
<1>5. ASSUME NEW k \in Client, Close(k) PROVE TypesOk'
  <2>1. \A S : <<>> \in Seq(S) /\ Len(<<>>) = 0 /\ Elements(<<>>) = {}
    BY DEF Elements
  <2>2. /\ replyQueue' \in [Client -> Seq(Reply)]
        /\ consumers' \in [Client -> Seq(CorrId)]
        /\ response' \in [Client -> Seq(Body)]
    BY <1>5, <2>1 DEF Close
  <2>3. \A j \in Client : /\ Elements(consumers'[j]) \subseteq {j} \X (1 .. calls[j])
                          /\ Len(consumers'[j]) <= calls[j] /\ Len(response'[j]) <= 1
    BY <1>5, <2>1 DEF Close
  <2> QED
    BY <1>5, <2>2, <2>3 DEF Close
<1>6. ASSUME NEW s \in Server, Start(s) PROVE TypesOk'
  BY <1>6 DEF Start
<1>7. ASSUME NEW s \in Server, Deliver(s) PROVE TypesOk'
  <2>1. Head(rpcQueue) \in CorrId /\ Tail(rpcQueue) \in Seq(CorrId)
    BY <1>7, HeadTailProperties DEF Deliver
  <2> QED
    BY <1>7, <2>1 DEF Deliver
<1>8. ASSUME NEW s \in Server, PublishReply(s) PROVE TypesOk'
  <2> DEFINE id == request[s]
  <2>1. id \in CorrId
    BY <1>8 DEF PublishReply, ServersOk
  <2>2. [corrId |-> id, body |-> Answer(id)] \in Reply
    BY <2>1, AnswerIsBody DEF Reply
  <2>3. id[1] \in Client
    BY <2>1, CorrIdIs
  <2>4. Append(replyQueue[id[1]], [corrId |-> id, body |-> Answer(id)]) \in Seq(Reply)
    BY <2>2, <2>3
  <2>5. replyQueue' \in [Client -> Seq(Reply)] /\ answered' \subseteq CorrId
    BY <1>8, <2>1, <2>3, <2>4 DEF PublishReply, Send
  <2> QED
    BY <1>8, <2>5 DEF PublishReply
<1>9. ASSUME NEW s \in Server, BasicAck(s) PROVE TypesOk'
  BY <1>9 DEF BasicAck
<1>10. ASSUME NEW s \in Server, Crash(s) PROVE TypesOk'
  <2>1. rpcQueue' \in Seq(CorrId)
    BY <1>10 DEF Crash
  <2>2. crashes' \in 0 .. MaxCrashes
    BY <1>10 DEF Crash
  <2> QED
    BY <1>10, <2>1, <2>2 DEF Crash
<1>11. CASE UNCHANGED vars
  BY <1>11 DEF vars
<1> QED
  BY <1>1, <1>2, <1>3, <1>4, <1>5, <1>6, <1>7, <1>8, <1>9, <1>10, <1>11 DEF Next, Call, Serve
-----------------------------------------------------------------------------
\* A step that changes neither the calls and consumers of a client nor what it
\* has got leaves the client's part of the invariant as it is.
SameClient(k) ==
    client'[k] = client[k] /\ calls'[k] = calls[k] /\ results'[k] = results[k]
    /\ response'[k] = response[k] /\ consumers'[k] = consumers[k]

CallOf(k) ==
    /\ client[k] = "idle" => Len(results[k]) = calls[k]
    /\ client[k] \in {"consume", "take"} => Len(results[k]) + 1 = calls[k]
    /\ client[k] = "consume" => Len(consumers[k]) < calls[k]
    /\ client[k] = "take" /\ response[k] # <<>> => response[k][1] = Answer(Current(k))

LEMMA CallOfSame ==
    ASSUME NEW k \in Client, CallOf(k), SameClient(k), UNCHANGED input
    PROVE  CallOf(k)'
BY DEF CallOf, SameClient, Current, Answer

LEMMA CallOkStep == TypesOk /\ CallOk /\ RepliesOk /\ [Next]_vars => CallOk'
<1> SUFFICES ASSUME TypesOk, CallOk, RepliesOk, [Next]_vars PROVE CallOk'
  OBVIOUS
<1>0. \A k \in Client : CallOf(k)
  BY DEF CallOk, CallOf
<1>a. (\A k \in Client : CallOf(k)') => CallOk'
  BY DEF CallOk, CallOf
<1> USE DEF TypesOk, TypeOK, clientVars, serverVars
<1>1. ASSUME NEW k \in Client, PublishRequest(k) PROVE CallOk'
  <2>1. Len(results[k]) = calls[k] /\ Len(consumers[k]) <= calls[k] /\ calls[k] \in Nat
    BY <1>0, <1>1 DEF PublishRequest, CallOf
  <2>2. CallOf(k)'
    BY <1>1, <2>1 DEF PublishRequest, CallOf
  <2>3. \A j \in Client \ {k} : SameClient(j)
    BY <1>1 DEF PublishRequest, SameClient
  <2> QED
    BY <1>0, <1>1, <1>a, <2>2, <2>3, CallOfSame DEF PublishRequest
<1>2. ASSUME NEW k \in Client, BasicConsume(k) PROVE CallOk'
  <2>2. CallOf(k)'
    BY <1>0, <1>2 DEF BasicConsume, CallOf
  <2>3. \A j \in Client \ {k} : SameClient(j)
    BY <1>2 DEF BasicConsume, SameClient
  <2> QED
    BY <1>0, <1>2, <1>a, <2>2, <2>3, CallOfSame DEF BasicConsume
<1>3. ASSUME NEW k \in Client, HandleReply(k) PROVE CallOk'
  <2> DEFINE r == Head(replyQueue[k])
  <2>1. r.body = Answer(r.corrId)
    <3>1. replyQueue[k] # <<>> /\ replyQueue[k] \in Seq(Reply)
      BY <1>3 DEF HandleReply
    <3>2. 1 \in DOMAIN replyQueue[k] /\ r = replyQueue[k][1]
      BY <3>1
    <3> QED
      BY <3>2 DEF RepliesOk
  <2>2. \/ response' = response
        \/ /\ response[k] = <<>> /\ r.corrId = Current(k)
           /\ response' = [response EXCEPT ![k] = Append(@, r.body)]
    BY <1>3 DEF HandleReply, Accepts
  <2> HIDE DEF r
  <2>3. UNCHANGED <<client, calls, results, input>>
    BY <1>3 DEF HandleReply
  <2>4. client[k] = "consume" => Len(consumers'[k]) = Len(consumers[k])
    <3>1. consumers[k] # <<>> /\ consumers[k] \in Seq(CorrId)
      BY <1>3 DEF HandleReply
    <3>2. consumers'[k] = Append(Tail(consumers[k]), Head(consumers[k]))
      BY <1>3 DEF HandleReply
    <3>3. Tail(consumers[k]) \in Seq(CorrId) /\ Len(Tail(consumers[k])) = Len(consumers[k]) - 1
          /\ Head(consumers[k]) \in CorrId
      BY <3>1, HeadTailProperties
    <3>4. Len(Append(Tail(consumers[k]), Head(consumers[k]))) = Len(Tail(consumers[k])) + 1
      BY <3>3
    <3> QED
      BY <3>1, <3>2, <3>3, <3>4
  <2>5. response'[k] = response[k] \/ response'[k][1] = Answer(Current(k))
    <3>1. CASE response' = response
      BY <3>1
    <3>2. CASE /\ response[k] = <<>> /\ r.corrId = Current(k)
               /\ response' = [response EXCEPT ![k] = Append(@, r.body)]
      <4>1. response'[k] = Append(<<>>, r.body)
        BY <3>2
      <4>2. response'[k][1] = r.body
        BY <4>1
      <4> QED
        BY <2>1, <3>2, <4>2
    <3> QED
      BY <2>2, <3>1, <3>2
  <2>6. CallOf(k)'
    BY <1>0, <2>3, <2>4, <2>5 DEF CallOf, Current, Answer
  <2>7. \A j \in Client \ {k} : SameClient(j)
    BY <1>3 DEF HandleReply, SameClient
  <2> QED
    BY <1>0, <1>a, <2>3, <2>6, <2>7, CallOfSame
<1>4. ASSUME NEW k \in Client, Take(k) PROVE CallOk'
  <2>1. Len(results'[k]) = Len(results[k]) + 1
    <3>1. Head(response[k]) \in Body
      BY <1>4, HeadTailProperties DEF Take
    <3> QED
      BY <1>4, <3>1 DEF Take
  <2>2. CallOf(k)'
    BY <1>0, <1>4, <2>1 DEF Take, CallOf
  <2>3. \A j \in Client \ {k} : SameClient(j)
    BY <1>4 DEF Take, SameClient
  <2> QED
    BY <1>0, <1>4, <1>a, <2>2, <2>3, CallOfSame DEF Take
<1>5. ASSUME NEW k \in Client, Close(k) PROVE CallOk'
  <2>2. CallOf(k)'
    BY <1>0, <1>5 DEF Close, CallOf
  <2>3. \A j \in Client \ {k} : SameClient(j)
    BY <1>5 DEF Close, SameClient
  <2> QED
    BY <1>0, <1>5, <1>a, <2>2, <2>3, CallOfSame DEF Close
<1>6. ASSUME UNCHANGED <<client, calls, results, response, consumers, input>> PROVE CallOk'
  BY <1>0, <1>6, <1>a, CallOfSame DEF SameClient
<1>7. ASSUME NEW s \in Server, Start(s) \/ Serve(s) \/ Crash(s)
      PROVE  UNCHANGED <<client, calls, results, response, consumers, input>>
  BY <1>7 DEF Start, Serve, Deliver, PublishReply, BasicAck, Crash
<1> QED
  BY <1>1, <1>2, <1>3, <1>4, <1>5, <1>6, <1>7 DEF Next, Call, vars

LEMMA RepliesOkStep == TypesOk /\ ServersOk /\ RepliesOk /\ [Next]_vars => RepliesOk'
<1> SUFFICES ASSUME TypesOk, ServersOk, RepliesOk, [Next]_vars PROVE RepliesOk'
  OBVIOUS
<1>0. replyQueue \in [Client -> Seq(Reply)] /\ request \in [Server -> CorrId \cup {None}]
      /\ input \in [CorrId -> Inputs]
  BY DEF TypesOk, TypeOK
<1>1. ASSUME NEW k \in Client, HandleReply(k) PROVE RepliesOk'
  <2>1. replyQueue[k] # <<>> /\ replyQueue[k] \in Seq(Reply)
    BY <1>0, <1>1 DEF HandleReply
  <2>2. \A i \in DOMAIN Tail(replyQueue[k]) : /\ i + 1 \in DOMAIN replyQueue[k]
                                             /\ Tail(replyQueue[k])[i] = replyQueue[k][i + 1]
    BY <2>1, HeadTailProperties
  <2>3. replyQueue' = [replyQueue EXCEPT ![k] = Tail(@)] /\ UNCHANGED input
    BY <1>1 DEF HandleReply
  <2>4. SUFFICES ASSUME NEW j \in Client, NEW i \in DOMAIN replyQueue'[j]
                 PROVE  replyQueue'[j][i].body = Answer(replyQueue'[j][i].corrId)
    BY <2>3 DEF RepliesOk, Answer
  <2>5. CASE j = k
    <3>1. replyQueue'[j] = Tail(replyQueue[k])
      BY <1>0, <2>3, <2>5
    <3>2. i + 1 \in DOMAIN replyQueue[k] /\ replyQueue'[j][i] = replyQueue[k][i + 1]
      BY <2>2, <2>4, <3>1
    <3> QED
      BY <3>2 DEF RepliesOk
  <2>6. CASE j # k
    BY <1>0, <2>3, <2>4, <2>6 DEF RepliesOk
  <2> QED
    BY <2>5, <2>6
<1>2. ASSUME NEW k \in Client, Close(k) PROVE RepliesOk'
  BY <1>0, <1>2 DEF Close, RepliesOk, Answer
<1>3. ASSUME NEW s \in Server, PublishReply(s) PROVE RepliesOk'
  <2> DEFINE id == request[s]
             reply == [corrId |-> id, body |-> Answer(id)]
  <2>1. id \in CorrId
    BY <1>0, <1>3 DEF PublishReply, ServersOk
  <2>2. reply \in Reply
    <3>1. Answer(id) \in Body
      BY <1>0, <2>1, AnswerIsBody
    <3> QED BY <2>1, <3>1 DEF Reply
  <2>3. UNCHANGED input
    BY <1>3 DEF PublishReply
  <2>4. \A k \in Client : replyQueue'[k] = replyQueue[k] \/ replyQueue'[k] = Append(replyQueue[k], reply)
    <3>1. id[1] \in Client
      BY <2>1, CorrIdIs
    <3> QED BY <1>0, <1>3, <2>2, <3>1 DEF PublishReply, Send
  <2>5. reply.body = Answer(reply.corrId)
    OBVIOUS
  <2> HIDE DEF reply
  <2>6. ASSUME NEW k \in Client, NEW i \in DOMAIN Append(replyQueue[k], reply)
        PROVE  \/ /\ i \in DOMAIN replyQueue[k]
                  /\ Append(replyQueue[k], reply)[i] = replyQueue[k][i]
               \/ Append(replyQueue[k], reply)[i] = reply
    BY <1>0, <2>2
  <2>7. SUFFICES ASSUME NEW k \in Client, NEW i \in DOMAIN replyQueue'[k]
                 PROVE  replyQueue'[k][i].body = Answer(replyQueue'[k][i].corrId)
    BY <2>3 DEF RepliesOk, Answer
  <2>8. CASE replyQueue'[k] = replyQueue[k]
    BY <2>7, <2>8 DEF RepliesOk
  <2>9. CASE replyQueue'[k] = Append(replyQueue[k], reply)
    <3>1. (i \in DOMAIN replyQueue[k] /\ replyQueue'[k][i] = replyQueue[k][i]) \/ replyQueue'[k][i] = reply
      BY <2>6, <2>7, <2>9
    <3> QED
      BY <2>5, <3>1 DEF RepliesOk
  <2> QED
    BY <2>4, <2>8, <2>9
<1>4. ASSUME UNCHANGED <<replyQueue, input>> PROVE RepliesOk'
  BY <1>4 DEF RepliesOk, Answer
<1>5. ASSUME NEW k \in Client, Call(k) PROVE UNCHANGED <<replyQueue, input>>
  BY <1>5 DEF Call, PublishRequest, BasicConsume, Take
<1>6. ASSUME NEW s \in Server, Start(s) \/ Deliver(s) \/ BasicAck(s) \/ Crash(s)
      PROVE  UNCHANGED <<replyQueue, input>>
  BY <1>6 DEF Start, Deliver, BasicAck, Crash
<1> QED
  BY <1>1, <1>2, <1>3, <1>4, <1>5, <1>6 DEF Next, Serve, vars

LEMMA ServersOkStep == TypesOk /\ ServersOk /\ [Next]_vars => ServersOk'
<1> SUFFICES ASSUME TypesOk, ServersOk, [Next]_vars PROVE ServersOk'
  OBVIOUS
<1> USE DEF TypesOk, TypeOK, ServersOk, clientVars, serverVars
<1>1. ASSUME NEW s \in Server, Start(s) PROVE ServersOk'
  BY <1>1 DEF Start
<1>2. ASSUME NEW s \in Server, Deliver(s) PROVE ServersOk'
  <2>1. Head(rpcQueue) \in CorrId
    BY <1>2, HeadTailProperties DEF Deliver
  <2>2. Head(rpcQueue) # None
    BY <2>1, CorrIdIs
  <2> QED
    BY <1>2, <2>2 DEF Deliver
<1>3. ASSUME NEW s \in Server, PublishReply(s) PROVE ServersOk'
  BY <1>3 DEF PublishReply, Send
<1>4. ASSUME NEW s \in Server, BasicAck(s) PROVE ServersOk'
  BY <1>4 DEF BasicAck
<1>5. ASSUME NEW s \in Server, Crash(s) PROVE ServersOk'
  BY <1>5 DEF Crash
<1>6. ASSUME NEW k \in Client, Call(k) \/ HandleReply(k) \/ Close(k) PROVE ServersOk'
  BY <1>6 DEF Call, PublishRequest, BasicConsume, Take, HandleReply, Close
<1>7. CASE UNCHANGED vars
  BY <1>7 DEF vars
<1> QED
  BY <1>1, <1>2, <1>3, <1>4, <1>5, <1>6, <1>7 DEF Next, Serve

LEMMA RightAnswerStep == TypesOk /\ CallOk /\ RightAnswer /\ [Next]_vars => RightAnswer'
<1> SUFFICES ASSUME TypesOk, CallOk, RightAnswer, [Next]_vars PROVE RightAnswer'
  OBVIOUS
<1> USE DEF TypesOk, TypeOK, clientVars, serverVars
<1>1. ASSUME NEW k \in Client, Take(k) PROVE RightAnswer'
  <2> DEFINE x == Head(response[k])
  <2>1. response[k] # <<>> /\ response[k] \in Seq(Body) /\ client[k] = "take"
    BY <1>1 DEF Take
  <2>2. x = response[k][1] /\ x \in Body
    BY <2>1, HeadTailProperties
  <2>3. x = Answer(<<k, Len(results[k]) + 1>>)
    BY <2>1, <2>2 DEF CallOk, Current
  <2> HIDE DEF x
  <2>4. results' = [results EXCEPT ![k] = Append(@, x)] /\ UNCHANGED input
    BY <1>1 DEF Take, x
  <2>5. ASSUME NEW n \in DOMAIN Append(results[k], x)
        PROVE  Append(results[k], x)[n] = Answer(<<k, n>>)
    <3>1. CASE n \in DOMAIN results[k]
      BY <2>2, <3>1 DEF RightAnswer
    <3>2. CASE n = Len(results[k]) + 1
      BY <2>2, <2>3, <3>2
    <3> QED
      BY <2>2, <2>5, <3>1, <3>2
  <2>a. ASSUME NEW id PROVE Answer(id)' = Answer(id)
    BY <2>4 DEF Answer
  <2> SUFFICES ASSUME NEW j \in Client, NEW n \in DOMAIN results'[j]
               PROVE  results'[j][n] = Answer(<<j, n>>)
    BY Zenon, <2>a DEF RightAnswer
  <2>6. CASE j = k
    BY <2>4, <2>5, <2>6
  <2>7. CASE j # k
    BY <2>4, <2>7 DEF RightAnswer
  <2> QED
    BY <2>6, <2>7
<1>2. ASSUME UNCHANGED <<results, input>> PROVE RightAnswer'
  BY <1>2 DEF RightAnswer, Answer
<1>3. ASSUME NEW k \in Client, PublishRequest(k) \/ BasicConsume(k) \/ HandleReply(k) \/ Close(k)
      PROVE  UNCHANGED <<results, input>>
  BY <1>3 DEF PublishRequest, BasicConsume, HandleReply, Close
<1>4. ASSUME NEW s \in Server, Start(s) \/ Serve(s) \/ Crash(s) PROVE UNCHANGED <<results, input>>
  BY <1>4 DEF Start, Serve, Deliver, PublishReply, BasicAck, Crash
<1> QED
  BY <1>1, <1>2, <1>3, <1>4 DEF Next, Call, vars

LEMMA IInvHolds == Spec => []IInv
<1>1. Init => IInv
  <2> SUFFICES ASSUME Init PROVE IInv
    OBVIOUS
  <2>1. TypesOk
    BY TypesOkInit
  <2>2. CallOk
    BY DEF Init, CallOk
  <2>3. RepliesOk
    BY DEF Init, RepliesOk
  <2>4. ServersOk
    BY DEF Init, ServersOk
  <2>5. RightAnswer
    BY DEF Init, RightAnswer
  <2> QED
    BY <2>1, <2>2, <2>3, <2>4, <2>5 DEF IInv
<1>2. IInv /\ [Next]_vars => IInv'
  BY TypesOkStep, CallOkStep, RepliesOkStep, ServersOkStep, RightAnswerStep DEF IInv
<1> QED
  BY <1>1, <1>2, PTL DEF Spec

\* RPCClient.call: every call returns the answer to its own request, for any number
\* of clients and calls, although old consumers stay and servers repeat requests.
THEOREM RpcAnswerInv == Spec => []AnswerInv
<1>1. IInv => AnswerInv
  BY DEF IInv, TypesOk, AnswerInv
<1> QED
  BY <1>1, IInvHolds, PTL
-----------------------------------------------------------------------------
NoRepeat(s) == \A i, j \in DOMAIN s : s[i] = s[j] => i = j

LEMMA NoRepeatAppend ==
    ASSUME NEW S, NEW s \in Seq(S), NEW x \in S, NoRepeat(s), x \notin Elements(s)
    PROVE  NoRepeat(Append(s, x))
<1>1. DOMAIN Append(s, x) = DOMAIN s \cup {Len(s) + 1} /\ DOMAIN s = 1 .. Len(s) /\ Len(s) \in Nat
  OBVIOUS
<1>2. \A i \in DOMAIN s : Append(s, x)[i] = s[i] /\ s[i] # x
  BY DEF Elements
<1>3. Append(s, x)[Len(s) + 1] = x
  OBVIOUS
<1> QED
  BY <1>1, <1>2, <1>3 DEF NoRepeat

LEMMA NoRepeatTail ==
    ASSUME NEW S, NEW s \in Seq(S), s # <<>>, NoRepeat(s)
    PROVE  NoRepeat(Tail(s)) /\ Head(s) \notin Elements(Tail(s))
<1>1. /\ Len(s) \in Nat \ {0} /\ DOMAIN s = 1 .. Len(s) /\ Head(s) = s[1]
      /\ DOMAIN Tail(s) = 1 .. Len(s) - 1
      /\ \A i \in 1 .. Len(s) - 1 : Tail(s)[i] = s[i + 1]
  BY HeadTailProperties, EmptySeq
<1>2. \A i \in 1 .. Len(s) - 1 : i + 1 \in DOMAIN s /\ i + 1 # 1
  BY <1>1
<1>3. NoRepeat(Tail(s))
  <2> SUFFICES ASSUME NEW i \in 1 .. Len(s) - 1, NEW j \in 1 .. Len(s) - 1, s[i + 1] = s[j + 1]
               PROVE  i = j
    BY <1>1 DEF NoRepeat
  <2>1. i + 1 = j + 1
    BY <1>2 DEF NoRepeat
  <2> QED
    BY <2>1
<1>4. \A i \in 1 .. Len(s) - 1 : s[i + 1] # s[1]
  BY <1>1, <1>2 DEF NoRepeat
<1> QED
  BY <1>1, <1>3, <1>4 DEF Elements

LEMMA NoRepeatPush ==
    ASSUME NEW S, NEW s \in Seq(S), NEW x \in S, NoRepeat(s), x \notin Elements(s)
    PROVE  NoRepeat(<<x>> \o s)
<1> DEFINE t == <<x>> \o s
<1>1. /\ Len(s) \in Nat /\ DOMAIN s = 1 .. Len(s) /\ DOMAIN t = 1 .. Len(s) + 1 /\ t[1] = x
      /\ \A i \in 2 .. Len(s) + 1 : t[i] = s[i - 1] /\ i - 1 \in DOMAIN s
  OBVIOUS
<1>2. \A i \in DOMAIN s : s[i] # x
  BY DEF Elements
<1> HIDE DEF t
<1>3. ASSUME NEW i \in DOMAIN t, NEW j \in DOMAIN t, t[i] = t[j] PROVE i = j
  <2>1. i = 1 \/ i \in 2 .. Len(s) + 1
    BY <1>1
  <2>2. j = 1 \/ j \in 2 .. Len(s) + 1
    BY <1>1
  <2>3. CASE i \in 2 .. Len(s) + 1 /\ j \in 2 .. Len(s) + 1
    <3>1. s[i - 1] = s[j - 1] /\ i - 1 \in DOMAIN s /\ j - 1 \in DOMAIN s
      BY <1>1, <1>3, <2>3
    <3>2. i - 1 = j - 1
      BY <3>1 DEF NoRepeat
    <3> QED
      BY <2>3, <3>2
  <2> QED
    BY <1>1, <1>2, <1>3, <2>1, <2>2, <2>3
<1> QED
  BY <1>3 DEF NoRepeat, t

\* A request is in rpc_queue or with a server, once, and was made by a call.
OnceOk ==
    /\ NoRepeat(rpcQueue)
    /\ \A s \in Server : request[s] \notin Elements(rpcQueue)
    /\ \A s, t \in Server : request[s] = request[t] /\ request[s] # None => s = t
    /\ \A id \in Accepted : id[2] <= calls[id[1]]

IInvOnce == IInv /\ OnceOk

\* A new request is none of those made before.
LEMMA NewRequest ==
    ASSUME IInvOnce, NEW k \in Client, PublishRequest(k), declared
    PROVE  /\ <<k, calls[k] + 1>> \in CorrId \ Accepted
           /\ Elements(rpcQueue') = Elements(rpcQueue) \cup {<<k, calls[k] + 1>>}
           /\ NoRepeat(rpcQueue')
<1> DEFINE id == <<k, calls[k] + 1>>
<1>1. calls[k] \in 0 .. MaxCalls[k] /\ MaxCalls[k] \in Nat /\ calls[k] < MaxCalls[k]
  BY RpcAssumption DEF IInvOnce, IInv, TypesOk, TypeOK, PublishRequest
<1>2. id \in CorrId
  BY <1>1, CorrIdIs
<1>3. id \notin Accepted
  BY <1>1 DEF IInvOnce, OnceOk
<1>4. rpcQueue \in Seq(CorrId) /\ rpcQueue' = Append(rpcQueue, id)
  BY DEF IInvOnce, IInv, TypesOk, TypeOK, PublishRequest
<1> HIDE DEF id
<1>5. Elements(Append(rpcQueue, id)) = Elements(rpcQueue) \cup {id}
  BY <1>2, <1>4, ElementsAppend
<1>6. NoRepeat(Append(rpcQueue, id))
  BY <1>2, <1>3, <1>4, NoRepeatAppend DEF Accepted, IInvOnce, OnceOk
<1> QED
  BY <1>2, <1>3, <1>4, <1>5, <1>6 DEF id

\* What each step does to the queue as a set.
LEMMA DeliverSets ==
    ASSUME IInvOnce, NEW s \in Server, Deliver(s)
    PROVE  \E id \in Elements(rpcQueue) :
             /\ id \in CorrId
             /\ request[s] = None
             /\ request' = [request EXCEPT ![s] = id]
             /\ Elements(rpcQueue') = Elements(rpcQueue) \ {id}
             /\ NoRepeat(rpcQueue')
<1> DEFINE id == Head(rpcQueue)
<1>1. rpcQueue \in Seq(CorrId) /\ rpcQueue # <<>> /\ rpcQueue' = Tail(rpcQueue)
  BY DEF IInvOnce, IInv, TypesOk, TypeOK, Deliver
<1>2. id \in CorrId
  BY <1>1, HeadTailProperties
<1>3. Elements(rpcQueue) = {id} \cup Elements(Tail(rpcQueue))
  BY <1>1, ElementsTail
<1>4. NoRepeat(Tail(rpcQueue)) /\ id \notin Elements(Tail(rpcQueue))
  BY <1>1, NoRepeatTail DEF IInvOnce, OnceOk
<1>5. request[s] = None /\ request' = [request EXCEPT ![s] = id]
  BY DEF IInvOnce, IInv, ServersOk, Deliver
<1> HIDE DEF id
<1> QED
  BY <1>1, <1>2, <1>3, <1>4, <1>5

LEMMA CrashSets ==
    ASSUME IInvOnce, NEW s \in Server, Crash(s)
    PROVE  /\ Elements(rpcQueue') = Elements(rpcQueue) \cup ({request[s]} \ {None})
           /\ NoRepeat(rpcQueue')
           /\ request' = [request EXCEPT ![s] = None]
<1>1. rpcQueue \in Seq(CorrId) /\ request[s] \in CorrId \cup {None}
      /\ request[s] \notin Elements(rpcQueue) /\ NoRepeat(rpcQueue)
  BY DEF IInvOnce, IInv, TypesOk, TypeOK, OnceOk
<1>2. CASE request[s] = None
  BY <1>1, <1>2 DEF Crash
<1>3. CASE request[s] # None
  <2>1. rpcQueue' = <<request[s]>> \o rpcQueue /\ request[s] \in CorrId
    BY <1>1, <1>3 DEF Crash
  <2>2. Elements(<<request[s]>> \o rpcQueue) = {request[s]} \cup Elements(rpcQueue)
    BY <1>1, <2>1, ElementsPush
  <2>3. NoRepeat(<<request[s]>> \o rpcQueue)
    BY <1>1, <2>1, NoRepeatPush
  <2> QED
    BY <1>3, <2>1, <2>2, <2>3 DEF Crash
<1>4. request' = [request EXCEPT ![s] = None]
  BY DEF Crash
<1> QED
  BY <1>2, <1>3, <1>4

LEMMA OnceOkStep == IInvOnce /\ [Next]_vars => OnceOk'
<1> SUFFICES ASSUME IInvOnce, [Next]_vars PROVE OnceOk'
  OBVIOUS
<1>0. /\ request \in [Server -> CorrId \cup {None}] /\ calls \in [Client -> Nat]
      /\ None \notin CorrId /\ Accepted \subseteq CorrId
      /\ \A id \in CorrId : id[1] \in Client /\ id[2] \in Nat
  <2>1. Elements(rpcQueue) \subseteq CorrId
    BY DEF IInvOnce, IInv, TypesOk, TypeOK, Elements
  <2>2. \A id \in CorrId : id[1] \in Client /\ id[2] \in Nat
    BY CorrIdIs, RpcAssumption
  <2> QED
    BY <2>1, <2>2, CorrIdIs DEF IInvOnce, IInv, TypesOk, TypeOK, Accepted, InService
<1> USE DEF clientVars, serverVars
<1>1. ASSUME NEW k \in Client, PublishRequest(k) PROVE OnceOk'
  <2> DEFINE id == <<k, calls[k] + 1>>
  <2>1. UNCHANGED <<request, answered>> /\ calls' = [calls EXCEPT ![k] = @ + 1]
    BY <1>1 DEF PublishRequest
  <2>2. CASE declared
    <3>1. /\ id \in CorrId \ Accepted /\ Elements(rpcQueue') = Elements(rpcQueue) \cup {id}
          /\ NoRepeat(rpcQueue')
      BY <1>1, <2>2, NewRequest
    <3>2. Accepted' = Accepted \cup {id}
      BY <2>1, <3>1 DEF Accepted, InService
    <3>3. \A s \in Server : request[s] # id
      BY <1>0, <3>1 DEF Accepted, InService
    <3>4. \A j \in Accepted \cup {id} : j[2] <= calls'[j[1]]
      <4>1. \A j \in Accepted : calls[j[1]] <= calls'[j[1]] /\ calls'[j[1]] \in Nat /\ j[2] \in Nat
        BY <1>0, <2>1
      <4>2. id[2] = calls'[id[1]] /\ id[2] \in Nat
        BY <1>0, <2>1
      <4>3. \A j \in Accepted : j[2] <= calls[j[1]] /\ calls[j[1]] \in Nat
        BY <1>0 DEF IInvOnce, OnceOk
      <4> QED
        BY <4>1, <4>2, <4>3
    <3> HIDE DEF id
    <3>5. \A s \in Server : request'[s] \notin Elements(rpcQueue')
      BY <2>1, <3>1, <3>3 DEF IInvOnce, OnceOk
    <3> QED
      BY <2>1, <3>1, <3>2, <3>4, <3>5 DEF IInvOnce, OnceOk
  <2>3. CASE ~declared
    <3>1. rpcQueue' = rpcQueue /\ Accepted' = Accepted
      BY <1>1, <2>3 DEF PublishRequest, Accepted, InService
    <3>2. \A j \in Accepted : calls[j[1]] <= calls'[j[1]] /\ calls'[j[1]] \in Nat
                              /\ calls[j[1]] \in Nat /\ j[2] \in Nat
      BY <1>0, <2>1
    <3>3. \A j \in Accepted : j[2] <= calls'[j[1]]
      BY <3>2 DEF IInvOnce, OnceOk
    <3> QED
      BY <2>1, <3>1, <3>3 DEF IInvOnce, OnceOk
  <2> QED
    BY <2>2, <2>3
<1>2. ASSUME NEW s \in Server, Deliver(s) PROVE OnceOk'
  <2>1. PICK id \in Elements(rpcQueue) :
             /\ id \in CorrId
             /\ request[s] = None
             /\ request' = [request EXCEPT ![s] = id]
             /\ Elements(rpcQueue') = Elements(rpcQueue) \ {id}
             /\ NoRepeat(rpcQueue')
    BY <1>2, DeliverSets
  <2>2. UNCHANGED <<answered, calls>>
    BY <1>2 DEF Deliver
  <2>3. Accepted' \subseteq Accepted
    BY <1>0, <2>1, <2>2 DEF Accepted, InService
  <2> QED
    BY <1>0, <2>1, <2>2, <2>3 DEF IInvOnce, OnceOk
<1>3. ASSUME NEW s \in Server, PublishReply(s) PROVE OnceOk'
  <2>1. UNCHANGED <<rpcQueue, request, calls>> /\ answered' = answered \cup {request[s]}
    BY <1>3 DEF PublishReply, Send
  <2>2. request[s] # None
    BY <1>3 DEF PublishReply, IInvOnce, IInv, ServersOk
  <2>3. Accepted' = Accepted
    BY <2>1, <2>2 DEF Accepted, InService
  <2> QED
    BY <2>1, <2>3 DEF IInvOnce, OnceOk
<1>4. ASSUME NEW s \in Server, BasicAck(s) PROVE OnceOk'
  <2>1. UNCHANGED <<rpcQueue, answered, calls>> /\ request' = [request EXCEPT ![s] = None]
    BY <1>4 DEF BasicAck
  <2>2. Accepted' \subseteq Accepted
    BY <1>0, <2>1 DEF Accepted, InService
  <2>3. None \notin Elements(rpcQueue)
    BY <1>0 DEF Accepted
  <2> QED
    BY <1>0, <2>1, <2>2, <2>3 DEF IInvOnce, OnceOk
<1>5. ASSUME NEW s \in Server, Crash(s) PROVE OnceOk'
  <2>1. /\ Elements(rpcQueue') = Elements(rpcQueue) \cup ({request[s]} \ {None})
        /\ NoRepeat(rpcQueue')
        /\ request' = [request EXCEPT ![s] = None]
    BY <1>5, CrashSets
  <2>2. UNCHANGED <<answered, calls>>
    BY <1>5 DEF Crash
  <2>3. Accepted' \subseteq Accepted
    BY <1>0, <2>1, <2>2 DEF Accepted, InService
  <2>4. None \notin Elements(rpcQueue)
    BY <1>0 DEF Accepted
  <2> QED
    BY <1>0, <2>1, <2>2, <2>3, <2>4 DEF IInvOnce, OnceOk
<1>6. ASSUME UNCHANGED <<rpcQueue, request, answered, calls>> PROVE OnceOk'
  BY <1>6 DEF IInvOnce, OnceOk, Accepted, InService
<1>7. ASSUME NEW k \in Client, BasicConsume(k) \/ Take(k) \/ HandleReply(k) \/ Close(k)
      PROVE  UNCHANGED <<rpcQueue, request, answered, calls>>
  BY <1>7 DEF BasicConsume, Take, HandleReply, Close
<1>8. ASSUME NEW s \in Server, Start(s) PROVE UNCHANGED <<rpcQueue, request, answered, calls>>
  BY <1>8 DEF Start
<1> QED
  BY <1>1, <1>2, <1>3, <1>4, <1>5, <1>6, <1>7, <1>8 DEF Next, Call, Serve, vars

LEMMA OnceHolds == Spec => []IInvOnce
<1>1. Init => OnceOk
  BY DEF Init, OnceOk, NoRepeat, Elements, Accepted, InService
<1> QED
  BY <1>1, OnceOkStep, IInvHolds, PTL DEF Spec, IInvOnce
-----------------------------------------------------------------------------
Held == [s \in Server |-> {request[s]} \ {None}]

\* What the abstract queue sees of a step.
LEMMA StepImplements ==
    IInvOnce /\ [Next]_vars => [RequestQueue!Next]_(RequestQueue!vars)
<1> SUFFICES ASSUME IInvOnce, [Next]_vars PROVE [RequestQueue!Next]_(RequestQueue!vars)
  OBVIOUS
<1> DEFINE Same == UNCHANGED <<rpcQueue, request, answered>>
<1>0. Same => UNCHANGED RequestQueue!vars
  BY DEF RequestQueue!vars, Accepted, InService
<1>a. /\ request \in [Server -> CorrId \cup {None}] /\ None \notin CorrId
      /\ None \notin Elements(rpcQueue) /\ Accepted \subseteq CorrId
  <2>1. Elements(rpcQueue) \subseteq CorrId
    BY DEF IInvOnce, IInv, TypesOk, TypeOK, Elements
  <2> QED
    BY <2>1, CorrIdIs DEF IInvOnce, IInv, TypesOk, TypeOK, Accepted, InService
<1> USE DEF clientVars, serverVars
<1>1. ASSUME NEW k \in Client, PublishRequest(k)
      PROVE  Same \/ \E id \in CorrId : RequestQueue!Put(id)
  <2> DEFINE id == <<k, calls[k] + 1>>
  <2>1. UNCHANGED <<request, answered>>
    BY <1>1 DEF PublishRequest
  <2>2. CASE declared
    <3>1. id \in CorrId \ Accepted /\ Elements(rpcQueue') = Elements(rpcQueue) \cup {id}
      BY <1>1, <2>2, NewRequest
    <3>2. Accepted' = Accepted \cup {id}
      BY <2>1, <3>1 DEF Accepted, InService
    <3> HIDE DEF id
    <3>3. RequestQueue!Put(id)
      BY <2>1, <3>1, <3>2 DEF RequestQueue!Put
    <3> QED
      BY <3>1, <3>3
  <2>3. CASE ~declared
    BY <1>1, <2>1, <2>3 DEF PublishRequest
  <2> QED
    BY <2>2, <2>3
<1>2. ASSUME NEW s \in Server, Deliver(s)
      PROVE  \E id \in CorrId : RequestQueue!Take(s, id)
  <2>1. PICK id \in Elements(rpcQueue) :
             /\ id \in CorrId
             /\ request[s] = None
             /\ request' = [request EXCEPT ![s] = id]
             /\ Elements(rpcQueue') = Elements(rpcQueue) \ {id}
             /\ NoRepeat(rpcQueue')
    BY <1>2, DeliverSets
  <2>2. answered' = answered
    BY <1>2 DEF Deliver
  <2>3. Held' = [Held EXCEPT ![s] = {id}] /\ Held[s] = {}
    BY <1>a, <2>1 DEF Held
  <2>4. InService' = InService \cup {id}
    BY <1>a, <2>1 DEF InService
  <2>5. Accepted' = Accepted
    BY <2>1, <2>2, <2>4 DEF Accepted
  <2>6. RequestQueue!Take(s, id)
    BY <2>1, <2>2, <2>3, <2>5 DEF RequestQueue!Take, Held
  <2> QED
    BY <2>1, <2>6
<1>3. ASSUME NEW s \in Server, PublishReply(s)
      PROVE  \E id \in CorrId : RequestQueue!Handle(s, id)
  <2>1. UNCHANGED <<rpcQueue, request>> /\ answered' = answered \cup {request[s]}
    BY <1>3 DEF PublishReply, Send
  <2>2. request[s] \in CorrId
    BY <1>3, <1>a DEF PublishReply, IInvOnce, IInv, ServersOk
  <2>3. request[s] \in Held[s] /\ Accepted' = Accepted
    BY <1>a, <2>1, <2>2 DEF Held, Accepted, InService
  <2>4. RequestQueue!Handle(s, request[s])
    BY <2>1, <2>3 DEF RequestQueue!Handle, Held
  <2> QED
    BY <2>2, <2>4
<1>4. ASSUME NEW s \in Server, BasicAck(s)
      PROVE  \E id \in CorrId : RequestQueue!Ack(s, id)
  <2>1. UNCHANGED <<rpcQueue, answered>> /\ request' = [request EXCEPT ![s] = None]
    BY <1>4 DEF BasicAck
  <2>2. request[s] \in CorrId /\ request[s] \in answered
    BY <1>4, <1>a DEF BasicAck, IInvOnce, IInv, ServersOk
  <2>3. PICK id \in CorrId : id = request[s]
    BY <2>2
  <2>4. Held' = [Held EXCEPT ![s] = {}] /\ id \in Held[s]
    BY <1>a, <2>1, <2>3 DEF Held
  <2>5. InService \subseteq InService' \cup {id} /\ InService' \subseteq InService
    BY <1>a, <2>1, <2>3 DEF InService
  <2>6. id \in answered
    BY <2>2, <2>3
  <2>7. Accepted' = Accepted
    BY <2>1, <2>5, <2>6 DEF Accepted
  <2>8. RequestQueue!Ack(s, id)
    BY <2>1, <2>4, <2>6, <2>7 DEF RequestQueue!Ack, Held
  <2> QED
    BY <2>8
<1>5. ASSUME NEW s \in Server, Crash(s)
      PROVE  RequestQueue!GiveBack({s})
  <2>1. /\ Elements(rpcQueue') = Elements(rpcQueue) \cup Held[s]
        /\ request' = [request EXCEPT ![s] = None]
    BY <1>5, CrashSets DEF Held
  <2>2. answered' = answered
    BY <1>5 DEF Crash
  <2>3. Held' = [c \in Server |-> IF c \in {s} THEN {} ELSE Held[c]]
    BY <1>a, <2>1 DEF Held
  <2>4. InService \subseteq InService' \cup Held[s] /\ InService' \subseteq InService
        /\ Held[s] \subseteq InService
    BY <1>a, <2>1 DEF InService, Held
  <2>5. Accepted' = Accepted
    BY <2>1, <2>2, <2>4 DEF Accepted
  <2>6. UNION {Held[c] : c \in {s}} = Held[s]
    OBVIOUS
  <2> QED
    BY <2>1, <2>2, <2>3, <2>5, <2>6 DEF RequestQueue!GiveBack, Held
<1>6. ASSUME NEW k \in Client, BasicConsume(k) \/ Take(k) \/ HandleReply(k) \/ Close(k) PROVE Same
  BY <1>6 DEF BasicConsume, Take, HandleReply, Close
<1>7. ASSUME NEW s \in Server, Start(s) PROVE Same
  BY <1>7 DEF Start
<1>8. UNCHANGED vars => Same
  BY DEF vars
<1>9. CASE Same
  BY <1>0, <1>9
<1>10. CASE \E k \in Client : PublishRequest(k)
  BY <1>0, <1>1, <1>10 DEF RequestQueue!Next
<1>11. CASE \E s \in Server : Serve(s)
  BY <1>2, <1>3, <1>4, <1>11 DEF Serve, RequestQueue!Next
<1>12. CASE \E s \in Server : Crash(s)
  <2>1. \A s \in Server : {s} \in SUBSET Server
    OBVIOUS
  <2> QED
    BY <1>5, <1>12, <2>1 DEF RequestQueue!Next
<1> QED
  BY <1>6, <1>7, <1>8, <1>9, <1>10, <1>11, <1>12 DEF Next, Call

\* RPCServer.main: rpc_queue and its servers implement AckQueue: a request is
\* with the queue or with one server until it has been answered, whatever
\* servers crash, for any number of clients, servers, calls and crashes.
THEOREM RpcImplements == Spec => ImplementsAckQueue
<1>1. Init => RequestQueue!Init
  BY DEF Init, RequestQueue!Init, Accepted, InService, Elements
<1>2. IInvOnce /\ [Next]_vars => [RequestQueue!Next]_(RequestQueue!vars)
  BY StepImplements
<1> QED
  BY <1>1, <1>2, OnceHolds, PTL DEF Spec, ImplementsAckQueue, RequestQueue!Spec
-----------------------------------------------------------------------------
\* The work queue: a worker that is about to acknowledge works at a delivery it has,
\* and has done its task.
WorkingOk ==
    \A w \in working : inbox[w] # <<>> /\ Head(inbox[w]).task \in done

WorkIInv == TasksTypeOK /\ WorkingOk /\ NoTaskLost
-----------------------------------------------------------------------------
LEMMA TasksTypeOKInit == WorkInit => TasksTypeOK
BY QueueAssumption DEF WorkInit, TasksTypeOK

\* What holds the types of the inboxes.
LEMMA InboxStep ==
    ASSUME TasksTypeOK, WorkingOk, [WorkNext]_workVars
    PROVE  inbox' \in [Worker -> Seq([task : Task, epoch : 0 .. epoch'])]
<1> DEFINE Delivery(e) == [task : Task, epoch : 0 .. e]
<1>0. inbox \in [Worker -> Seq(Delivery(epoch))] /\ epoch \in Nat
  <2>1. inbox \in [Worker -> Seq(Delivery(epoch))]
    BY DEF TasksTypeOK
  <2>2. epoch \in Nat
    BY QueueAssumption DEF TasksTypeOK
  <2> QED
    BY <2>1, <2>2
<1>1. CASE UNCHANGED <<inbox, epoch>>
  BY <1>0, <1>1
<1>2. ASSUME NEW w \in Worker, NEW t \in Task, DeliverTask(w, t)
      PROVE  inbox' \in [Worker -> Seq(Delivery(epoch'))]
  <2>1. [task |-> t, epoch |-> epoch] \in Delivery(epoch)
    BY <1>0
  <2> HIDE DEF Delivery
  <2>2. Append(inbox[w], [task |-> t, epoch |-> epoch]) \in Seq(Delivery(epoch))
    BY <1>0, <2>1
  <2> QED
    BY <1>0, <1>2, <2>2 DEF DeliverTask
<1>3. ASSUME NEW w \in Worker, AckTask(w)
      PROVE  inbox' \in [Worker -> Seq(Delivery(epoch'))]
  <2>1. inbox[w] # <<>>
    BY <1>3 DEF AckTask, WorkingOk
  <2> HIDE DEF Delivery
  <2>2. Tail(inbox[w]) \in Seq(Delivery(epoch))
    BY <1>0, <2>1
  <2> QED
    BY <1>0, <1>3, <2>2 DEF AckTask
<1>4. ASSUME NEW w \in Worker, CrashWorker(w)
      PROVE  inbox' \in [Worker -> Seq(Delivery(epoch'))]
  <2> HIDE DEF Delivery
  <2>1. <<>> \in Seq(Delivery(epoch))
    OBVIOUS
  <2> QED
    BY <1>0, <1>4, <2>1 DEF CrashWorker
<1>5. ASSUME Restart
      PROVE  inbox' \in [Worker -> Seq(Delivery(epoch'))]
  <2>1. Delivery(epoch) \subseteq Delivery(epoch') /\ inbox' = inbox
    BY <1>0, <1>5 DEF Restart
  <2> HIDE DEF Delivery
  <2>2. \A s \in Seq(Delivery(epoch)) : s \in Seq(Delivery(epoch'))
    BY <2>1
  <2> QED
    BY <1>0, <2>1, <2>2
<1> QED
  BY <1>1, <1>2, <1>3, <1>4, <1>5
  DEF WorkNext, Work, Publish, Enqueue, Persist, StartWorker, DoWork, workVars

LEMMA TasksTypeOKStep == TasksTypeOK /\ WorkingOk /\ [WorkNext]_workVars => TasksTypeOK'
<1> SUFFICES ASSUME TasksTypeOK, WorkingOk, [WorkNext]_workVars PROVE TasksTypeOK'
  OBVIOUS
<1> DEFINE Rest ==
      /\ wire \subseteq sent /\ sent \subseteq Task
      /\ queue \subseteq Task
      /\ disk \subseteq Task
      /\ unacked \in [Worker -> SUBSET Task]
      /\ \A w \in Worker : \A t, u \in unacked[w] : t = u
      /\ working \subseteq Worker /\ running \subseteq Worker
      /\ done \subseteq Task
      /\ workerCrashes \in 0 .. MaxWorkerCrashes
      /\ epoch \in 0 .. MaxRestarts
<1>0. Rest
  BY DEF TasksTypeOK
<1>1. ASSUME NEW t \in Task, Publish(t) \/ Enqueue(t) \/ Persist(t) PROVE Rest'
  BY <1>0, <1>1 DEF Publish, Enqueue, Persist
<1>2. ASSUME NEW w \in Worker, StartWorker(w) PROVE Rest'
  BY <1>0, <1>2 DEF StartWorker
<1>3. ASSUME NEW w \in Worker, NEW t \in Task, DeliverTask(w, t) PROVE Rest'
  BY <1>0, <1>3 DEF DeliverTask
<1>4. ASSUME NEW w \in Worker, DoWork(w) PROVE Rest'
  <2> DEFINE Delivery == [task : Task, epoch : 0 .. epoch]
  <2>1. inbox[w] \in Seq(Delivery) /\ inbox[w] # <<>>
    BY <1>4 DEF DoWork, TasksTypeOK
  <2>2. Head(inbox[w]) \in Delivery
    <3> HIDE DEF Delivery
    <3> QED
      BY <2>1
  <2>3. Head(inbox[w]).task \in Task
    BY <2>2
  <2> QED
    BY <1>0, <1>4, <2>3 DEF DoWork
<1>5. ASSUME NEW w \in Worker, AckTask(w) PROVE Rest'
  BY <1>0, <1>5 DEF AckTask
<1>6. ASSUME NEW w \in Worker, CrashWorker(w) PROVE Rest'
  <2>1. workerCrashes' \in 0 .. MaxWorkerCrashes
    BY <1>0, <1>6, QueueAssumption DEF CrashWorker
  <2>2. unacked[w] \subseteq Task
    BY <1>0
  <2>3. /\ unacked' \in [Worker -> SUBSET Task]
        /\ \A v \in Worker : unacked'[v] \subseteq unacked[v]
    BY <1>0, <1>6 DEF CrashWorker
  <2>4. \A v \in Worker : \A t, u \in unacked'[v] : t = u
    BY <1>0, <2>3
  <2>5. /\ queue' \subseteq Task /\ working' \subseteq Worker /\ running' \subseteq Worker
        /\ UNCHANGED <<wire, sent, disk, done, epoch>>
    BY <1>0, <1>6, <2>2 DEF CrashWorker
  <2> QED
    BY <1>0, <2>1, <2>3, <2>4, <2>5
<1>7. ASSUME Restart PROVE Rest'
  BY <1>0, <1>7, QueueAssumption DEF Restart
<1>8. ASSUME UNCHANGED workVars PROVE Rest'
  BY <1>0, <1>8 DEF workVars
<1>9. Rest'
  <2> HIDE DEF Rest
  <2> QED
    BY <1>1, <1>2, <1>3, <1>4, <1>5, <1>6, <1>7, <1>8 DEF WorkNext, Work
<1> QED
  BY <1>9, InboxStep DEF TasksTypeOK

LEMMA WorkingOkStep == TasksTypeOK /\ WorkingOk /\ [WorkNext]_workVars => WorkingOk'
<1> SUFFICES ASSUME TasksTypeOK, WorkingOk, [WorkNext]_workVars PROVE WorkingOk'
  OBVIOUS
<1>0. inbox \in [Worker -> Seq([task : Task, epoch : 0 .. epoch])] /\ working \subseteq Worker
  BY DEF TasksTypeOK
<1> USE DEF WorkingOk
<1>1. ASSUME NEW t \in Task, Publish(t) \/ Enqueue(t) \/ Persist(t) PROVE WorkingOk'
  BY <1>1 DEF Publish, Enqueue, Persist
<1>2. ASSUME NEW w \in Worker, StartWorker(w) PROVE WorkingOk'
  BY <1>2 DEF StartWorker
<1>3. ASSUME NEW w \in Worker, NEW t \in Task, DeliverTask(w, t) PROVE WorkingOk'
  BY <1>0, <1>3 DEF DeliverTask
<1>4. ASSUME NEW w \in Worker, DoWork(w) PROVE WorkingOk'
  BY <1>0, <1>4 DEF DoWork
<1>5. ASSUME NEW w \in Worker, AckTask(w) PROVE WorkingOk'
  BY <1>0, <1>5 DEF AckTask
<1>6. ASSUME NEW w \in Worker, CrashWorker(w) PROVE WorkingOk'
  BY <1>0, <1>6 DEF CrashWorker
<1>7. CASE Restart
  BY <1>0, <1>7 DEF Restart
<1>8. CASE UNCHANGED workVars
  BY <1>8 DEF workVars
<1> QED
  BY <1>1, <1>2, <1>3, <1>4, <1>5, <1>6, <1>7, <1>8 DEF WorkNext, Work

LEMMA NoTaskLostStep == WorkIInv /\ [WorkNext]_workVars => NoTaskLost'
<1> SUFFICES ASSUME WorkIInv, [WorkNext]_workVars PROVE NoTaskLost'
  OBVIOUS
<1> USE DEF WorkIInv, TasksTypeOK, NoTaskLost, Unacked
<1>1. ASSUME NEW t \in Task, Publish(t) \/ Enqueue(t) \/ Persist(t) PROVE NoTaskLost'
  BY <1>1 DEF Publish, Enqueue, Persist
<1>2. ASSUME NEW w \in Worker, StartWorker(w) PROVE NoTaskLost'
  BY <1>2 DEF StartWorker
<1>3. ASSUME NEW w \in Worker, NEW t \in Task, DeliverTask(w, t) PROVE NoTaskLost'
  BY <1>3 DEF DeliverTask
<1>4. ASSUME NEW w \in Worker, DoWork(w) PROVE NoTaskLost'
  BY <1>4 DEF DoWork
<1>5. ASSUME NEW w \in Worker, AckTask(w) PROVE NoTaskLost'
  BY <1>5 DEF AckTask, WorkingOk
<1>6. ASSUME NEW w \in Worker, CrashWorker(w) PROVE NoTaskLost'
  BY <1>6 DEF CrashWorker
<1>7. CASE Restart
  BY <1>7 DEF Restart
<1>8. CASE UNCHANGED workVars
  BY <1>8 DEF workVars
<1> QED
  BY <1>1, <1>2, <1>3, <1>4, <1>5, <1>6, <1>7, <1>8 DEF WorkNext, Work

LEMMA WorkIInvHolds == WorkSpec => []WorkIInv
<1>1. WorkInit => WorkIInv
  BY TasksTypeOKInit DEF WorkInit, WorkIInv, WorkingOk, NoTaskLost
<1>2. WorkIInv /\ [WorkNext]_workVars => WorkIInv'
  BY TasksTypeOKStep, WorkingOkStep, NoTaskLostStep DEF WorkIInv
<1> QED
  BY <1>1, <1>2, PTL DEF WorkSpec

\* The variables of the queue keep their types; a channel never has more than
\* one task.
THEOREM WorkTypeOK == WorkSpec => []TasksTypeOK
BY WorkIInvHolds, PTL DEF WorkIInv

\* Worker.handleDelivery: a task on disk is ready, with a channel, or done.
THEOREM WorkNoTaskLost == WorkSpec => []NoTaskLost
BY WorkIInvHolds, PTL DEF WorkIInv
-----------------------------------------------------------------------------
\* While the broker runs, a worker works at the task of its channel, and what
\* is on the way has not arrived.
Steady ==
    /\ queue \cup Unacked \cup done \subseteq sent
    /\ wire \cap (queue \cup Unacked \cup done) = {}
    /\ \A w \in Worker :
        /\ inbox[w] = <<>> => unacked[w] = {}
        /\ inbox[w] # <<>> => unacked[w] = {Head(inbox[w]).task} /\ Tail(inbox[w]) = <<>>
                              /\ Head(inbox[w]).epoch = 0

SteadyOk == epoch = 0 => Steady

LEMMA EpochGrows == TasksTypeOK /\ [WorkNext]_workVars /\ epoch' = 0 => epoch = 0 /\ ~Restart
<1> SUFFICES ASSUME TasksTypeOK, [WorkNext]_workVars, epoch' = 0 PROVE epoch = 0 /\ ~Restart
  OBVIOUS
<1>1. epoch \in Nat
  BY QueueAssumption DEF TasksTypeOK
<1>2. ~Restart
  BY <1>1 DEF Restart
<1>3. UNCHANGED epoch
  BY <1>2 DEF WorkNext, Publish, Enqueue, Persist, StartWorker, Work, DeliverTask, DoWork, AckTask,
              CrashWorker, workVars
<1> QED
  BY <1>2, <1>3

LEMMA SteadyStep == WorkIInv /\ SteadyOk /\ [WorkNext]_workVars => SteadyOk'
<1> SUFFICES ASSUME WorkIInv, Steady, [WorkNext]_workVars, epoch = 0, epoch' = 0, ~Restart PROVE Steady'
  BY EpochGrows DEF SteadyOk, WorkIInv
<1> USE DEF WorkIInv, TasksTypeOK, Steady, Unacked
<1>1. ASSUME NEW t \in Task, Publish(t) \/ Enqueue(t) \/ Persist(t) PROVE Steady'
  BY <1>1 DEF Publish, Enqueue, Persist
<1>2. ASSUME NEW w \in Worker, StartWorker(w) PROVE Steady'
  BY <1>2 DEF StartWorker
<1>3. ASSUME NEW w \in Worker, NEW t \in Task, DeliverTask(w, t) PROVE Steady'
  <2>1. inbox[w] = <<>>
    <3>1. unacked[w] = {}
      BY <1>3 DEF DeliverTask
    <3>2. inbox[w] # <<>> => Head(inbox[w]).task \in unacked[w]
      BY DEF Steady
    <3> QED
      BY <3>1, <3>2
  <2>2. inbox'[w] = <<[task |-> t, epoch |-> 0]>> /\ unacked'[w] = {t}
    BY <1>3, <2>1 DEF DeliverTask
  <2>3. \A v \in Worker \ {w} : inbox'[v] = inbox[v] /\ unacked'[v] = unacked[v]
    BY <1>3 DEF DeliverTask
  <2> QED
    BY <1>3, <2>2, <2>3 DEF DeliverTask
<1>4. ASSUME NEW w \in Worker, DoWork(w) PROVE Steady'
  BY <1>4 DEF DoWork
<1>5. ASSUME NEW w \in Worker, AckTask(w) PROVE Steady'
  <2>1. inbox[w] # <<>>
    BY <1>5 DEF AckTask, WorkingOk
  <2>2. inbox'[w] = <<>> /\ unacked'[w] = {}
    BY <1>5, <2>1 DEF AckTask
  <2>3. \A v \in Worker \ {w} : inbox'[v] = inbox[v] /\ unacked'[v] = unacked[v]
    BY <1>5 DEF AckTask
  <2> QED
    BY <1>5, <2>2, <2>3 DEF AckTask
<1>6. ASSUME NEW w \in Worker, CrashWorker(w) PROVE Steady'
  BY <1>6 DEF CrashWorker
<1>8. CASE UNCHANGED workVars
  BY <1>8 DEF workVars
<1> QED
  BY <1>1, <1>2, <1>3, <1>4, <1>5, <1>6, <1>8 DEF WorkNext, Work

IInvSteady == WorkIInv /\ SteadyOk

LEMMA SteadyHolds == WorkSpec => []IInvSteady
<1>1. WorkInit => SteadyOk
  BY DEF WorkInit, SteadyOk, Steady, Unacked
<1>2. WorkIInv /\ SteadyOk /\ [WorkNext]_workVars => SteadyOk'
  BY SteadyStep
<1> QED
  BY <1>1, <1>2, WorkIInvHolds, PTL DEF WorkSpec, IInvSteady

LEMMA WorkStepImplements ==
    IInvSteady /\ [WorkNext]_workVars => [epoch' = 0 => TaskQueue!Next]_(TaskQueue!vars)
<1> SUFFICES ASSUME WorkIInv, Steady, [WorkNext]_workVars, epoch = 0, ~Restart
             PROVE  [TaskQueue!Next]_(TaskQueue!vars)
  BY EpochGrows DEF IInvSteady, SteadyOk, WorkIInv
<1> USE DEF WorkIInv, TasksTypeOK, Unacked
<1> DEFINE Same == UNCHANGED <<queue, unacked, done>>
<1>0. Same => UNCHANGED TaskQueue!vars
  BY DEF TaskQueue!vars
<1>1. ASSUME NEW t \in Task, Publish(t) \/ Persist(t) PROVE Same
  BY <1>1 DEF Publish, Persist
<1>2. ASSUME NEW w \in Worker, StartWorker(w) PROVE Same
  BY <1>2 DEF StartWorker
<1>3. ASSUME NEW t \in Task, Enqueue(t) PROVE TaskQueue!Put(t)
  BY <1>3 DEF Enqueue, TaskQueue!Put, Steady
<1>4. ASSUME NEW w \in Worker, NEW t \in Task, DeliverTask(w, t) PROVE TaskQueue!Take(w, t)
  BY <1>4 DEF DeliverTask, TaskQueue!Take
<1>5. ASSUME NEW w \in Worker, DoWork(w)
      PROVE  \E t \in Task : TaskQueue!Handle(w, t)
  <2> DEFINE t == Head(inbox[w]).task
  <2>1. t \in unacked[w]
    BY <1>5 DEF DoWork, Steady
  <2>2. t \in Task
    BY <2>1
  <2> HIDE DEF t
  <2>3. done' = done \cup {t}
    BY <1>5 DEF DoWork, t
  <2>4. TaskQueue!Handle(w, t)
    BY <1>5, <2>1, <2>3 DEF DoWork, TaskQueue!Handle
  <2> QED
    BY <2>2, <2>4
<1>6. ASSUME NEW w \in Worker, AckTask(w)
      PROVE  \E t \in Task : TaskQueue!Ack(w, t)
  <2> DEFINE t == Head(inbox[w]).task
  <2>1. unacked[w] = {t} /\ t \in done /\ Head(inbox[w]).epoch = epoch
    BY <1>6 DEF AckTask, WorkingOk, Steady
  <2>2. t \in Task
    BY <2>1
  <2>3. unacked' = [unacked EXCEPT ![w] = @ \ {t}]
    BY <1>6, <2>1 DEF AckTask
  <2> HIDE DEF t
  <2>4. unacked' = [unacked EXCEPT ![w] = {}] /\ UNCHANGED <<queue, done>>
    BY <1>6, <2>1, <2>3 DEF AckTask
  <2>5. queue' \cup (UNION {unacked'[v] : v \in Worker}) \cup done'
          = queue \cup (UNION {unacked[v] : v \in Worker}) \cup done
    <3>1. \A v \in Worker : unacked'[v] \subseteq unacked[v]
                           /\ unacked[v] \subseteq unacked'[v] \cup {t}
      BY <2>1, <2>4
    <3> QED
      BY <2>1, <2>4, <3>1
  <2>6. TaskQueue!Ack(w, t)
    BY <2>1, <2>4, <2>5 DEF TaskQueue!Ack
  <2> QED
    BY <2>2, <2>6
<1>7. ASSUME NEW w \in Worker, CrashWorker(w) PROVE TaskQueue!GiveBack({w})
  <2>1. /\ queue' = queue \cup unacked[w]
        /\ unacked' = [unacked EXCEPT ![w] = {}]
        /\ done' = done
    BY <1>7 DEF CrashWorker
  <2>2. unacked' = [c \in Worker |-> IF c \in {w} THEN {} ELSE unacked[c]]
    BY <2>1
  <2>3. UNION {unacked[c] : c \in {w}} = unacked[w]
    OBVIOUS
  <2>4. queue' = queue \cup UNION {unacked[c] : c \in {w}}
    BY <2>1, <2>3
  <2>5. queue' \cup (UNION {unacked'[v] : v \in Worker}) \cup done'
          = queue \cup (UNION {unacked[v] : v \in Worker}) \cup done
    BY <2>1
  <2> QED
    BY <2>1, <2>2, <2>4, <2>5 DEF TaskQueue!GiveBack
<1>9. UNCHANGED workVars => Same
  BY DEF workVars
<1>10. \A w \in Worker : {w} \in SUBSET Worker
  OBVIOUS
<1>11. CASE Same
  BY <1>0, <1>11
<1>12. CASE \E w \in Worker : CrashWorker(w)
  BY <1>7, <1>10, <1>12 DEF TaskQueue!Next
<1>13. CASE \E w \in Worker : Work(w)
  BY <1>4, <1>5, <1>6, <1>13 DEF Work, TaskQueue!Next
<1>14. CASE \E t \in Task : Enqueue(t)
  BY <1>3, <1>14 DEF TaskQueue!Next
<1> QED
  BY <1>1, <1>2, <1>9, <1>11, <1>12, <1>13, <1>14 DEF WorkNext

\* NewTask, Worker: while the broker does not restart, task_queue and its
\* workers implement AckQueue, whatever workers crash.
THEOREM WorkImplements == WorkSpec => WorkImplementsAckQueue
<1>1. WorkInit => TaskQueue!Init
  BY DEF WorkInit, TaskQueue!Init, Unacked
<1>2. IInvSteady /\ [WorkNext]_workVars => [epoch' = 0 => TaskQueue!Next]_(TaskQueue!vars)
  BY WorkStepImplements
<1>3. WorkSpec => []IInvSteady
  BY SteadyHolds
<1> QED
  BY <1>1, <1>2, <1>3, PTL DEF WorkSpec, WorkImplementsAckQueue
=============================================================================
