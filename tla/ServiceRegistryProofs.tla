----------------------- MODULE ServiceRegistryProofs -----------------------
(***************************************************************************)
(* The list of a consumer shows one moment of the registry, and is out of  *)
(* date only after the race of the constructor with the event thread, for  *)
(* any number of servers, consumers and addresses.                         *)
(***************************************************************************)
EXTENDS ServiceRegistry, SequenceTheorems, FiniteSetTheorems, TLAPS

View == [at : {"idle", "children", "data"}, todo : Seq(Provider),
         urlListTmp : Seq(Address), version : Nat]

Types ==
    /\ TypeOK
    /\ history \in Seq(SUBSET Provider) /\ Len(history) # 0
    /\ view \in [Consumer \X Thread -> View]
    /\ urlList \in [Consumer -> Seq(Address)]

Shown(s) == {s[i] : i \in DOMAIN s}
Read(c, t) == view[c, t].version

\* What watchNode has of the moment it read the children: addresses it has got
\* and nodes it has yet to ask for.
HalfRead(v, past) ==
    v.at = "data" =>
        /\ v.version # 0
        /\ Shown(v.urlListTmp) \cup Addresses(Shown(v.todo)) = Addresses(past[v.version])
        /\ Len(v.todo) + Len(v.urlListTmp) = Cardinality(past[v.version])
        /\ Shown(v.todo) \subseteq past[v.version]

Reads == \A c \in Consumer : \A t \in Thread : HalfRead(view[c, t], history)

\* The constructor runs watchNode once, before anything else.
LoadingOf(c) ==
    /\ view[c, "main"].at # "idle" <=> main[c] = "watch"
    /\ view[c, "main"].at = "children" \/ main[c] = "connect" => Read(c, "main") = 0

Loading == \A c \in Consumer : LoadingOf(c)

\* The watch belongs to the children read last, an event to an older read; so
\* the event thread reads later children than the constructor.
AheadOf(c) ==
    /\ Read(c, "main") # 0 => registry
    /\ c \in watch =>
         Read(c, "main") # 0 /\ (Read(c, "main") = Len(history) \/ Read(c, "event") = Len(history))
    /\ c \in event \/ view[c, "event"].at = "children" =>
         Read(c, "main") # 0 /\ Read(c, "main") < Len(history)
    /\ Read(c, "event") # 0 => Read(c, "main") # 0 /\ Read(c, "main") < Read(c, "event")
    /\ view[c, "event"].at = "data" => Read(c, "event") # 0 /\ seen[c] <= Read(c, "event")

Ahead == \A c \in Consumer : AheadOf(c)

\* A server registers once.
Members == \A p \in Nodes : server[p] \in {"up", "dead"}

IInv == Types /\ ListIsSnapshot /\ Reads /\ Loading /\ Ahead /\ Members
-----------------------------------------------------------------------------
LEMMA ShownAppend ==
    ASSUME NEW S, NEW s \in Seq(S), NEW x \in S
    PROVE  Shown(Append(s, x)) = Shown(s) \cup {x}
<1>1. DOMAIN Append(s, x) = DOMAIN s \cup {Len(s) + 1}
  OBVIOUS
<1>2. \A i \in DOMAIN s : Append(s, x)[i] = s[i]
  OBVIOUS
<1>3. Append(s, x)[Len(s) + 1] = x
  OBVIOUS
<1> QED
  BY <1>1, <1>2, <1>3 DEF Shown

LEMMA ShownTail ==
    ASSUME NEW S, NEW s \in Seq(S), s # <<>>
    PROVE  Shown(s) = {Head(s)} \cup Shown(Tail(s))
<1>1. /\ Tail(s) \in Seq(S) /\ Len(Tail(s)) = Len(s) - 1
      /\ \A i \in 1 .. Len(Tail(s)) : Tail(s)[i] = s[i + 1]
      /\ Head(s) = s[1] /\ Len(s) \in Nat \ {0}
  BY HeadTailProperties, EmptySeq
<1>2. DOMAIN s = 1 .. Len(s) /\ DOMAIN Tail(s) = 1 .. Len(s) - 1
  BY <1>1
<1>3. \A i \in 2 .. Len(s) : i - 1 \in 1 .. Len(s) - 1 /\ s[i] = Tail(s)[i - 1]
  BY <1>1
<1>4. Shown(s) \subseteq {Head(s)} \cup Shown(Tail(s))
  <2> SUFFICES ASSUME NEW i \in DOMAIN s PROVE s[i] = Head(s) \/ s[i] \in Shown(Tail(s))
    BY DEF Shown
  <2>1. i = 1 \/ i \in 2 .. Len(s)
    BY <1>1, <1>2
  <2> QED
    BY <2>1, <1>1, <1>2, <1>3 DEF Shown
<1>5. {Head(s)} \cup Shown(Tail(s)) \subseteq Shown(s)
  BY <1>1, <1>2 DEF Shown
<1> QED
  BY <1>4, <1>5

\* Whatever order getChildren returns, it is all the children, each once.
LEMMA OrderIsAll ==
    ASSUME NEW S \in SUBSET Provider, NEW order \in Orders(S)
    PROVE  order \in Seq(Provider) /\ Shown(order) = S /\ Len(order) = Cardinality(S)
<1>1. IsFiniteSet(S) /\ Cardinality(S) \in Nat
  BY RegistryAssumption, FS_Subset, FS_CardinalityType
<1> DEFINE n == Cardinality(S)
<1>2. /\ order \in [1 .. n -> S]
      /\ \A i, j \in 1 .. n : order[i] = order[j] => i = j
  BY DEF Orders
<1> HIDE DEF n
<1>3. n \in Nat
  BY <1>1 DEF n
<1>4. order \in Injection(1 .. n, S)
  BY <1>2 DEF Injection, IsInjective
<1>5. Cardinality(1 .. n) = Cardinality(S)
  BY <1>3, FS_Interval DEF n
<1>6. order \in Surjection(1 .. n, S)
  BY <1>1, <1>4, <1>5, FS_Injection
<1>7. \A x \in S : \E i \in 1 .. n : order[i] = x
  BY <1>6 DEF Surjection
<1>8. Shown(order) = S
  BY <1>2, <1>7 DEF Shown
<1>9. order \in Seq(S) /\ Len(order) = n
  BY <1>2, <1>3
<1>10. order \in Seq(Provider)
  BY <1>9
<1> QED
  BY <1>8, <1>9, <1>10 DEF n

\* The registry keeps its past.
LEMMA ChangeIs ==
    ASSUME Types, NEW S \in SUBSET Provider, Change(S)
    PROVE  /\ history' \in Seq(SUBSET Provider)
           /\ Len(history) \in Nat /\ Len(history) # 0
           /\ Len(history') = Len(history) + 1
           /\ \A i \in 1 .. Len(history) : history'[i] = history[i]
           /\ Nodes' = S
           /\ \A i \in DOMAIN history' : history'[i] \subseteq Provider
BY DEF Types, Change, Nodes
-----------------------------------------------------------------------------
\* What the steps of watchNode do to its local variables.
Put(c, t, v) == view' = [view EXCEPT ![<<c, t>>] = v]

LEMMA PutIs ==
    ASSUME Types, NEW c \in Consumer, NEW t \in Thread, NEW v \in View, Put(c, t, v)
    PROVE  /\ view' \in [Consumer \X Thread -> View]
           /\ view'[c, t] = v
           /\ \A d \in Consumer : \A u \in Thread : d # c \/ u # t => view'[d, u] = view[d, u]
<1>1. view \in [Consumer \X Thread -> View] /\ <<c, t>> \in Consumer \X Thread
  BY DEF Types
<1>2. view'[<<c, t>>] = v /\ view' \in [Consumer \X Thread -> View]
  BY <1>1 DEF Put
<1>3. ASSUME NEW d \in Consumer, NEW u \in Thread, d # c \/ u # t PROVE view'[<<d, u>>] = view[<<d, u>>]
  BY <1>1, <1>3 DEF Put
<1> QED
  BY <1>2, <1>3

LEMMA ViewType == 
    ASSUME Types, NEW c \in Consumer, NEW t \in Thread
    PROVE  /\ view[c, t] \in View /\ <<c, t>> \in Consumer \X Thread
           /\ view[c, t].at \in {"idle", "children", "data"}
           /\ view[c, t].todo \in Seq(Provider) /\ view[c, t].urlListTmp \in Seq(Address)
           /\ view[c, t].version \in 0 .. Len(history) /\ Read(c, t) = view[c, t].version
<1>1. <<c, t>> \in Consumer \X Thread
  OBVIOUS
<1> QED
  BY <1>1 DEF Types, TypeOK, View, Read

LEMMA ReturnIs ==
    ASSUME Types, NEW c \in Consumer, NEW t \in Thread, Return(c, t)
    PROVE  \E v \in View : /\ Put(c, t, v) /\ v.at = "idle" /\ v.version = Read(c, t)
                           /\ main' = IF t = "main" THEN [main EXCEPT ![c] = "lookup"] ELSE main
<1> DEFINE v == [Idle EXCEPT !.version = view[c, t].version]
<1>1. <<>> \in Seq(Provider) /\ <<>> \in Seq(Address)
  OBVIOUS
<1>2. v \in View /\ v.at = "idle" /\ v.version = Read(c, t)
  BY <1>1, ViewType DEF View, Idle
<1>3. Put(c, t, v) /\ main' = IF t = "main" THEN [main EXCEPT ![c] = "lookup"] ELSE main
  BY DEF Return, Put
<1> HIDE DEF v
<1> QED
  BY <1>2, <1>3

LEMMA FetchIs ==
    ASSUME Types, NEW c \in Consumer, NEW t \in Thread, Fetch(c, t)
    PROVE  \E v \in View : /\ Put(c, t, v) /\ v.at = "data" /\ v.version = Len(history)
                           /\ v.urlListTmp = <<>> /\ Shown(v.todo) = Nodes /\ Len(v.todo) = Cardinality(Nodes)
                           /\ main' = main
<1>1. PICK order \in Orders(Nodes) :
          view' = [view EXCEPT ![<<c, t>>] =
               [at |-> "data", todo |-> order, urlListTmp |-> <<>>, version |-> Len(history)]]
  BY DEF Fetch
<1>2. Nodes \in SUBSET Provider /\ Len(history) \in Nat
  BY DEF Types, Nodes
<1>3. order \in Seq(Provider) /\ Shown(order) = Nodes /\ Len(order) = Cardinality(Nodes)
  BY <1>2, OrderIsAll
<1> DEFINE v == [at |-> "data", todo |-> order, urlListTmp |-> <<>>, version |-> Len(history)]
<1>4. <<>> \in Seq(Address)
  OBVIOUS
<1>5. v \in View
  BY <1>2, <1>3, <1>4 DEF View
<1>6. /\ Put(c, t, v) /\ v.at = "data" /\ v.version = Len(history)
      /\ v.urlListTmp = <<>> /\ v.todo = order /\ main' = main
  BY <1>1 DEF Fetch, Put
<1> HIDE DEF v
<1> QED
  BY <1>3, <1>5, <1>6

\* A watchNode that takes another address.
LEMMA TakeIs ==
    ASSUME Types, NEW c \in Consumer, NEW t \in Thread, GetData(c, t), ~Return(c, t)
    PROVE  \E v \in View :
             LET u == view[c, t] IN
             /\ Put(c, t, v) /\ u.at = "data" /\ v.at = "data" /\ v.version = u.version
             /\ Shown(u.todo) = {Head(u.todo)} \cup Shown(v.todo) /\ Head(u.todo) \in Provider
             /\ Shown(v.urlListTmp) = Shown(u.urlListTmp) \cup {UrlOf[Head(u.todo)]}
             /\ Len(v.todo) + Len(v.urlListTmp) = Len(u.todo) + Len(u.urlListTmp)
             /\ main' = main
<1> DEFINE u == view[c, t]
           p == Head(u.todo)
           v == [u EXCEPT !.todo = Tail(@), !.urlListTmp = Append(@, UrlOf[p])]
<1>1. u.at = "data" /\ u.todo # <<>> /\ Put(c, t, v) /\ main' = main
  BY DEF GetData, Put
<1>2. u \in View /\ u.todo \in Seq(Provider) /\ u.urlListTmp \in Seq(Address)
  BY ViewType
<1> HIDE DEF u
<1>3. /\ p \in Provider /\ Tail(u.todo) \in Seq(Provider)
      /\ Len(Tail(u.todo)) = Len(u.todo) - 1 /\ Len(u.todo) \in Nat
  BY <1>1, <1>2, HeadTailProperties
<1>4. UrlOf[p] \in Address
  BY <1>3, RegistryAssumption
<1>5. Shown(u.todo) = {p} \cup Shown(Tail(u.todo))
  BY <1>1, <1>2, ShownTail
<1> HIDE DEF p
<1>6. /\ Append(u.urlListTmp, UrlOf[p]) \in Seq(Address)
      /\ Len(Append(u.urlListTmp, UrlOf[p])) = Len(u.urlListTmp) + 1 /\ Len(u.urlListTmp) \in Nat
  BY <1>2, <1>4, AppendProperties
<1>7. Shown(Append(u.urlListTmp, UrlOf[p])) = Shown(u.urlListTmp) \cup {UrlOf[p]}
  BY <1>2, <1>4, ShownAppend
<1>8. /\ v.at = u.at /\ v.version = u.version /\ v.todo = Tail(u.todo)
      /\ v.urlListTmp = Append(u.urlListTmp, UrlOf[p]) /\ v \in View
  BY <1>2, <1>3, <1>6 DEF View
<1> HIDE DEF v
<1>9. Len(v.todo) + Len(v.urlListTmp) = Len(u.todo) + Len(u.urlListTmp)
  <2>1. Len(v.todo) = Len(u.todo) - 1 /\ Len(v.urlListTmp) = Len(u.urlListTmp) + 1
    BY <1>3, <1>6, <1>8, Zenon
  <2>2. \A m, n \in Nat : (m - 1) + (n + 1) = m + n
    OBVIOUS
  <2> QED
    BY <1>3, <1>6, <2>1, <2>2, Zenon
<1>10. v.at = "data"
  BY <1>1, <1>8
<1> QED
  BY <1>1, <1>3, <1>5, <1>7, <1>8, <1>9, <1>10 DEF u, p
-----------------------------------------------------------------------------
\* The parts of Types, by what they are about.
ServerTypes ==
    /\ scenario \in Scenarios
    /\ registry \in BOOLEAN
    /\ session \in [Process -> {"none", "open", "expired"}]
    /\ server \in [Provider -> {"publish", "rebind", "connect", "exists", "parent", "node", "up", "dead"}]
    /\ exported \subseteq Provider

HistoryTypes ==
    /\ history \in Seq(SUBSET Provider) /\ Len(history) # 0
    /\ watch \subseteq Consumer
    /\ event \subseteq Consumer
    /\ seen \in [Consumer -> 1 .. Len(history)]

ViewTypes ==
    /\ view \in [Consumer \X Thread -> View]
    /\ \A x \in Consumer \X Thread : view[x].version \in 0 .. Len(history)

ClientTypes ==
    /\ main \in [Consumer ->
          {"connect", "watch", "lookup", "get", "naming", "first", "call", "dead"}]
    /\ urlList \in [Consumer -> Seq(Address)]
    /\ size \in [Consumer -> 0 .. Cardinality(Provider)]
    /\ url \in [Consumer -> Address]
    /\ stub \in [Consumer -> Provider]

LEMMA TypesParts == Types <=> ServerTypes /\ HistoryTypes /\ ViewTypes /\ ClientTypes
<1>1. Types => ServerTypes /\ HistoryTypes /\ ViewTypes /\ ClientTypes
  BY DEF Types, TypeOK, ServerTypes, HistoryTypes, ViewTypes, ClientTypes
<1>2. HistoryTypes => \A i \in DOMAIN history : history[i] \subseteq Provider
  BY DEF HistoryTypes
<1>3. ViewTypes => \A x \in Consumer \X Thread : view[x].at \in {"idle", "children", "data"}
  BY DEF ViewTypes, View
<1> QED
  BY <1>1, <1>2, <1>3 DEF Types, TypeOK, ServerTypes, HistoryTypes, ViewTypes, ClientTypes

\* What a consumer reads about a moment stays true when the registry changes.
LEMMA HistoryGrows ==
    ASSUME Types, NEW S \in SUBSET Provider, Change(S), UNCHANGED <<seen, view>>
    PROVE  HistoryTypes' /\ ViewTypes'
<1>1. /\ history' \in Seq(SUBSET Provider) /\ Len(history) \in Nat /\ Len(history') = Len(history) + 1
  BY ChangeIs
<1>2. 1 .. Len(history) \subseteq 1 .. Len(history') /\ 0 .. Len(history) \subseteq 0 .. Len(history')
  BY <1>1
<1>3. ViewTypes /\ HistoryTypes
  BY TypesParts
<1>4. HistoryTypes'
  BY <1>1, <1>2, <1>3 DEF HistoryTypes, Change
<1>5. ViewTypes'
  BY <1>2, <1>3 DEF ViewTypes
<1> QED
  BY <1>4, <1>5

LEMMA PutTypes ==
    ASSUME Types, NEW c \in Consumer, NEW t \in Thread, NEW v \in View, Put(c, t, v),
           v.version \in 0 .. Len(history), UNCHANGED history
    PROVE  ViewTypes'
<1>1. view' \in [Consumer \X Thread -> View] /\ view'[c, t] = v
      /\ \A d \in Consumer : \A u \in Thread : d # c \/ u # t => view'[d, u] = view[d, u]
  BY PutIs
<1>2. ASSUME NEW d \in Consumer, NEW u \in Thread PROVE view'[d, u].version \in 0 .. Len(history)
  <2>1. view[d, u].version \in 0 .. Len(history)
    BY ViewType
  <2>2. CASE d # c \/ u # t
    BY <1>1, <2>1, <2>2
  <2>3. CASE d = c /\ u = t
    BY <1>1, <2>3
  <2> QED
    BY <2>2, <2>3
<1>3. ASSUME NEW x \in Consumer \X Thread PROVE view'[x].version \in 0 .. Len(history)
  <2>1. PICK d \in Consumer, u \in Thread : x = <<d, u>>
    OBVIOUS
  <2> QED
    BY <1>2, <2>1
<1> QED
  BY <1>1, <1>3 DEF ViewTypes

LEMMA ExitTypes ==
    ASSUME Types, NEW c \in Consumer, Exit(c)
    PROVE  HistoryTypes' /\ ViewTypes' /\ ClientTypes'
<1>1. HistoryTypes /\ ViewTypes /\ ClientTypes
  BY TypesParts
<1>2. Idle \in View /\ Idle.version = 0
  <2>1. <<>> \in Seq(Provider) /\ <<>> \in Seq(Address)
    OBVIOUS
  <2> QED
    BY <2>1 DEF Idle, View
<1>3. Len(history) \in Nat
  BY <1>1 DEF HistoryTypes
<1>4. history' = history /\ view' = [x \in Consumer \X Thread |-> IF x[1] = c THEN Idle ELSE view[x]]
  BY DEF Exit, zkVars
<1>5. view' \in [Consumer \X Thread -> View]
  BY <1>1, <1>2, <1>4 DEF ViewTypes
<1>6. \A x \in Consumer \X Thread : view'[x].version \in 0 .. Len(history)
  BY <1>1, <1>2, <1>3, <1>4 DEF ViewTypes
<1>7. HistoryTypes'
  BY <1>1 DEF HistoryTypes, Exit, zkVars
<1>8. ClientTypes'
  BY <1>1 DEF ClientTypes, Exit, clientVars
<1> QED
  BY <1>4, <1>5, <1>6, <1>7, <1>8 DEF ViewTypes

LEMMA ListSize ==
    ASSUME Types, ListIsSnapshot, NEW c \in Consumer
    PROVE  Len(urlList[c]) \in 0 .. Cardinality(Provider)
<1>1. seen[c] \in DOMAIN history
  BY DEF Types, TypeOK
<1>2. history[seen[c]] \in SUBSET Provider
  BY <1>1 DEF Types, TypeOK
<1>3. Cardinality(history[seen[c]]) <= Cardinality(Provider)
  BY <1>2, RegistryAssumption, FS_Subset
<1>4. Cardinality(history[seen[c]]) \in Nat /\ Cardinality(Provider) \in Nat
  BY <1>2, RegistryAssumption, FS_Subset, FS_CardinalityType
<1> QED
  BY <1>3, <1>4 DEF ListIsSnapshot

LEMMA TypesStep == Types /\ ListIsSnapshot /\ Reads /\ [Next]_vars => Types'
<1> SUFFICES ASSUME Types, ListIsSnapshot, Reads, [Next]_vars PROVE Types'
  OBVIOUS
<1>0. ServerTypes /\ HistoryTypes /\ ViewTypes /\ ClientTypes
  BY TypesParts
<1>s. scenario' = scenario
  BY DEF Next, vars
<1> USE DEF zkVars, clientVars, consumerVars
<1>a. UNCHANGED consumerVars => ClientTypes'
  BY <1>0 DEF ClientTypes
<1>b. UNCHANGED <<history, consumerVars>> => HistoryTypes' /\ ViewTypes'
  BY <1>0 DEF HistoryTypes, ViewTypes
<1>c. UNCHANGED <<registry, session, server, exported>> => ServerTypes'
  BY <1>0, <1>s DEF ServerTypes
<1>d. ServerTypes' /\ HistoryTypes' /\ ViewTypes' /\ ClientTypes' => Types'
  BY TypesParts, PTL
<1>1. ASSUME NEW p \in Provider, Publish(p), ~CreateNode(p) PROVE Types'
  <2> USE DEF CreateRegistry, Rebind, ConnectServer, ExistsParent, CreateParent
  <2>1. UNCHANGED <<history, consumerVars>>
    BY <1>1 DEF Publish
  <2>2. registry' \in BOOLEAN /\ session' \in [Process -> {"none", "open", "expired"}]
        /\ exported' \subseteq Provider
    BY <1>0, <1>1 DEF Publish, ServerTypes, Process
  <2>3. server' \in [Provider -> {"publish", "rebind", "connect", "exists", "parent", "node", "up", "dead"}]
    BY <1>0, <1>1 DEF Publish, ServerTypes
  <2>4. ServerTypes'
    BY <1>0, <1>s, <2>2, <2>3 DEF ServerTypes
  <2> QED
    BY <1>a, <1>b, <1>d, <2>1, <2>4
<1>2. ASSUME NEW p \in Provider, CreateNode(p) PROVE Types'
  <2>1. ServerTypes' /\ ClientTypes'
    BY <1>0, <1>2, <1>s DEF CreateNode, ServerTypes, ClientTypes
  <2>2. CASE Change(Nodes \cup {p})
    <3>1. Nodes \cup {p} \in SUBSET Provider
      BY DEF Types, Nodes
    <3>2. UNCHANGED <<seen, view>>
      BY <1>2 DEF CreateNode
    <3> QED
      BY <1>d, <2>1, <2>2, <3>1, <3>2, HistoryGrows
  <2>3. CASE UNCHANGED <<history, event, watch>>
    BY <1>0, <1>2, <1>d, <2>1, <2>3 DEF CreateNode, HistoryTypes, ViewTypes
  <2> QED
    BY <1>2, <2>2, <2>3 DEF CreateNode
<1>3. ASSUME NEW c \in Consumer, ConnectConsumer(c) PROVE Types'
  <2>1. ServerTypes' /\ HistoryTypes' /\ ClientTypes'
    BY <1>0, <1>3, <1>s DEF ConnectConsumer, ServerTypes, HistoryTypes, ClientTypes, Process
  <2>2. view[c, "main"] \in View /\ view[c, "main"].version \in 0 .. Len(history)
    BY ViewType DEF Thread
  <2> DEFINE v == [view[c, "main"] EXCEPT !.at = "children"]
  <2>3. v \in View /\ v.version \in 0 .. Len(history) /\ Put(c, "main", v) /\ history' = history
    BY <1>3, <2>2 DEF ConnectConsumer, View, Put
  <2> HIDE DEF v
  <2>4. ViewTypes'
    BY <2>3, PutTypes DEF Thread
  <2> QED
    BY <1>d, <2>1, <2>4
<1>4. ASSUME NEW c \in Consumer, ProcessEvent(c) PROVE Types'
  <2>1. ServerTypes' /\ HistoryTypes' /\ ClientTypes'
    BY <1>0, <1>4, <1>s DEF ProcessEvent, ServerTypes, HistoryTypes, ClientTypes
  <2>2. view[c, "event"] \in View /\ view[c, "event"].version \in 0 .. Len(history)
    BY ViewType DEF Thread
  <2> DEFINE v == [view[c, "event"] EXCEPT !.at = "children"]
  <2>3. v \in View /\ v.version \in 0 .. Len(history) /\ Put(c, "event", v) /\ history' = history
    BY <1>4, <2>2 DEF ProcessEvent, View, Put
  <2> HIDE DEF v
  <2>4. ViewTypes'
    BY <2>3, PutTypes DEF Thread
  <2> QED
    BY <1>d, <2>1, <2>4
<1>5. ASSUME NEW c \in Consumer, NEW t \in Thread, WatchNode(c, t) PROVE Types'
  <2>1. UNCHANGED <<registry, session, server, exported, history, event, clientVars>>
    BY <1>5 DEF WatchNode, GetChildren, GetData, SetUrlList
  <2>2. ASSUME NEW v \in View, Put(c, t, v), v.version \in 0 .. Len(history) PROVE ViewTypes'
    BY <2>1, <2>2, PutTypes
  <2>3. Read(c, t) \in 0 .. Len(history) /\ Len(history) \in 0 .. Len(history)
    <3>1. Len(history) \in Nat
      BY <1>0 DEF HistoryTypes
    <3>2. Read(c, t) \in 0 .. Len(history)
      BY ViewType, Zenon
    <3> QED
      BY <3>1, <3>2
  <2>4. main' \in [Consumer ->
          {"connect", "watch", "lookup", "get", "naming", "first", "call", "dead"}] /\ ViewTypes'
    <3>1. CASE Return(c, t)
      <4>1. PICK v \in View : /\ Put(c, t, v) /\ v.at = "idle" /\ v.version = Read(c, t)
                              /\ main' = IF t = "main" THEN [main EXCEPT ![c] = "lookup"] ELSE main
        BY <3>1, ReturnIs
      <4>2. ViewTypes'
        BY <2>2, <2>3, <4>1
      <4> QED
        BY <1>0, <4>1, <4>2 DEF ClientTypes
    <3>2. CASE Fetch(c, t)
      <4>1. PICK v \in View : Put(c, t, v) /\ v.version = Len(history) /\ main' = main
        BY <3>2, FetchIs
      <4>2. ViewTypes'
        BY <2>2, <2>3, <4>1
      <4> QED
        BY <1>0, <4>1, <4>2 DEF ClientTypes
    <3>3. CASE GetData(c, t) /\ ~Return(c, t)
      <4>1. PICK v \in View : Put(c, t, v) /\ v.version = view[c, t].version /\ main' = main
        BY <3>3, TakeIs
      <4>2. ViewTypes'
        BY <2>2, <2>3, <4>1 DEF Read
      <4> QED
        BY <1>0, <4>1, <4>2 DEF ClientTypes
    <3> QED
      BY <1>5, <3>1, <3>2, <3>3 DEF WatchNode, GetChildren, SetUrlList
  <2>5. CASE SetUrlList(c, t) /\ view[c, t].version # 0
    <3>1. view[c, t].urlListTmp \in Seq(Address) /\ view[c, t].version \in 1 .. Len(history)
      <4>1. \A n \in 0 .. Len(history) : n # 0 => n \in 1 .. Len(history)
        BY <1>0 DEF HistoryTypes
      <4> QED
        BY <2>5, <4>1, ViewType, Zenon
    <3>2. HistoryTypes' /\ ClientTypes'
      BY <1>0, <2>1, <2>4, <2>5, <3>1 DEF SetUrlList, HistoryTypes, ClientTypes
    <3> QED
      BY <1>c, <1>d, <2>1, <2>4, <3>2
  <2>6. CASE ~SetUrlList(c, t)
    <3>1. UNCHANGED <<urlList, seen>> /\ watch' \subseteq watch \cup {c}
      BY <1>5, <2>6 DEF WatchNode, GetChildren, GetData
    <3>2. HistoryTypes' /\ ClientTypes'
      BY <1>0, <2>1, <2>4, <3>1 DEF HistoryTypes, ClientTypes
    <3> QED
      BY <1>c, <1>d, <2>1, <2>4, <3>2
  <2>7. SetUrlList(c, t) => view[c, t].version # 0
    BY DEF SetUrlList, Reads, HalfRead
  <2> QED
    BY <2>5, <2>6, <2>7
<1>6. ASSUME NEW c \in Consumer, Exit(c) PROVE Types'
  BY <1>6, <1>c, <1>d, ExitTypes DEF Exit
<1>7. ASSUME NEW c \in Consumer, Client(c), ~Exit(c) PROVE Types'
  <2> USE DEF LookupSize, LookupGet, NamingLookup, RetryFirst, SayHello, Go
  <2>1. Stay
    BY <1>7 DEF Client
  <2>2. main' \in [Consumer ->
          {"connect", "watch", "lookup", "get", "naming", "first", "call", "dead"}]
    BY <1>0, <1>7 DEF Client, ClientTypes
  <2>3. size' \in [Consumer -> 0 .. Cardinality(Provider)]
    BY <1>0, <1>7, ListSize DEF Client, ClientTypes
  <2>4. url' \in [Consumer -> Address] /\ stub' \in [Consumer -> Provider]
    <3>1. \A i \in 1 .. Len(urlList[c]) : urlList[c][i] \in Address
      BY DEF Types
    <3>2. urlList[c] # <<>> => 1 \in 1 .. Len(urlList[c])
      BY EmptySeq DEF Types
    <3>3. size[c] \in Nat
      BY <1>0 DEF ClientTypes
    <3>4. \A i \in 1 .. size[c] : i <= Len(urlList[c]) => i \in 1 .. Len(urlList[c])
      BY <3>3
    <3> QED
      BY <1>0, <1>7, <3>1, <3>2, <3>4 DEF Client, ClientTypes
  <2>5. HistoryTypes' /\ ViewTypes'
    BY <1>0, <2>1 DEF Stay, HistoryTypes, ViewTypes
  <2> QED
    BY <1>0, <1>c, <1>d, <2>1, <2>2, <2>3, <2>4, <2>5 DEF Stay, ClientTypes
<1>8. ASSUME NEW x \in Process, Crash(x) PROVE Types'
  <2>1. CASE x \in Consumer /\ Exit(x)
    BY <1>6, <2>1
  <2>2. CASE /\ x \in Provider
             /\ server' = [server EXCEPT ![x] = "dead"]
             /\ exported' = exported \ {x}
             /\ UNCHANGED <<zkVars, consumerVars>>
    BY <1>0, <1>a, <1>b, <1>d, <1>s, <2>2 DEF ServerTypes
  <2> QED
    BY <1>8, <2>1, <2>2 DEF Crash
<1>9. ASSUME NEW x \in Process, Expire(x) PROVE Types'
  <2>1. ServerTypes' /\ ClientTypes'
    BY <1>0, <1>9, <1>s DEF Expire, ServerTypes, ClientTypes
  <2>2. CASE Change(Nodes \ {x})
    <3>1. Nodes \ {x} \in SUBSET Provider
      BY DEF Types, Nodes
    <3>2. UNCHANGED <<seen, view>>
      BY <1>9 DEF Expire
    <3> QED
      BY <1>d, <2>1, <2>2, <3>1, <3>2, HistoryGrows
  <2>3. CASE watch' = watch \ {x} /\ UNCHANGED <<history, event>>
    BY <1>0, <1>9, <1>d, <2>1, <2>3 DEF Expire, HistoryTypes, ViewTypes
  <2> QED
    BY <1>9, <2>2, <2>3 DEF Expire
<1>10. CASE UNCHANGED vars
  BY <1>10, <1>a, <1>b, <1>c, <1>d DEF vars, systemVars
<1>11. CASE Next
  BY <1>1, <1>2, <1>3, <1>4, <1>5, <1>6, <1>7, <1>8, <1>9, <1>11 DEF Next, Step
<1> QED
  BY <1>10, <1>11
-----------------------------------------------------------------------------
\* The list a consumer has, and the one a thread is reading, show their moment.
LEMMA PastKept ==
    ASSUME Types, Reads, ListIsSnapshot, NEW S \in SUBSET Provider, Change(S),
           UNCHANGED <<seen, urlList, view>>
    PROVE  Reads' /\ ListIsSnapshot'
<1>1. \A i \in 1 .. Len(history) : history'[i] = history[i]
  BY ChangeIs
<1>2. ASSUME NEW c \in Consumer, NEW t \in Thread PROVE HalfRead(view'[c, t], history')
  <2> DEFINE v == view[c, t]
  <2>1. v.version \in 0 .. Len(history) /\ Len(history) \in Nat
    <3>1. Len(history) \in Nat
      BY DEF Types
    <3> QED
      BY <3>1, ViewType, Zenon
  <2> HIDE DEF v
  <2>2. HalfRead(v, history)
    BY DEF Reads, v
  <2>3. v.version # 0 => history'[v.version] = history[v.version]
    BY <1>1, <2>1
  <2>4. HalfRead(v, history')
    BY <2>2, <2>3 DEF HalfRead
  <2> QED
    BY <2>4 DEF v
<1>3. ASSUME NEW c \in Consumer
      PROVE  /\ Listed(c)' = Addresses(history'[seen'[c]])
             /\ Len(urlList'[c]) = Cardinality(history'[seen'[c]])
  <2>1. history'[seen'[c]] = history[seen[c]] /\ urlList'[c] = urlList[c]
    BY <1>1 DEF Types, TypeOK
  <2> QED
    BY <2>1 DEF ListIsSnapshot, Listed
<1> QED
  BY <1>2, <1>3 DEF Reads, ListIsSnapshot, Addresses

\* One thread's new local variables, and everything else as it was.
LEMMA PutReads ==
    ASSUME Types, Reads, NEW c \in Consumer, NEW t \in Thread, NEW v \in View, Put(c, t, v),
           HalfRead(v, history), UNCHANGED history
    PROVE  Reads'
<1>1. /\ view'[c, t] = v
      /\ \A d \in Consumer : \A u \in Thread : d # c \/ u # t => view'[d, u] = view[d, u]
  BY PutIs
<1>2. ASSUME NEW d \in Consumer, NEW u \in Thread PROVE HalfRead(view'[d, u], history)
  <2>1. HalfRead(view[d, u], history)
    BY DEF Reads
  <2>2. CASE d # c \/ u # t
    BY <1>1, <2>1, <2>2
  <2>3. CASE d = c /\ u = t
    BY <1>1, <2>3
  <2> QED
    BY <2>2, <2>3
<1> QED
  BY <1>2 DEF Reads

\* GetData keeps what has been read and what is still to read together.
LEMMA TakeReads ==
    ASSUME Types, Reads, NEW c \in Consumer, NEW t \in Thread, GetData(c, t), ~Return(c, t),
           UNCHANGED history
    PROVE  Reads'
<1> DEFINE u == view[c, t]
<1>1. PICK v \in View :
             /\ Put(c, t, v) /\ u.at = "data" /\ v.at = "data" /\ v.version = u.version
             /\ Shown(u.todo) = {Head(u.todo)} \cup Shown(v.todo) /\ Head(u.todo) \in Provider
             /\ Shown(v.urlListTmp) = Shown(u.urlListTmp) \cup {UrlOf[Head(u.todo)]}
             /\ Len(v.todo) + Len(v.urlListTmp) = Len(u.todo) + Len(u.urlListTmp)
             /\ main' = main
  BY TakeIs
<1>2. HalfRead(u, history)
  BY DEF Reads
<1> HIDE DEF u
<1>3. Addresses(Shown(u.todo)) = {UrlOf[Head(u.todo)]} \cup Addresses(Shown(v.todo))
  BY <1>1 DEF Addresses
<1>4. Shown(v.urlListTmp) \cup Addresses(Shown(v.todo)) = Shown(u.urlListTmp) \cup Addresses(Shown(u.todo))
  BY <1>1, <1>3
<1>5. HalfRead(v, history)
  <2>1. /\ u.version # 0
        /\ Shown(u.urlListTmp) \cup Addresses(Shown(u.todo)) = Addresses(history[u.version])
        /\ Len(u.todo) + Len(u.urlListTmp) = Cardinality(history[u.version])
        /\ Shown(u.todo) \subseteq history[u.version]
    BY <1>1, <1>2 DEF HalfRead
  <2>2. Shown(v.todo) \subseteq history[v.version]
    BY <1>1, <2>1
  <2>3. Shown(v.urlListTmp) \cup Addresses(Shown(v.todo)) = Addresses(history[v.version])
    BY <1>1, <1>4, <2>1, Zenon
  <2>4. Len(v.todo) + Len(v.urlListTmp) = Cardinality(history[v.version]) /\ v.version # 0
    BY <1>1, <2>1, Zenon
  <2> QED
    BY <2>2, <2>3, <2>4 DEF HalfRead
<1> QED
  BY <1>1, <1>5, PutReads

LEMMA ReadsStep == Types /\ Reads /\ ListIsSnapshot /\ [Next]_vars => Reads' /\ ListIsSnapshot'
<1> SUFFICES ASSUME Types, Reads, ListIsSnapshot, [Next]_vars PROVE Reads' /\ ListIsSnapshot'
  OBVIOUS
<1> USE DEF zkVars, clientVars, consumerVars
<1>a. UNCHANGED <<history, view>> => Reads'
  BY DEF Reads
<1>b. UNCHANGED <<history, urlList, seen>> => ListIsSnapshot'
  BY DEF ListIsSnapshot, Listed
<1>1. ASSUME NEW p \in Provider, Publish(p), ~CreateNode(p) PROVE UNCHANGED <<history, view, urlList, seen>>
  BY <1>1 DEF Publish, CreateRegistry, Rebind, ConnectServer, ExistsParent, CreateParent
<1>2. ASSUME NEW S \in SUBSET Provider, Change(S), UNCHANGED <<view, urlList, seen>>
      PROVE  Reads' /\ ListIsSnapshot'
  BY <1>2, PastKept
<1>3. ASSUME NEW p \in Provider, CreateNode(p) PROVE Reads' /\ ListIsSnapshot'
  <2>1. Nodes \cup {p} \in SUBSET Provider
    BY DEF Types, Nodes
  <2> QED
    BY <1>2, <1>3, <1>a, <1>b, <2>1 DEF CreateNode
<1>4. ASSUME NEW x \in Process, Expire(x) PROVE Reads' /\ ListIsSnapshot'
  <2>1. Nodes \ {x} \in SUBSET Provider
    BY DEF Types, Nodes
  <2> QED
    BY <1>2, <1>4, <1>a, <1>b, <2>1 DEF Expire
<1>5. ASSUME NEW c \in Consumer, NEW t \in Thread, view' = [view EXCEPT ![<<c, t>>].at = "children"],
             UNCHANGED <<history, urlList, seen>>
      PROVE  Reads' /\ ListIsSnapshot'
  <2> DEFINE v == [view[c, t] EXCEPT !.at = "children"]
  <2>1. v \in View /\ v.at = "children" /\ Put(c, t, v)
    <3>1. view[c, t] \in View /\ <<c, t>> \in Consumer \X Thread /\ view \in [Consumer \X Thread -> View]
      BY ViewType DEF Types
    <3>2. v \in View /\ v.at = "children"
      BY <3>1 DEF View
    <3> QED
      BY <1>5, <3>1, <3>2 DEF Put
  <2> HIDE DEF v
  <2>2. HalfRead(v, history)
    BY <2>1 DEF HalfRead
  <2> QED
    BY <1>5, <1>b, <2>1, <2>2, PutReads
<1>6. ASSUME NEW c \in Consumer, ConnectConsumer(c) \/ ProcessEvent(c) PROVE Reads' /\ ListIsSnapshot'
  BY <1>5, <1>6 DEF ConnectConsumer, ProcessEvent, Thread
<1>7. ASSUME NEW c \in Consumer, NEW t \in Thread, Return(c, t), UNCHANGED history PROVE Reads'
  <2>1. PICK v \in View : /\ Put(c, t, v) /\ v.at = "idle"
    BY <1>7, ReturnIs
  <2>2. HalfRead(v, history)
    BY <2>1 DEF HalfRead
  <2> QED
    BY <1>7, <2>1, <2>2, PutReads
<1>8. ASSUME NEW c \in Consumer, NEW t \in Thread, Fetch(c, t), UNCHANGED history PROVE Reads'
  <2>1. PICK v \in View : /\ Put(c, t, v) /\ v.at = "data" /\ v.version = Len(history)
                          /\ v.urlListTmp = <<>> /\ Shown(v.todo) = Nodes /\ Len(v.todo) = Cardinality(Nodes)
    BY <1>8, FetchIs
  <2>2. Shown(<<>>) = {} /\ Len(<<>>) = 0
    BY DEF Shown
  <2>3. Len(v.todo) + 0 = Len(v.todo)
    BY DEF View
  <2>4. HalfRead(v, history)
    BY <2>1, <2>2, <2>3 DEF HalfRead, Nodes, Types
  <2> QED
    BY <1>8, <2>1, <2>4, PutReads
<1>9. ASSUME NEW c \in Consumer, NEW t \in Thread, GetChildren(c, t) \/ GetData(c, t)
      PROVE  Reads' /\ ListIsSnapshot'
  <2>1. UNCHANGED <<history, urlList, seen>>
    BY <1>9 DEF GetChildren, GetData
  <2>2. Reads'
    BY <1>7, <1>8, <1>9, <2>1, TakeReads DEF GetChildren
  <2> QED
    BY <1>b, <2>1, <2>2
<1>10. ASSUME NEW c \in Consumer, NEW t \in Thread, SetUrlList(c, t) PROVE Reads' /\ ListIsSnapshot'
  <2> DEFINE u == view[c, t]
  <2>1. /\ u.at = "data" /\ u.todo = <<>>
        /\ urlList' = [urlList EXCEPT ![c] = u.urlListTmp]
        /\ seen' = [seen EXCEPT ![c] = u.version]
        /\ Return(c, t) /\ history' = history
    BY <1>10 DEF SetUrlList
  <2>2. HalfRead(u, history) /\ u.urlListTmp \in Seq(Address)
    BY ViewType DEF Reads
  <2> HIDE DEF u
  <2>3. Shown(<<>>) = {} /\ Len(<<>>) = 0 /\ Addresses({}) = {}
    BY DEF Shown, Addresses
  <2>4. Shown(u.urlListTmp) = Addresses(history[u.version]) /\ Len(u.urlListTmp) = Cardinality(history[u.version])
    <3>1. Shown(u.urlListTmp) \cup Addresses(Shown(u.todo)) = Addresses(history[u.version])
          /\ Len(u.todo) + Len(u.urlListTmp) = Cardinality(history[u.version])
      BY <2>1, <2>2 DEF HalfRead
    <3>2. Len(u.urlListTmp) \in Nat /\ Len(u.todo) = 0 /\ Addresses(Shown(u.todo)) = {}
      <4>1. Len(u.urlListTmp) \in Nat
        BY <2>2
      <4> QED
        BY <2>1, <2>3, <4>1, Zenon
    <3> QED
      BY <3>1, <3>2
  <2>5. ASSUME NEW d \in Consumer
        PROVE  /\ Shown(urlList'[d]) = Addresses(history[seen'[d]])
               /\ Len(urlList'[d]) = Cardinality(history[seen'[d]])
    <3>1. CASE d = c
      <4>1. urlList'[d] = u.urlListTmp /\ seen'[d] = u.version
        BY <2>1, <3>1 DEF Types, TypeOK
      <4> QED
        BY <2>4, <4>1
    <3>2. CASE d # c
      <4>1. urlList'[d] = urlList[d] /\ seen'[d] = seen[d]
        BY <2>1, <3>2 DEF Types, TypeOK
      <4> QED
        BY <4>1 DEF ListIsSnapshot, Listed, Shown
    <3> QED
      BY <3>1, <3>2
  <2>6. ListIsSnapshot'
    BY <2>1, <2>5 DEF ListIsSnapshot, Listed, Shown, Addresses
  <2> QED
    BY <1>7, <2>1, <2>6
<1>11. ASSUME NEW c \in Consumer, Exit(c) PROVE Reads' /\ ListIsSnapshot'
  <2>1. /\ view' = [x \in Consumer \X Thread |-> IF x[1] = c THEN Idle ELSE view[x]]
        /\ UNCHANGED <<history, urlList, seen>>
    BY <1>11 DEF Exit
  <2>2. ASSUME NEW d \in Consumer, NEW t \in Thread PROVE HalfRead(view'[d, t], history)
    <3>1. view'[d, t] = IF d = c THEN Idle ELSE view[d, t]
      BY <2>1
    <3>2. HalfRead(Idle, history)
      BY DEF HalfRead, Idle
    <3> QED
      BY <3>1, <3>2 DEF Reads
  <2> QED
    BY <1>b, <2>1, <2>2 DEF Reads
<1>12. ASSUME NEW c \in Consumer, Client(c), ~Exit(c) PROVE UNCHANGED <<history, view, urlList, seen>>
  BY <1>12 DEF Client, LookupSize, LookupGet, NamingLookup, RetryFirst, SayHello, Stay
<1>13. ASSUME NEW x \in Process, Crash(x) PROVE Reads' /\ ListIsSnapshot'
  BY <1>11, <1>13, <1>a, <1>b DEF Crash
<1>14. CASE UNCHANGED vars
  BY <1>14, <1>a, <1>b DEF vars, systemVars
<1>15. CASE Next
  BY <1>1, <1>3, <1>4, <1>6, <1>9, <1>10, <1>11, <1>12, <1>13, <1>15, <1>a, <1>b DEF Next, Step, WatchNode
<1> QED
  BY <1>14, <1>15
-----------------------------------------------------------------------------
\* What a step is for one consumer.

SameQueues(c) == (c \in watch' <=> c \in watch) /\ (c \in event' <=> c \in event)

\* Somebody else's step, or one of the main thread after the constructor.
Aside(c) ==
    /\ \A t \in Thread : view'[c, t] = view[c, t]
    /\ seen'[c] = seen[c] /\ session'[c] = session[c] /\ SameQueues(c)
    /\ main'[c] = main[c] \/ {main[c], main'[c]} \cap {"connect", "watch", "dead"} = {}
    /\ history' = history /\ (registry => registry')

Notified(c) ==
    /\ \A t \in Thread : view'[c, t] = view[c, t]
    /\ seen'[c] = seen[c] /\ session'[c] = session[c] /\ main'[c] = main[c]
    /\ c \notin watch' /\ (c \in event' <=> c \in event \/ c \in watch)
    /\ Len(history') = Len(history) + 1 /\ registry' = registry

CutOff(c) ==
    /\ \A t \in Thread : view'[c, t] = view[c, t]
    /\ seen'[c] = seen[c] /\ session'[c] = "expired" /\ main'[c] = main[c]
    /\ c \notin watch' /\ (c \in event' <=> c \in event)
    /\ history' = history /\ registry' = registry

\* A step of thread t, which is then at the point at with the children of version.
Moves(c, t, at, version) ==
    /\ view'[c, t].at = at /\ view'[c, t].version = version
    /\ \A u \in Thread \ {t} : view'[c, u] = view[c, u]
    /\ history' = history /\ registry' = registry

Connects(c) ==
    /\ Moves(c, "main", "children", Read(c, "main"))
    /\ main[c] = "connect" /\ main'[c] = "watch"
    /\ seen'[c] = seen[c] /\ SameQueues(c)

Begins(c) ==
    /\ Moves(c, "event", "children", Read(c, "event"))
    /\ c \in event /\ view[c, "event"].at = "idle" /\ Alive(c)
    /\ main'[c] = main[c] /\ seen'[c] = seen[c] /\ session'[c] = session[c]
    /\ c \notin event' /\ (c \in watch' <=> c \in watch)

Fetches(c, t) ==
    /\ view[c, t].at = "children" /\ registry
    /\ Moves(c, t, "data", Len(history))
    /\ main'[c] = main[c] /\ seen'[c] = seen[c] /\ session'[c] = session[c]
    /\ c \in watch' /\ (c \in event' <=> c \in event)

GoesOn(c, t) ==
    /\ view[c, t].at = "data"
    /\ Moves(c, t, "data", Read(c, t))
    /\ main'[c] = main[c] /\ seen'[c] = seen[c] /\ session'[c] = session[c] /\ SameQueues(c)

\* watchNode ends, with a list or without.
Ends(c, t) ==
    /\ view[c, t].at # "idle"
    /\ Moves(c, t, "idle", Read(c, t))
    /\ main'[c] = IF t = "main" THEN "lookup" ELSE main[c]
    /\ session'[c] = session[c] /\ SameQueues(c)
    /\ \/ view[c, t].at = "data" /\ seen'[c] = Read(c, t)
       \/ /\ seen'[c] = seen[c]
          /\ \/ MayThrow(c)
             \/ view[c, t].at = "children" /\ ~registry
             \/ view[c, t].at = "data" /\ Read(c, t) # Len(history)

Dies(c) ==
    /\ \A t \in Thread : view'[c, t] = Idle
    /\ main[c] # "dead" /\ main'[c] = "dead"
    /\ seen'[c] = seen[c] /\ session'[c] = session[c]
    /\ c \notin watch' /\ c \notin event'
    /\ history' = history /\ registry' = registry

OwnStep(c) ==
    \/ Connects(c) \/ Begins(c) \/ Dies(c)
    \/ \E t \in Thread : Fetches(c, t) \/ GoesOn(c, t) \/ Ends(c, t)

StepOf(c) == Aside(c) \/ Notified(c) \/ CutOff(c) \/ OwnStep(c)

\* A step of thread t of consumer c that leaves the registry alone.
LEMMA MovesIs ==
    ASSUME Types, NEW c \in Consumer, NEW t \in Thread, NEW v \in View, Put(c, t, v),
           UNCHANGED <<registry, history>>
    PROVE  /\ Moves(c, t, v.at, v.version)
           /\ \A d \in Consumer \ {c} : \A u \in Thread : view'[d, u] = view[d, u]
<1>1. /\ view'[c, t] = v
      /\ \A d \in Consumer : \A u \in Thread : d # c \/ u # t => view'[d, u] = view[d, u]
  BY PutIs
<1> QED
  BY <1>1 DEF Moves

LEMMA BeginMoves ==
    ASSUME Types, NEW c \in Consumer, NEW t \in Thread,
           view' = [view EXCEPT ![<<c, t>>].at = "children"], UNCHANGED <<registry, history>>
    PROVE  /\ Moves(c, t, "children", Read(c, t))
           /\ \A d \in Consumer \ {c} : \A u \in Thread : view'[d, u] = view[d, u]
<1> DEFINE v == [view[c, t] EXCEPT !.at = "children"]
<1>1. view[c, t] \in View /\ <<c, t>> \in Consumer \X Thread /\ view \in [Consumer \X Thread -> View]
  BY ViewType DEF Types
<1>2. v \in View /\ v.at = "children" /\ v.version = Read(c, t)
  BY <1>1 DEF View, Read
<1>3. Put(c, t, v)
  BY <1>1 DEF Put
<1> HIDE DEF v
<1> QED
  BY <1>2, <1>3, MovesIs

LEMMA StepIs ==
    ASSUME Types, Reads, [Next]_vars, NEW c \in Consumer
    PROVE  StepOf(c)
<1> USE DEF zkVars, clientVars, consumerVars, SameQueues
<1>t. /\ main \in [Consumer ->
          {"connect", "watch", "lookup", "get", "naming", "first", "call", "dead"}]
      /\ session \in [Process -> {"none", "open", "expired"}]
      /\ seen \in [Consumer -> 1 .. Len(history)]
      /\ c \in Process /\ "main" \in Thread /\ "event" \in Thread
  BY DEF Types, TypeOK, Process, Thread
<1>1. ASSUME NEW p \in Provider, Publish(p), ~CreateNode(p) PROVE Aside(c)
  <2>1. p # c
    BY RegistryAssumption
  <2>2. UNCHANGED <<history, consumerVars>> /\ (registry => registry') /\ session'[c] = session[c]
    BY <1>1, <1>t, <2>1 DEF Publish, CreateRegistry, Rebind, ConnectServer, ExistsParent, CreateParent
  <2> QED
    BY <2>2 DEF Aside
<1>2. ASSUME NEW S \in SUBSET Provider, Change(S), UNCHANGED <<registry, view, seen, main>>, session'[c] = session[c]
      PROVE  Notified(c)
  BY <1>2, ChangeIs DEF Notified, Change
<1>3. ASSUME NEW p \in Provider, CreateNode(p) PROVE Aside(c) \/ Notified(c)
  <2>1. Nodes \cup {p} \in SUBSET Provider
    BY DEF Types, Nodes
  <2> QED
    BY <1>2, <1>3, <2>1 DEF CreateNode, Aside
<1>4. ASSUME NEW x \in Process, Expire(x) PROVE Aside(c) \/ Notified(c) \/ CutOff(c)
  <2>1. Nodes \ {x} \in SUBSET Provider /\ Nodes \subseteq Provider
    BY DEF Types, Nodes
  <2>2. CASE x \in Nodes
    <3>1. x # c
      BY <2>1, <2>2, RegistryAssumption
    <3>2. session'[c] = session[c]
      BY <1>4, <1>t, <3>1 DEF Expire
    <3> QED
      BY <1>2, <1>4, <2>1, <2>2, <3>2 DEF Expire
  <2>3. CASE x \notin Nodes /\ x # c
    BY <1>4, <1>t, <2>3 DEF Expire, Aside
  <2>4. CASE x \notin Nodes /\ x = c
    BY <1>4, <1>t, <2>4 DEF Expire, CutOff
  <2> QED
    BY <2>2, <2>3, <2>4
<1>5. ASSUME NEW d \in Consumer, ConnectConsumer(d) PROVE StepOf(c)
  <2>1. /\ Moves(d, "main", "children", Read(d, "main"))
        /\ \A e \in Consumer \ {d} : \A u \in Thread : view'[e, u] = view[e, u]
    BY <1>5, <1>t, BeginMoves DEF ConnectConsumer
  <2>2. CASE c = d
    BY <1>5, <1>t, <2>1, <2>2 DEF ConnectConsumer, Connects, StepOf, OwnStep
  <2>3. CASE c # d
    BY <1>5, <1>t, <2>1, <2>3 DEF ConnectConsumer, Aside, StepOf
  <2> QED
    BY <2>2, <2>3
<1>6. ASSUME NEW d \in Consumer, ProcessEvent(d) PROVE StepOf(c)
  <2>1. /\ Moves(d, "event", "children", Read(d, "event"))
        /\ \A e \in Consumer \ {d} : \A u \in Thread : view'[e, u] = view[e, u]
    BY <1>6, <1>t, BeginMoves DEF ProcessEvent
  <2>2. CASE c = d
    BY <1>6, <1>t, <2>1, <2>2 DEF ProcessEvent, Begins, StepOf, OwnStep
  <2>3. CASE c # d
    BY <1>6, <1>t, <2>1, <2>3 DEF ProcessEvent, Aside, StepOf
  <2> QED
    BY <2>2, <2>3
<1>7. ASSUME NEW d \in Consumer, Exit(d), main[d] # "dead" PROVE StepOf(c)
  <2>1. \A u \in Thread : view'[c, u] = IF c = d THEN Idle ELSE view[c, u]
    BY <1>7 DEF Exit
  <2>2. CASE c = d
    BY <1>7, <1>t, <2>1, <2>2 DEF Exit, Dies, StepOf, OwnStep
  <2>3. CASE c # d
    BY <1>7, <1>t, <2>1, <2>3 DEF Exit, Aside, StepOf
  <2> QED
    BY <2>2, <2>3
<1>8. ASSUME NEW d \in Consumer, Client(d) PROVE StepOf(c)
  <2> USE DEF LookupSize, LookupGet, NamingLookup, RetryFirst, SayHello, Go
  <2>1. main[d] \in {"lookup", "get", "naming", "first", "call"}
    BY <1>8 DEF Client
  <2>2. CASE Exit(d)
    BY <1>7, <2>1, <2>2
  <2>3. CASE ~Exit(d)
    <3>1. Stay
      BY <1>8, <2>3 DEF Client
    <3>2. main' \in {[main EXCEPT ![d] = w] : w \in {"lookup", "get", "naming", "first", "call"}}
      BY <1>8, <2>3 DEF Client
    <3>3. main'[c] = main[c] \/ {main[c], main'[c]} \cap {"connect", "watch", "dead"} = {}
      BY <1>t, <2>1, <3>2
    <3> QED
      BY <3>1, <3>3 DEF Stay, Aside, StepOf
  <2> QED
    BY <2>2, <2>3
<1>9. ASSUME NEW x \in Process, Crash(x) PROVE StepOf(c)
  <2>1. CASE x \in Consumer /\ Exit(x)
    <3>1. main[x] # "dead"
      BY <1>9, <2>1, RegistryAssumption DEF Crash, Alive
    <3> QED
      BY <1>7, <2>1, <3>1
  <2>2. CASE UNCHANGED <<zkVars, consumerVars>>
    BY <2>2 DEF Aside, StepOf
  <2> QED
    BY <1>9, <2>1, <2>2 DEF Crash
<1>10. ASSUME NEW d \in Consumer, NEW t \in Thread, WatchNode(d, t) PROVE StepOf(c)
  <2> DEFINE u == view[d, t]
  <2>1. UNCHANGED <<registry, history, session, event>> /\ u.at # "idle" /\ watch' \in {watch, watch \cup {d}}
    BY <1>10 DEF WatchNode, GetChildren, GetData, SetUrlList
  <2>2. ASSUME c # d, main'[c] = main[c], \A w \in Thread : view'[c, w] = view[c, w] PROVE Aside(c)
    BY <1>10, <1>t, <2>1, <2>2 DEF WatchNode, GetChildren, GetData, SetUrlList, Aside
  <2>3. CASE /\ Return(d, t)
             /\ \/ u.at = "children" /\ (MayThrow(d) \/ ~registry) /\ UNCHANGED <<watch, seen>>
                \/ GetData(d, t)
                \/ SetUrlList(d, t)
    <3>1. PICK v \in View : /\ Put(d, t, v) /\ v.at = "idle" /\ v.version = Read(d, t)
                            /\ main' = IF t = "main" THEN [main EXCEPT ![d] = "lookup"] ELSE main
      BY <2>3, ReturnIs
    <3>2. /\ Moves(d, t, "idle", Read(d, t))
          /\ \A e \in Consumer \ {d} : \A w \in Thread : view'[e, w] = view[e, w]
      BY <2>1, <3>1, MovesIs
    <3>3. CASE c # d
      BY <1>t, <2>2, <3>1, <3>2, <3>3 DEF StepOf
    <3>4. CASE c = d
      <4>1. main'[c] = IF t = "main" THEN "lookup" ELSE main[c]
        BY <1>t, <3>1, <3>4
      <4>2. SetUrlList(d, t) => u.at = "data" /\ seen'[c] = Read(c, t) /\ SameQueues(c)
        BY <1>t, <3>4 DEF SetUrlList, Read
      <4>4. GetData(d, t) =>
              u.at = "data" /\ seen'[c] = seen[c] /\ SameQueues(c)
              /\ (MayThrow(c) \/ Read(c, t) # Len(history))
        <5> SUFFICES ASSUME GetData(d, t)
                     PROVE u.at = "data" /\ seen'[c] = seen[c] /\ SameQueues(c)
                           /\ (MayThrow(c) \/ Read(c, t) # Len(history))
          OBVIOUS
        <5>1. u.at = "data" /\ seen'[c] = seen[c] /\ SameQueues(c) /\ u.todo # <<>>
          BY DEF GetData
        <5>2. u \in View /\ u.todo \in Seq(Provider)
          BY ViewType
        <5>3. Head(u.todo) \in history[u.version]
          <6>1. Head(u.todo) \in Shown(u.todo)
            BY <5>1, <5>2, ShownTail
          <6> QED
            BY <5>1, <6>1 DEF Reads, HalfRead
        <5>4. MayThrow(d) \/ Head(u.todo) \notin Nodes
          <6>1. CASE view' = [view EXCEPT ![<<d, t>>] =
                       [u EXCEPT !.todo = Tail(@), !.urlListTmp = Append(@, UrlOf[Head(u.todo)])]]
            <7>1. view \in [Consumer \X Thread -> View] /\ <<d, t>> \in Consumer \X Thread
              BY ViewType DEF Types
            <7>2. view'[d, t] = [u EXCEPT !.todo = Tail(@), !.urlListTmp = Append(@, UrlOf[Head(u.todo)])]
              BY <6>1, <7>1
            <7>3. view'[d, t].at = u.at
              BY <5>2, <7>2 DEF View
            <7>4. view'[d, t].at = "idle"
              BY <3>2 DEF Moves
            <7> QED
              BY <5>1, <7>3, <7>4
          <6> QED
            BY <6>1 DEF GetData
        <5> QED
          BY <3>4, <5>1, <5>3, <5>4 DEF Read, Nodes
      <4>5. Ends(c, t)
        BY <2>1, <2>3, <3>2, <3>4, <4>1, <4>2, <4>4 DEF Ends
      <4> QED
        BY <4>5 DEF StepOf, OwnStep
    <3> QED
      BY <3>3, <3>4
  <2>4. CASE u.at = "children" /\ Fetch(d, t) /\ watch' = watch \cup {d} /\ UNCHANGED seen
    <3>1. PICK v \in View : Put(d, t, v) /\ v.at = "data" /\ v.version = Len(history) /\ main' = main
      BY <2>4, FetchIs
    <3>2. /\ Moves(d, t, "data", Len(history))
          /\ \A e \in Consumer \ {d} : \A w \in Thread : view'[e, w] = view[e, w]
      BY <2>1, <3>1, MovesIs
    <3>3. CASE c # d
      BY <2>2, <3>1, <3>2, <3>3 DEF StepOf
    <3>4. CASE c = d
      <4>1. c \in watch' /\ (c \in event' <=> c \in event) /\ seen'[c] = seen[c] /\ registry
            /\ u.at = "children"
        BY <2>1, <2>4, <3>4 DEF Fetch
      <4>2. Fetches(c, t)
        BY <2>1, <3>1, <3>2, <3>4, <4>1 DEF Fetches
      <4> QED
        BY <4>2 DEF StepOf, OwnStep
    <3> QED
      BY <3>3, <3>4
  <2>5. CASE GetData(d, t) /\ ~Return(d, t)
    <3>1. PICK v \in View : Put(d, t, v) /\ u.at = "data" /\ v.at = "data" /\ v.version = u.version /\ main' = main
      BY <2>5, TakeIs
    <3>2. /\ Moves(d, t, "data", Read(d, t))
          /\ \A e \in Consumer \ {d} : \A w \in Thread : view'[e, w] = view[e, w]
      BY <2>1, <3>1, MovesIs DEF Read
    <3>3. CASE c # d
      BY <2>2, <3>1, <3>2, <3>3 DEF StepOf
    <3>4. CASE c = d
      BY <2>5, <3>1, <3>2, <3>4 DEF StepOf, OwnStep, GoesOn, GetData
    <3> QED
      BY <3>3, <3>4
  <2>6. CASE GetChildren(d, t)
    BY <2>3, <2>4, <2>6 DEF GetChildren
  <2>7. CASE SetUrlList(d, t)
    BY <2>3, <2>7 DEF SetUrlList
  <2> QED
    BY <1>10, <2>3, <2>5, <2>6, <2>7 DEF WatchNode
<1>11. CASE UNCHANGED vars
  BY <1>11 DEF vars, systemVars, Aside, StepOf
<1>12. CASE Next
  BY <1>1, <1>3, <1>4, <1>5, <1>6, <1>8, <1>9, <1>10, <1>12 DEF Next, Step, StepOf
<1> QED
  BY <1>11, <1>12
-----------------------------------------------------------------------------
LEMMA LoadingStep ==
    ASSUME Types, Reads, Loading, [Next]_vars, NEW c \in Consumer
    PROVE  LoadingOf(c)'
<1>1. StepOf(c) /\ LoadingOf(c) /\ "main" \in Thread /\ "event" \in Thread
  BY StepIs DEF Loading, Thread
<1> USE DEF LoadingOf, Read
<1>2. CASE Aside(c) \/ Notified(c) \/ CutOff(c)
  BY <1>1, <1>2 DEF Aside, Notified, CutOff
<1>3. CASE Connects(c) \/ Begins(c)
  BY <1>1, <1>3 DEF Connects, Begins, Moves
<1>4. CASE Dies(c)
  <2>1. view'[c, "main"] = Idle /\ main'[c] = "dead"
    BY <1>1, <1>4 DEF Dies
  <2>2. Idle.at = "idle"
    BY DEF Idle
  <2> QED
    BY <2>1, <2>2
<1>5. ASSUME NEW t \in Thread, Fetches(c, t) \/ GoesOn(c, t) \/ Ends(c, t) PROVE LoadingOf(c)'
  <2>1. CASE t = "main"
    BY <1>1, <1>5, <2>1 DEF Fetches, GoesOn, Ends, Moves
  <2>2. CASE t = "event"
    <3>1. view'[c, "main"] = view[c, "main"] /\ main'[c] = main[c]
      BY <1>1, <1>5, <2>2 DEF Fetches, GoesOn, Ends, Moves
    <3> QED
      BY <1>1, <3>1
  <2> QED
    BY <2>1, <2>2 DEF Thread
<1> QED
  BY <1>1, <1>2, <1>3, <1>4, <1>5 DEF StepOf, OwnStep

LEMMA AheadStep ==
    ASSUME Types, Reads, Loading, Ahead, [Next]_vars, NEW c \in Consumer
    PROVE  AheadOf(c)'
<1>1. StepOf(c) /\ LoadingOf(c) /\ AheadOf(c)
  BY StepIs DEF Loading, Ahead
<1>2. "main" \in Thread /\ "event" \in Thread /\ Thread \ {"main"} = {"event"} /\ Thread \ {"event"} = {"main"}
  BY DEF Thread
<1>3. /\ Read(c, "main") \in 0 .. Len(history) /\ Read(c, "event") \in 0 .. Len(history)
      /\ seen[c] \in 1 .. Len(history) /\ Len(history) \in Nat \ {0}
  <2>1. seen[c] \in 1 .. Len(history) /\ Len(history) \in Nat \ {0}
    BY DEF Types, TypeOK
  <2>2. ASSUME NEW t \in Thread PROVE Read(c, t) \in 0 .. Len(history)
    BY ViewType, Zenon
  <2> QED
    BY <1>2, <2>1, <2>2
<1> USE DEF AheadOf, LoadingOf, Read
<1>4. CASE Aside(c) \/ CutOff(c)
  BY <1>1, <1>2, <1>3, <1>4 DEF Aside, CutOff, SameQueues
<1>5. CASE Notified(c)
  <2>1. /\ view'[c, "main"] = view[c, "main"] /\ view'[c, "event"] = view[c, "event"]
        /\ seen'[c] = seen[c] /\ registry' = registry
        /\ c \notin watch' /\ (c \in event' <=> c \in event \/ c \in watch)
        /\ Len(history') = Len(history) + 1
    BY <1>2, <1>5 DEF Notified
  <2>2. Read(c, "main") < Len(history')
    <3>1. \A m \in Nat : \A n \in 0 .. m : n < m + 1
      OBVIOUS
    <3> QED
      BY <1>3, <2>1, <3>1
  <2> QED
    BY <1>1, <1>3, <2>1, <2>2
<1>6. CASE Connects(c) \/ Begins(c)
  BY <1>1, <1>2, <1>3, <1>6 DEF Connects, Begins, Moves, SameQueues
<1>7. CASE Dies(c)
  <2>0. Idle.at = "idle" /\ Idle.version = 0
    BY DEF Idle
  <2>1. \A t \in Thread : view'[c, t].at = "idle" /\ view'[c, t].version = 0
    BY <1>7, <2>0 DEF Dies
  <2>2. c \notin watch' /\ c \notin event'
    BY <1>7 DEF Dies
  <2> QED
    BY <1>2, <2>1, <2>2
<1>8. ASSUME NEW t \in Thread, Fetches(c, t) PROVE AheadOf(c)'
  <2>1. /\ view[c, t].at = "children" /\ registry /\ registry' = registry /\ history' = history
        /\ view'[c, t].at = "data" /\ view'[c, t].version = Len(history)
        /\ \A u \in Thread \ {t} : view'[c, u] = view[c, u]
        /\ seen'[c] = seen[c] /\ c \in watch' /\ (c \in event' <=> c \in event)
    BY <1>8 DEF Fetches, Moves
  <2>2. CASE t = "main"
    <3>1. view'[c, "event"] = view[c, "event"]
      BY <1>2, <2>1, <2>2
    <3> QED
      BY <1>1, <1>3, <2>1, <2>2, <3>1
  <2>3. CASE t = "event"
    <3>1. view'[c, "main"] = view[c, "main"]
      BY <1>2, <2>1, <2>3
    <3>2. /\ view'[c, "event"].at = "data" /\ view'[c, "event"].version = Len(history)
          /\ Read(c, "main") # 0 /\ Read(c, "main") < Len(history) /\ seen'[c] <= Len(history)
      <4>1. view'[c, "event"].at = "data" /\ view'[c, "event"].version = Len(history)
            /\ view[c, "event"].at = "children"
        BY <2>1, <2>3
      <4>2. Read(c, "main") # 0 /\ Read(c, "main") < Len(history)
        BY <1>1, <4>1
      <4>3. \A m \in Nat : \A n \in 1 .. m : n <= m
        OBVIOUS
      <4>4. seen'[c] <= Len(history)
        <5>1. Len(history) \in Nat
          BY <1>3
        <5> QED
          BY <1>3, <2>1, <4>3, <5>1, Zenon
      <4> QED
        BY <4>1, <4>2, <4>4
    <3> QED
      BY <1>1, <1>3, <2>1, <3>1, <3>2
  <2> QED
    BY <2>2, <2>3 DEF Thread
<1>9. ASSUME NEW t \in Thread, GoesOn(c, t) PROVE AheadOf(c)'
  BY <1>1, <1>2, <1>3, <1>9 DEF GoesOn, Moves, SameQueues, Thread
<1>10. ASSUME NEW t \in Thread, Ends(c, t) PROVE AheadOf(c)'
  <2>1. /\ registry' = registry /\ history' = history
        /\ view'[c, t].at = "idle" /\ view'[c, t].version = Read(c, t)
        /\ \A u \in Thread \ {t} : view'[c, u] = view[c, u]
        /\ (c \in watch' <=> c \in watch) /\ (c \in event' <=> c \in event)
        /\ seen'[c] \in {seen[c], Read(c, t)}
        /\ view[c, t].at # "idle"
    BY <1>10 DEF Ends, Moves, SameQueues
  <2>2. CASE t = "main"
    <3>1. view'[c, "event"] = view[c, "event"]
      BY <1>2, <2>1, <2>2
    <3>2. /\ view'[c, "main"].version = Read(c, "main") /\ seen'[c] \in {seen[c], Read(c, "main")}
      BY <2>1, <2>2
    <3>3. view[c, "event"].at = "data" => seen'[c] <= Read(c, "event")
      <4>1. view[c, "event"].at = "data" => seen[c] <= Read(c, "event") /\ Read(c, "main") <= Read(c, "event")
        <5>1. \A m, n \in Nat : m < n => m <= n
          OBVIOUS
        <5>2. Read(c, "main") \in Nat /\ Read(c, "event") \in Nat
          <6>1. \A m \in Nat : \A n \in 0 .. m : n \in Nat
            OBVIOUS
          <6>2. Len(history) \in Nat
            BY <1>3
          <6> QED
            BY <1>3, <6>1, <6>2, Zenon
        <5> QED
          BY <1>1, <5>1, <5>2, Zenon
      <4> QED
        BY <3>2, <4>1, Zenon
    <3> QED
      BY <1>1, <1>3, <2>1, <3>1, <3>2, <3>3
  <2>3. CASE t = "event"
    <3>1. view'[c, "main"] = view[c, "main"]
      BY <1>2, <2>1, <2>3
    <3> QED
      BY <1>1, <1>3, <2>1, <2>3, <3>1
  <2> QED
    BY <2>2, <2>3 DEF Thread
<1> QED
  BY <1>1, <1>4, <1>5, <1>6, <1>7, <1>8, <1>9, <1>10 DEF StepOf, OwnStep

LEMMA MembersStep == Types /\ Members /\ [Next]_vars => Members'
<1> SUFFICES ASSUME Types, Members, [Next]_vars PROVE Members'
  OBVIOUS
<1> USE DEF zkVars, clientVars, consumerVars
<1>a. server \in [Provider -> {"publish", "rebind", "connect", "exists", "parent", "node", "up", "dead"}]
      /\ Nodes \subseteq Provider
  BY DEF Types, TypeOK, Nodes
<1>b. UNCHANGED <<history, server>> => Members'
  BY DEF Members, Nodes
<1>1. ASSUME NEW p \in Provider, Publish(p), ~CreateNode(p) PROVE Members'
  <2>1. history' = history /\ p \notin Nodes
    BY <1>1 DEF Publish, CreateRegistry, Rebind, ConnectServer, ExistsParent, CreateParent, Members
  <2>2. \A q \in Provider \ {p} : server'[q] = server[q]
    BY <1>1, <1>a DEF Publish, CreateRegistry, Rebind, ConnectServer, ExistsParent, CreateParent
  <2> QED
    BY <1>a, <2>1, <2>2 DEF Members, Nodes
<1>2. ASSUME NEW p \in Provider, CreateNode(p) PROVE Members'
  <2>1. server' = [server EXCEPT ![p] = "up"]
    BY <1>2 DEF CreateNode
  <2>2. Nodes' \subseteq Nodes \cup {p}
    <3>1. Nodes \cup {p} \in SUBSET Provider
      BY <1>a
    <3> QED
      BY <1>2, <3>1, ChangeIs DEF CreateNode, Nodes
  <2> QED
    BY <1>a, <2>1, <2>2 DEF Members
<1>3. ASSUME NEW x \in Process, Expire(x) PROVE Members'
  <2>1. server' = server
    BY <1>3 DEF Expire
  <2>2. Nodes' \subseteq Nodes
    <3>1. Nodes \ {x} \in SUBSET Provider
      BY <1>a
    <3> QED
      BY <1>3, <3>1, ChangeIs DEF Expire, Nodes
  <2> QED
    BY <2>1, <2>2 DEF Members
<1>4. ASSUME NEW x \in Process, Crash(x) PROVE Members'
  <2>1. CASE x \in Provider /\ server' = [server EXCEPT ![x] = "dead"] /\ history' = history
    BY <1>a, <2>1 DEF Members, Nodes
  <2>2. CASE Exit(x)
    BY <1>b, <2>2 DEF Exit
  <2> QED
    BY <1>4, <2>1, <2>2 DEF Crash
<1>5. ASSUME NEW c \in Consumer, ConnectConsumer(c) \/ ProcessEvent(c) PROVE Members'
  BY <1>5, <1>b DEF ConnectConsumer, ProcessEvent
<1>6. ASSUME NEW c \in Consumer, Client(c) PROVE Members'
  BY <1>6, <1>b DEF Client, LookupSize, LookupGet, NamingLookup, RetryFirst, SayHello, Stay, Exit
<1>7. ASSUME NEW c \in Consumer, NEW t \in Thread, WatchNode(c, t) PROVE Members'
  BY <1>7, <1>b DEF WatchNode, GetChildren, GetData, SetUrlList
<1>8. CASE UNCHANGED vars
  BY <1>8, <1>b DEF vars, systemVars
<1>9. CASE Next
  BY <1>1, <1>2, <1>3, <1>4, <1>5, <1>6, <1>7, <1>9 DEF Next, Step
<1> QED
  BY <1>8, <1>9

LEMMA IInvHolds == Spec => []IInv
<1>1. Init => IInv
  <2> SUFFICES ASSUME Init PROVE IInv
    OBVIOUS
  <2>1. <<>> \in Seq(Provider) /\ <<>> \in Seq(Address) /\ Len(<<>>) = 0
    OBVIOUS
  <2>2. Idle \in View /\ Idle.at = "idle" /\ Idle.version = 0
    BY <2>1 DEF Idle, View
  <2>3. history = <<{}>> /\ Len(history) = 1 /\ history[1] = {} /\ history \in Seq(SUBSET Provider)
    BY DEF Init
  <2>4. ServerTypes
    <3>1. scenario.present \in BOOLEAN
      BY RegistryAssumption DEF Init
    <3> QED
      BY <3>1 DEF Init, ServerTypes
  <2>5. seen \in [Consumer -> 1 .. Len(history)]
    BY <2>3 DEF Init
  <2>6. HistoryTypes
    BY <2>3, <2>5 DEF Init, HistoryTypes
  <2>7. view = [x \in Consumer \X Thread |-> Idle]
    BY DEF Init
  <2>8. ViewTypes
    <3>1. 0 \in 0 .. Len(history)
      BY <2>3
    <3> QED
      BY <2>2, <2>7, <3>1 DEF ViewTypes
  <2>9. size \in [Consumer -> 0 .. Cardinality(Provider)]
    BY RegistryAssumption, FS_CardinalityType DEF Init
  <2>10. ClientTypes
    BY <2>1, <2>9 DEF Init, ClientTypes
  <2>11. Types
    BY <2>4, <2>6, <2>8, <2>10, TypesParts
  <2>12. ListIsSnapshot
    <3>1. ASSUME NEW c \in Consumer
          PROVE  Listed(c) = Addresses(history[seen[c]]) /\ Len(urlList[c]) = Cardinality(history[seen[c]])
      <4>1. urlList[c] = <<>> /\ history[seen[c]] = {}
        BY <2>3 DEF Init
      <4>2. Listed(c) = {} /\ Addresses({}) = {} /\ Cardinality({}) = 0
        BY <4>1, FS_EmptySet DEF Listed, Addresses
      <4> QED
        BY <2>1, <4>1, <4>2
    <3> QED
      BY <3>1 DEF ListIsSnapshot
  <2>13. \A c \in Consumer : \A t \in Thread : view[c, t].at = "idle" /\ Read(c, t) = 0
    BY <2>2, <2>7 DEF Read
  <2>14. Reads
    BY <2>13 DEF Reads, HalfRead
  <2>15. "main" \in Thread /\ "event" \in Thread
    BY DEF Thread
  <2>16. Loading
    BY <2>13, <2>15 DEF Init, Loading, LoadingOf
  <2>17. Ahead
    BY <2>13, <2>15 DEF Init, Ahead, AheadOf
  <2>18. Members
    BY <2>3 DEF Members, Nodes
  <2> QED
    BY <2>11, <2>12, <2>14, <2>16, <2>17, <2>18 DEF IInv
<1>2. IInv /\ [Next]_vars => IInv'
  <2> SUFFICES ASSUME IInv, [Next]_vars PROVE IInv'
    OBVIOUS
  <2>1. Types /\ ListIsSnapshot /\ Reads /\ Loading /\ Ahead /\ Members
    BY DEF IInv
  <2>2. Types' /\ Reads' /\ ListIsSnapshot' /\ Members'
    BY <2>1, TypesStep, ReadsStep, MembersStep
  <2>3. Loading'
    BY <2>1, LoadingStep DEF Loading
  <2>4. Ahead'
    BY <2>1, AheadStep DEF Ahead
  <2> QED
    BY <2>2, <2>3, <2>4 DEF IInv
<1> QED
  BY <1>1, <1>2, PTL DEF Spec

\* watchNode: the list a consumer has is the set of addresses of one moment, for any
\* number of servers that come and go while it is read.
THEOREM RegistryListInv == Spec => []ListInv
<1>1. IInv => ListInv
  BY DEF IInv, Types, ListInv
<1> QED
  BY <1>1, IInvHolds, PTL
-----------------------------------------------------------------------------
Loaded == {c \in Consumer : main[c] \notin {"connect", "watch"}}

\* What the directory sees of a step.
LEMMA StepImplements ==
    IInv /\ [Next]_vars => [Registry!Next]_(Registry!vars)
<1> SUFFICES ASSUME IInv, [Next]_vars PROVE [Registry!Next]_(Registry!vars)
  OBVIOUS
<1> USE DEF zkVars, clientVars, consumerVars
<1> DEFINE Same == history' = history /\ seen' = seen /\ Loaded' = Loaded
<1>a. Same => UNCHANGED Registry!vars
  BY DEF Registry!vars, Loaded
<1>b. /\ main \in [Consumer ->
          {"connect", "watch", "lookup", "get", "naming", "first", "call", "dead"}]
      /\ seen \in [Consumer -> 1 .. Len(history)] /\ Len(history) \in Nat
      /\ Nodes \subseteq Provider /\ Types
  BY DEF IInv, Types, TypeOK, Nodes
<1>c. main' = main => Loaded' = Loaded
  BY DEF Loaded
<1>1. ASSUME NEW c \in Consumer, main[c] \in {"connect", "watch"}, NEW w \in {"lookup", "dead"},
             main' = [main EXCEPT ![c] = w], history' = history,
             NEW v \in 1 .. Len(history), seen' = [seen EXCEPT ![c] = v]
      PROVE  Registry!Load(c)
  <2>1. c \notin Loaded /\ Loaded' = Loaded \cup {c}
    BY <1>1, <1>b DEF Loaded
  <2> QED
    BY <1>1, <2>1 DEF Registry!Load, Loaded
<1>2. ASSUME NEW p \in Provider, Publish(p), ~CreateNode(p) PROVE Same
  BY <1>2, <1>c DEF Publish, CreateRegistry, Rebind, ConnectServer, ExistsParent, CreateParent
<1>3. ASSUME NEW p \in Provider, CreateNode(p) PROVE Same \/ Registry!Join(p)
  <2>1. p \notin Nodes /\ seen' = seen /\ Loaded' = Loaded
    BY <1>3, <1>c DEF CreateNode, IInv, Members
  <2>2. history' = Append(history, Nodes \cup {p}) => Registry!Join(p)
    BY <2>1 DEF Registry!Join, Registry!Members, Nodes, Loaded
  <2> QED
    BY <1>3, <2>1, <2>2 DEF CreateNode, Change
<1>4. ASSUME NEW x \in Process, Expire(x) PROVE Same \/ \E p \in Provider : Registry!Leave(p)
  <2>1. seen' = seen /\ Loaded' = Loaded
    BY <1>4, <1>c DEF Expire
  <2>2. ASSUME x \in Nodes, history' = Append(history, Nodes \ {x}) PROVE \E p \in Provider : Registry!Leave(p)
    <3>1. Registry!Leave(x) /\ x \in Provider
      BY <1>b, <2>1, <2>2 DEF Registry!Leave, Registry!Members, Nodes, Loaded
    <3> QED
      BY <3>1
  <2> QED
    BY <1>4, <2>1, <2>2 DEF Expire, Change
<1>5. ASSUME NEW c \in Consumer, ConnectConsumer(c) PROVE Same
  <2>1. Loaded' = Loaded
    BY <1>5, <1>b DEF ConnectConsumer, Loaded
  <2> QED
    BY <1>5, <2>1 DEF ConnectConsumer
<1>6. ASSUME NEW c \in Consumer, ProcessEvent(c) PROVE Same
  BY <1>6, <1>c DEF ProcessEvent
<1>7. ASSUME NEW c \in Consumer, Exit(c) PROVE Same \/ Registry!Load(c)
  <2>1. main' = [main EXCEPT ![c] = "dead"] /\ history' = history /\ seen' = seen
    BY <1>7 DEF Exit
  <2>2. CASE main[c] \in {"connect", "watch"}
    <3>1. seen' = [seen EXCEPT ![c] = seen[c]] /\ seen[c] \in 1 .. Len(history)
      BY <1>b, <2>1
    <3> QED
      BY <1>1, <2>1, <2>2, <3>1
  <2>3. CASE main[c] \notin {"connect", "watch"}
    <3>1. Loaded' = Loaded
      BY <1>b, <2>1, <2>3 DEF Loaded
    <3> QED
      BY <2>1, <3>1
  <2> QED
    BY <2>2, <2>3
<1>8. ASSUME NEW c \in Consumer, Client(c) PROVE Same \/ Registry!Load(c)
  <2> USE DEF LookupSize, LookupGet, NamingLookup, RetryFirst, SayHello, Go
  <2>1. CASE ~Exit(c)
    <3>1. Stay
      BY <1>8, <2>1 DEF Client
    <3>2. main' \in {[main EXCEPT ![c] = w] : w \in {"lookup", "get", "naming", "first", "call"}}
      BY <1>8, <2>1 DEF Client
    <3>3. main[c] \notin {"connect", "watch"}
      BY <1>8 DEF Client
    <3>4. Loaded' = Loaded
      BY <1>b, <3>2, <3>3 DEF Loaded
    <3> QED
      BY <3>1, <3>4 DEF Stay
  <2> QED
    BY <1>7, <2>1
<1>9. ASSUME NEW x \in Process, Crash(x) PROVE Same \/ \E c \in Consumer : Registry!Load(c)
  BY <1>7, <1>9, <1>c DEF Crash
<1>10. ASSUME NEW c \in Consumer, NEW t \in Thread, WatchNode(c, t)
       PROVE  Same \/ Registry!Load(c) \/ Registry!Observe(c)
  <2>1. history' = history
    BY <1>10 DEF WatchNode, GetChildren, GetData, SetUrlList
  <2>2. seen' = seen \/ SetUrlList(c, t)
    BY <1>10 DEF WatchNode, GetChildren, GetData
  <2>3. main' = main \/ Return(c, t)
    BY <1>10 DEF WatchNode, GetChildren, Fetch, GetData, SetUrlList
  <2>4. CASE main' = main /\ seen' = seen
    BY <1>c, <2>1, <2>4
  <2>5. CASE Return(c, "main") /\ t = "main"
    <3>1. main[c] = "watch"
      <4>1. view[c, "main"].at # "idle"
        BY <1>10, <2>5 DEF WatchNode, GetChildren, GetData, SetUrlList
      <4> QED
        BY <4>1 DEF IInv, Loading, LoadingOf
    <3>2. main' = [main EXCEPT ![c] = "lookup"]
      BY <2>5 DEF Return
    <3>3. \E v \in 1 .. Len(history) : seen' = [seen EXCEPT ![c] = v]
      <4>1. CASE seen' = seen
        <5>1. seen' = [seen EXCEPT ![c] = seen[c]] /\ seen[c] \in 1 .. Len(history)
          BY <1>b, <4>1
        <5> QED
          BY <5>1
      <4>2. CASE SetUrlList(c, t)
        <5>1. seen' = [seen EXCEPT ![c] = Read(c, t)] /\ view[c, t].at = "data"
          BY <4>2 DEF SetUrlList, Read
        <5>2. Read(c, t) # 0
          BY <5>1 DEF IInv, Reads, HalfRead, Read
        <5>3. Read(c, t) \in 0 .. Len(history)
          BY <1>b, ViewType, Zenon
        <5>4. Read(c, t) \in 1 .. Len(history)
          BY <1>b, <5>2, <5>3
        <5> QED
          BY <5>1, <5>4
      <4> QED
        BY <2>2, <4>1, <4>2
    <3> QED
      BY <1>1, <2>1, <3>1, <3>2, <3>3
  <2>6. CASE t = "event"
    <3>1. main' = main
      BY <2>3, <2>6 DEF Return
    <3>2. ASSUME SetUrlList(c, t) PROVE Registry!Observe(c)
      <4>1. seen' = [seen EXCEPT ![c] = Read(c, "event")] /\ view[c, "event"].at = "data"
        BY <2>6, <3>2 DEF SetUrlList, Read
      <4>2. seen[c] <= Read(c, "event")
        BY <4>1 DEF IInv, Ahead, AheadOf
      <4>3. Read(c, "event") \in 0 .. Len(history)
        BY <1>b, <2>6, ViewType, Zenon
      <4>4. Read(c, "event") \in seen[c] .. Len(history)
        BY <1>b, <4>2, <4>3
      <4> QED
        BY <1>c, <2>1, <3>1, <4>1, <4>4 DEF Registry!Observe, Loaded
    <3> QED
      BY <1>c, <2>1, <2>2, <3>1, <3>2
  <2> QED
    BY <2>2, <2>3, <2>4, <2>5, <2>6 DEF SetUrlList, Thread
<1>11. CASE Same
  BY <1>11, <1>a
<1>12. CASE \E c \in Consumer : Registry!Load(c) \/ Registry!Observe(c)
  BY <1>12 DEF Registry!Next
<1>13. CASE \E p \in Provider : Registry!Join(p) \/ Registry!Leave(p)
  BY <1>13 DEF Registry!Next
<1>14. UNCHANGED vars => Same
  BY <1>c DEF vars, systemVars
<1> QED
  BY <1>2, <1>3, <1>4, <1>5, <1>6, <1>8, <1>9, <1>10, <1>11, <1>12, <1>13, <1>14 DEF Next, Step

\* ServiceConsumer: the registry and its consumers implement Directory: the moment a
\* list shows only moves forward, but for the one load of the constructor.
THEOREM RegistryImplements == Spec => ImplementsDirectory
<1>1. Init => Registry!Init
  BY DEF Init, Registry!Init
<1>2. IInv /\ [Next]_vars => [Registry!Next]_(Registry!vars)
  BY StepImplements
<1> QED
  BY <1>1, <1>2, IInvHolds, PTL DEF Spec, ImplementsDirectory, Registry!Spec
-----------------------------------------------------------------------------
\* A consumer that ZooKeeper tells of every change.
Informed(c) == Connected /\ Alive(c) /\ Open(c) /\ Read(c, "main") # 0

\* It has a watch, an event or a read to come; and a list it has read that is
\* the last one is the list it has, or the constructor has overwritten it.
FollowsOf(c) ==
    Informed(c) =>
        /\ c \in watch \/ c \in event \/ view[c, "event"].at = "children"
        /\ view[c, "event"].at = "idle" /\ Read(c, "event") = Len(history) =>
             seen[c] = Read(c, "event") \/ seen[c] = Read(c, "main")
        /\ view[c, "main"].at = "idle" /\ Read(c, "main") = Len(history) =>
             seen[c] = Read(c, "main")

Follows == \A c \in Consumer : FollowsOf(c)

LEMMA AliveConsumer == \A c \in Consumer : Alive(c) <=> main[c] # "dead"
BY RegistryAssumption DEF Alive

\* While nothing is lost no read of an informed consumer fails, but for a node
\* that has gone.
LEMMA FollowsStep ==
    ASSUME IInv, Follows, [Next]_vars, NEW c \in Consumer
    PROVE  FollowsOf(c)'
<1>1. StepOf(c) /\ LoadingOf(c) /\ AheadOf(c) /\ FollowsOf(c)
  BY StepIs DEF IInv, Loading, Ahead, Follows
<1>2. "main" \in Thread /\ "event" \in Thread
  BY DEF Thread
<1>3. /\ Read(c, "main") \in 0 .. Len(history) /\ Read(c, "event") \in 0 .. Len(history)
      /\ seen[c] \in 1 .. Len(history) /\ Len(history) \in Nat \ {0}
  <2>1. seen[c] \in 1 .. Len(history) /\ Len(history) \in Nat \ {0} /\ Types
    BY DEF IInv, Types, TypeOK
  <2>2. ASSUME NEW t \in Thread PROVE Read(c, t) \in 0 .. Len(history)
    BY <2>1, ViewType, Zenon
  <2> QED
    BY <1>2, <2>1, <2>2
<1>4. Connected' <=> Connected
  BY DEF Connected, Faults, Next, vars
<1>5. Alive(c)' <=> main'[c] # "dead"
  BY RegistryAssumption DEF Alive
<1>6. Alive(c) <=> main[c] # "dead"
  BY AliveConsumer
<1>7. ASSUME Informed(c)', session'[c] = session[c], main[c] # "dead", Read(c, "main") # 0 PROVE Informed(c)
  BY <1>4, <1>6, <1>7 DEF Informed, Open
<1>8. CASE Aside(c)
  <2>1. /\ view'[c, "main"] = view[c, "main"] /\ view'[c, "event"] = view[c, "event"]
        /\ seen'[c] = seen[c] /\ history' = history /\ session'[c] = session[c]
        /\ (c \in watch' <=> c \in watch) /\ (c \in event' <=> c \in event)
        /\ (main'[c] # "dead" <=> main[c] # "dead")
    BY <1>2, <1>8 DEF Aside, SameQueues
  <2>2. Informed(c)' => Informed(c)
    BY <1>5, <1>7, <2>1 DEF Informed, Read
  <2> QED
    BY <1>1, <2>1, <2>2 DEF FollowsOf, Read
<1>9. CASE Notified(c)
  <2>1. /\ view'[c, "main"] = view[c, "main"] /\ view'[c, "event"] = view[c, "event"]
        /\ session'[c] = session[c] /\ main'[c] = main[c]
        /\ (c \in event' <=> c \in event \/ c \in watch)
        /\ Len(history') = Len(history) + 1
    BY <1>2, <1>9 DEF Notified
  <2>2. Informed(c)' => Informed(c)
    BY <1>5, <1>7, <2>1 DEF Informed, Read
  <2>3. view'[c, "main"].version # Len(history') /\ view'[c, "event"].version # Len(history')
    <3>1. \A m \in Nat : \A n \in 0 .. m : n # m + 1
      OBVIOUS
    <3>2. Len(history) \in Nat
      BY <1>3
    <3> QED
      BY <1>3, <2>1, <3>1, <3>2, Zenon DEF Read
  <2> QED
    BY <1>1, <2>1, <2>2, <2>3 DEF FollowsOf, Read
<1>10. CASE CutOff(c)
  BY <1>10 DEF CutOff, FollowsOf, Informed, Open
<1>11. CASE Dies(c)
  BY <1>5, <1>11 DEF Dies, FollowsOf, Informed
<1>12. CASE Connects(c)
  <2>1. view'[c, "main"].version = 0
    BY <1>1, <1>12 DEF Connects, Moves, LoadingOf, Read
  <2> QED
    BY <2>1 DEF FollowsOf, Informed, Read
<1>13. CASE Begins(c)
  <2>1. /\ view'[c, "main"] = view[c, "main"]
        /\ view'[c, "event"].at = "children" /\ view'[c, "event"].version = Read(c, "event")
        /\ seen'[c] = seen[c] /\ history' = history /\ session'[c] = session[c] /\ main'[c] = main[c]
    BY <1>2, <1>13 DEF Begins, Moves, Thread
  <2>2. Informed(c)' => Informed(c)
    BY <1>5, <1>7, <2>1 DEF Informed, Read
  <2> QED
    BY <1>1, <2>1, <2>2 DEF FollowsOf, Read
<1>14. ASSUME NEW t \in Thread, Fetches(c, t) PROVE FollowsOf(c)'
  <2>1. /\ view[c, t].at = "children" /\ view'[c, t].at = "data"
        /\ view'[c, t].version = Len(history)
        /\ c \in watch' /\ seen'[c] = seen[c] /\ history' = history
        /\ session'[c] = session[c] /\ main'[c] = main[c]
    BY <1>14 DEF Fetches, Moves
  <2>2. CASE t = "main"
    <3>1. view'[c, "event"] = view[c, "event"]
      BY <1>2, <1>14, <2>2 DEF Fetches, Moves
    <3>2. view'[c, "event"].version = 0
      BY <1>1, <2>1, <2>2, <3>1 DEF LoadingOf, AheadOf, Read
    <3>3. view'[c, "event"].version # Len(history')
      BY <1>3, <2>1, <3>2
    <3>4. view'[c, "main"].at = "data"
      BY <2>1, <2>2
    <3> QED
      BY <2>1, <3>3, <3>4 DEF FollowsOf, Read
  <2>3. CASE t = "event"
    <3>1. view'[c, "main"] = view[c, "main"]
      BY <1>2, <1>14, <2>3 DEF Fetches, Moves
    <3>2. Informed(c)' => Informed(c)
      BY <1>5, <1>7, <2>1, <3>1 DEF Informed, Read
    <3>3. view'[c, "event"].at = "data"
      BY <2>1, <2>3
    <3> QED
      BY <1>1, <2>1, <3>1, <3>2, <3>3 DEF FollowsOf, Read
  <2> QED
    BY <2>2, <2>3 DEF Thread
<1>15. ASSUME NEW t \in Thread, GoesOn(c, t) PROVE FollowsOf(c)'
  <2>1. /\ view[c, t].at = "data" /\ view'[c, t].at = "data" /\ view'[c, t].version = Read(c, t)
        /\ \A u \in Thread \ {t} : view'[c, u] = view[c, u]
        /\ seen'[c] = seen[c] /\ history' = history /\ session'[c] = session[c] /\ main'[c] = main[c]
        /\ (c \in watch' <=> c \in watch) /\ (c \in event' <=> c \in event)
    BY <1>15 DEF GoesOn, Moves, SameQueues
  <2>2. \A u \in Thread : view'[c, u].at = view[c, u].at /\ view'[c, u].version = Read(c, u)
    BY <2>1 DEF Read
  <2>3. Informed(c)' => Informed(c)
    BY <1>2, <1>5, <1>7, <2>1, <2>2 DEF Informed, Read
  <2> QED
    BY <1>1, <1>2, <2>1, <2>2, <2>3 DEF FollowsOf, Read
<1>16. ASSUME NEW t \in Thread, Ends(c, t) PROVE FollowsOf(c)'
  <2> SUFFICES ASSUME Informed(c)' PROVE FollowsOf(c)'
    BY DEF FollowsOf
  <2>1. /\ view[c, t].at # "idle" /\ view'[c, t].at = "idle" /\ view'[c, t].version = Read(c, t)
        /\ \A u \in Thread \ {t} : view'[c, u] = view[c, u]
        /\ history' = history /\ session'[c] = session[c]
        /\ main'[c] = IF t = "main" THEN "lookup" ELSE main[c]
        /\ (c \in watch' <=> c \in watch) /\ (c \in event' <=> c \in event)
    BY <1>16 DEF Ends, Moves, SameQueues
  <2>2. \A u \in Thread : view'[c, u].version = Read(c, u)
    BY <2>1 DEF Read
  <2>3. Informed(c)
    <3>1. Read(c, "main") # 0
      BY <1>2, <2>2 DEF Informed, Read
    <3>2. main[c] # "dead"
      BY <1>1, <1>5, <2>1 DEF Informed, LoadingOf
    <3> QED
      BY <1>7, <2>1, <3>1, <3>2
  <2>4. ~MayThrow(c) /\ registry
    BY <1>1, <2>3 DEF Informed, Connected, MayThrow, AheadOf
  <2>5. /\ view[c, t].at = "data"
        /\ seen'[c] = Read(c, t) \/ (seen'[c] = seen[c] /\ Read(c, t) # Len(history))
    BY <1>16, <2>4 DEF Ends
  <2>6. CASE t = "main"
    <3>1. view'[c, "event"] = view[c, "event"]
      BY <1>2, <2>1, <2>6
    <3> QED
      BY <1>1, <2>1, <2>3, <2>5, <2>6, <3>1 DEF FollowsOf, Read
  <2>7. CASE t = "event"
    <3>1. view'[c, "main"] = view[c, "main"]
      BY <1>2, <2>1, <2>7
    <3>2. Read(c, "main") # Len(history)
      <4>1. Read(c, "main") < Read(c, "event")
        BY <1>1, <2>5, <2>7 DEF AheadOf
      <4>2. \A l \in Nat : \A m, n \in 0 .. l : m < n => m # l
        OBVIOUS
      <4>3. Len(history) \in Nat
        BY <1>3
      <4> QED
        BY <1>3, <4>1, <4>2, <4>3, Zenon
    <3>3. c \in watch' \/ c \in event'
      BY <1>1, <2>1, <2>3, <2>5, <2>7 DEF FollowsOf
    <3> QED
      BY <2>1, <2>5, <2>7, <3>1, <3>2, <3>3 DEF FollowsOf, Read
  <2> QED
    BY <2>6, <2>7 DEF Thread
<1> QED
  BY <1>1, <1>8, <1>9, <1>10, <1>11, <1>12, <1>13, <1>14, <1>15, <1>16 DEF StepOf, OwnStep

IInvFollows == IInv /\ Follows

\* watchNode: a connected consumer with nothing under way has the current list, or
\* the constructor has overwritten it: there is no other way to miss a change.
THEOREM RegistryStaleOnlyByRace == Spec => []StaleOnlyByRace
<1>1. Init => Follows
  <2>1. Idle.version = 0
    BY DEF Idle
  <2>2. Init => \A c \in Consumer : view[c, "main"] = Idle
    BY DEF Init, Thread
  <2> QED
    BY <2>1, <2>2 DEF Follows, FollowsOf, Informed, Read
<1>2. IInvFollows /\ [Next]_vars => Follows'
  BY FollowsStep DEF IInvFollows, Follows
<1>3. IInvFollows => StaleOnlyByRace
  <2> SUFFICES ASSUME IInvFollows, Connected, NEW c \in Consumer, Watching(c), Quiet(c)
               PROVE  seen[c] = Len(history) \/ Raced(c)
    BY DEF StaleOnlyByRace
  <2>1. LoadingOf(c) /\ AheadOf(c) /\ FollowsOf(c) /\ Types
    BY DEF IInvFollows, IInv, Loading, Ahead, Follows
  <2>2. Informed(c) /\ view[c, "main"].at = "idle" /\ c \in watch
    BY <2>1 DEF Watching, Quiet, Informed, LoadingOf, FollowsOf, Read
  <2>3. CASE Read(c, "main") = Len(history)
    BY <2>1, <2>2, <2>3 DEF FollowsOf
  <2>4. CASE Read(c, "main") # Len(history)
    <3>1. Read(c, "event") = Len(history) /\ view[c, "event"].at = "idle"
      BY <2>1, <2>2, <2>4 DEF AheadOf, Quiet
    <3>2. seen[c] = Read(c, "event") \/ seen[c] = Read(c, "main")
      BY <2>1, <2>2, <3>1 DEF FollowsOf
    <3>3. Read(c, "event") # 0
      BY <2>1, <3>1 DEF Types
    <3>4. Read(c, "main") < Read(c, "event")
      BY <2>1, <3>3 DEF AheadOf
    <3> QED
      BY <3>1, <3>2, <3>4 DEF Raced, Read
  <2> QED
    BY <2>3, <2>4
<1> QED
  BY <1>1, <1>2, <1>3, IInvHolds, PTL DEF Spec, IInvFollows
=============================================================================
