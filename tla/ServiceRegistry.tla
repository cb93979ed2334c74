-------------------------- MODULE ServiceRegistry --------------------------
(***************************************************************************)
(* com.hewentian.zookeeper.rmi.ha: processes that run Server publish an    *)
(* RMI service and register its address as an ephemeral node under         *)
(* /registry; processes that run Client keep a list of the addresses, with *)
(* a watch on /registry, and call one of them at a time.                   *)
(*                                                                         *)
(* A call to ZooKeeper is one step, and so is every read of the volatile   *)
(* field urlList.  watchNode runs on two threads of a consumer: once in    *)
(* the constructor, and on the ZooKeeper event thread for each event.      *)
(* A process is started once; a server started again is another process    *)
(* with the same address.                                                  *)
(***************************************************************************)
EXTENDS Naturals, Sequences, FiniteSets

CONSTANTS
    Provider,   \* the processes that run Server
    Consumer,   \* the processes that run Client
    Address,    \* rmi://host:port/class
    UrlOf,      \* the address a Provider is started with
    Scenarios   \* whether /registry exists from the start, and what may go wrong

ASSUME RegistryAssumption ==
    /\ IsFiniteSet(Provider)
    /\ Provider \cap Consumer = {}
    /\ UrlOf \in [Provider -> Address]
    /\ Scenarios \subseteq [present : BOOLEAN, faults : SUBSET {"crash", "expire", "loss"}]

VARIABLES
    scenario,   \* the one of this behaviour
    registry,   \* the node /registry exists
    history,    \* the owners of its children, after each change
    session,    \* state of each process's ZooKeeper session
    server,     \* where publish of each provider is
    exported,   \* the providers whose port answers
    main,       \* where the main thread of each consumer is
    view,       \* the local variables of watchNode, per consumer and thread
    watch,      \* the consumers with a watch on the children of /registry
    event,      \* the consumers with a NodeChildrenChanged not yet processed
    urlList,
    seen,       \* the moment urlList shows, as an index of history
    size,       \* the local variable of lookup
    url,        \* the address lookupService is called with
    stub        \* the provider behind the stub it returned

zkVars == <<registry, history, session>>
clientVars == <<size, url, stub>>
consumerVars == <<main, view, watch, event, urlList, seen, clientVars>>
systemVars == <<zkVars, server, exported, consumerVars>>
vars == <<scenario, systemVars>>

Faults == scenario.faults

Thread == {"main", "event"}
Process == Provider \cup Consumer

Nodes == history[Len(history)]
Addresses(S) == {UrlOf[p] : p \in S}
Listed(c) == {urlList[c][i] : i \in DOMAIN urlList[c]}

\* The orders in which getChildren may return a set of nodes.
Orders(S) ==
    {s \in [1 .. Cardinality(S) -> S] : \A i, j \in DOMAIN s : s[i] = s[j] => i = j}

Alive(x) == IF x \in Provider THEN server[x] # "dead" ELSE main[x] # "dead"
Open(x) == session[x] = "open"
Answers(u) == \E p \in exported : UrlOf[p] = u
Bound(p) == p \in exported /\ server[p] # "rebind"

\* A call throws when the session has expired or the connection is lost.
MayThrow(x) == ~Open(x) \/ "loss" \in Faults

\* version is the moment of the children read last, 0 before any.
Idle == [at |-> "idle", todo |-> <<>>, urlListTmp |-> <<>>, version |-> 0]

Init ==
    /\ scenario \in Scenarios
    /\ registry = scenario.present
    /\ history = <<{}>>
    /\ session = [x \in Process |-> "none"]
    /\ server = [p \in Provider |-> "publish"]
    /\ exported = {}
    /\ main = [c \in Consumer |-> "connect"]
    /\ view = [x \in Consumer \X Thread |-> Idle]
    /\ watch = {}
    /\ event = {}
    /\ urlList = [c \in Consumer |-> <<>>]
    /\ seen = [c \in Consumer |-> 1]
    /\ size = [c \in Consumer |-> 0]
    /\ url \in [Consumer -> Address]
    /\ stub \in [Consumer -> Provider]

\* The children of /registry change: the watches fire.
Change(S) ==
    /\ history' = Append(history, S)
    /\ event' = event \cup watch
    /\ watch' = {}
-----------------------------------------------------------------------------
\* ServiceProvider.publish, run by the main thread of a server.

\* publishService returns the address also when createRegistry failed because
\* the port is taken.
CreateRegistry(p) ==
    /\ server[p] = "publish"
    /\ IF Answers(UrlOf[p])
         THEN server' = [server EXCEPT ![p] = "connect"] /\ UNCHANGED exported
         ELSE server' = [server EXCEPT ![p] = "rebind"] /\ exported' = exported \cup {p}
    /\ UNCHANGED <<zkVars, consumerVars>>

Rebind(p) ==
    /\ server[p] = "rebind"
    /\ server' = [server EXCEPT ![p] = "connect"]
    /\ UNCHANGED <<zkVars, exported, consumerVars>>

ConnectServer(p) ==
    /\ server[p] = "connect"
    /\ server' = [server EXCEPT ![p] = "exists"]
    /\ session' = [session EXCEPT ![p] = "open"]
    /\ UNCHANGED <<registry, history, exported, consumerVars>>

ExistsParent(p) ==
    /\ server[p] = "exists"
    /\ \/ /\ Open(p)
          /\ server' = [server EXCEPT ![p] = IF registry THEN "node" ELSE "parent"]
       \/ /\ MayThrow(p)
          /\ server' = [server EXCEPT ![p] = "node"]
    /\ UNCHANGED <<zkVars, exported, consumerVars>>

\* Mutant: publish gives up when another server has created /registry.
CreateParent_GiveUp(p) ==
    /\ server[p] = "parent"
    /\ server' = [server EXCEPT ![p] = IF registry THEN "up" ELSE "node"]
    /\ registry' = TRUE
    /\ UNCHANGED <<history, session, exported, consumerVars>>

\* NodeExists is caught like any other KeeperException.
CreateParent(p) ==
    /\ server[p] = "parent"
    /\ server' = [server EXCEPT ![p] = "node"]
    /\ \/ Open(p) /\ registry' = TRUE
       \/ MayThrow(p) /\ UNCHANGED registry
    /\ UNCHANGED <<history, session, exported, consumerVars>>

CreateNode(p) ==
    /\ server[p] = "node"
    /\ server' = [server EXCEPT ![p] = "up"]
    /\ \/ Open(p) /\ registry /\ Change(Nodes \cup {p})
       \/ (MayThrow(p) \/ ~registry) /\ UNCHANGED <<history, event, watch>>
    /\ UNCHANGED <<registry, session, exported, main, view, urlList, seen, clientVars>>
-----------------------------------------------------------------------------
\* ServiceConsumer.watchNode, on either thread.

\* watchNode ends; in the constructor the thread goes on to Client.main.
Return(c, t) ==
    /\ view' = [view EXCEPT ![<<c, t>>] = [Idle EXCEPT !.version = view[c, t].version]]
    /\ main' = IF t = "main" THEN [main EXCEPT ![c] = "lookup"] ELSE main

ConnectConsumer(c) ==
    /\ main[c] = "connect"
    /\ main' = [main EXCEPT ![c] = "watch"]
    /\ session' = [session EXCEPT ![c] = "open"]
    /\ view' = [view EXCEPT ![<<c, "main">>].at = "children"]
    /\ UNCHANGED <<registry, history, server, exported, watch, event, urlList, seen, clientVars>>

ProcessEvent(c) ==
    /\ Alive(c)
    /\ c \in event
    /\ view[c, "event"].at = "idle"
    /\ event' = event \ {c}
    /\ view' = [view EXCEPT ![<<c, "event">>].at = "children"]
    /\ UNCHANGED <<zkVars, server, exported, main, watch, urlList, seen, clientVars>>

\* The children are read and the watch is set at one moment.
Fetch(c, t) ==
    /\ Open(c) /\ registry
    /\ \E order \in Orders(Nodes) :
           view' = [view EXCEPT ![<<c, t>>] =
               [at |-> "data", todo |-> order, urlListTmp |-> <<>>, version |-> Len(history)]]
    /\ UNCHANGED main

\* Mutant: only the constructor sets a watch.
GetChildren_WatchOnce(c, t) ==
    /\ view[c, t].at = "children"
    /\ \/ Fetch(c, t) /\ watch' = IF t = "main" THEN watch \cup {c} ELSE watch
       \/ (MayThrow(c) \/ ~registry) /\ Return(c, t) /\ UNCHANGED watch
    /\ UNCHANGED <<zkVars, server, exported, event, urlList, seen, clientVars>>

GetChildren(c, t) ==
    /\ view[c, t].at = "children"
    /\ \/ Fetch(c, t) /\ watch' = watch \cup {c}
       \/ (MayThrow(c) \/ ~registry) /\ Return(c, t) /\ UNCHANGED watch
    /\ UNCHANGED <<zkVars, server, exported, event, urlList, seen, clientVars>>

\* Mutant: a node that has gone is left out and the loop goes on.
GetData_Skip(c, t) ==
    LET v == view[c, t] p == Head(v.todo) IN
    /\ v.at = "data" /\ v.todo # <<>>
    /\ view' = [view EXCEPT ![<<c, t>>] =
           [v EXCEPT !.todo = Tail(@), !.urlListTmp = IF p \in Nodes THEN Append(@, UrlOf[p]) ELSE @]]
    /\ UNCHANGED <<zkVars, server, exported, main, watch, event, urlList, seen, clientVars>>

\* A node that has gone ends watchNode, and urlList stays as it is.
GetData(c, t) ==
    LET v == view[c, t] p == Head(v.todo) IN
    /\ v.at = "data" /\ v.todo # <<>>
    /\ \/ /\ Open(c) /\ p \in Nodes
          /\ view' = [view EXCEPT ![<<c, t>>] =
                 [v EXCEPT !.todo = Tail(@), !.urlListTmp = Append(@, UrlOf[p])]]
          /\ UNCHANGED main
       \/ (MayThrow(c) \/ p \notin Nodes) /\ Return(c, t)
    /\ UNCHANGED <<zkVars, server, exported, watch, event, urlList, seen, clientVars>>

SetUrlList(c, t) ==
    /\ view[c, t].at = "data" /\ view[c, t].todo = <<>>
    /\ urlList' = [urlList EXCEPT ![c] = view[c, t].urlListTmp]
    /\ seen' = [seen EXCEPT ![c] = view[c, t].version]
    /\ Return(c, t)
    /\ UNCHANGED <<zkVars, server, exported, watch, event, clientVars>>
-----------------------------------------------------------------------------
\* Client.main and ServiceConsumer.lookup.

Go(c, where) == main' = [main EXCEPT ![c] = where]

\* The process of a consumer ends; the server keeps its session for a while,
\* but its events reach nobody.
Exit(c) ==
    /\ main' = [main EXCEPT ![c] = "dead"]
    /\ watch' = watch \ {c}
    /\ event' = event \ {c}
    /\ view' = [x \in Consumer \X Thread |-> IF x[1] = c THEN Idle ELSE view[x]]
    /\ UNCHANGED <<zkVars, server, exported, urlList, seen, clientVars>>

Stay == UNCHANGED <<zkVars, server, exported, view, watch, event, urlList, seen>>

\* Mutant: on an empty list the main thread calls watchNode again.
LookupSize_Reload(c) ==
    /\ main[c] = "lookup"
    /\ \/ /\ urlList[c] # <<>>
          /\ Go(c, "get")
          /\ size' = [size EXCEPT ![c] = Len(urlList[c])]
          /\ Stay /\ UNCHANGED <<url, stub>>
       \/ /\ urlList[c] = <<>>
          /\ Go(c, "watch")
          /\ view' = [view EXCEPT ![<<c, "main">>].at = "children"]
          /\ UNCHANGED <<zkVars, server, exported, watch, event, urlList, seen, clientVars>>

\* urlList.size(); on an empty list lookup returns null and main throws.
LookupSize(c) ==
    /\ main[c] = "lookup"
    /\ \/ /\ urlList[c] # <<>>
          /\ Go(c, "get")
          /\ size' = [size EXCEPT ![c] = Len(urlList[c])]
          /\ Stay /\ UNCHANGED <<url, stub>>
       \/ urlList[c] = <<>> /\ Exit(c)

\* urlList.get at an index below the size read before.
LookupGet(c) ==
    /\ main[c] = "get"
    /\ \E i \in 1 .. size[c] :
        \/ /\ i <= Len(urlList[c])
           /\ Go(c, "naming")
           /\ url' = [url EXCEPT ![c] = urlList[c][i]]
           /\ Stay /\ UNCHANGED <<size, stub>>
        \/ i > Len(urlList[c]) /\ Exit(c)

\* A port that refuses is a ConnectException; any other failure, such as a
\* service that is not bound yet, makes lookup return null.
NamingLookup(c) ==
    /\ main[c] = "naming"
    /\ \/ \E p \in Provider :
            /\ UrlOf[p] = url[c] /\ Bound(p)
            /\ Go(c, "call")
            /\ stub' = [stub EXCEPT ![c] = p]
            /\ Stay /\ UNCHANGED <<size, url>>
       \/ /\ ~Answers(url[c])
          /\ urlList[c] # <<>>
          /\ Go(c, "first")
          /\ Stay /\ UNCHANGED clientVars
       \/ /\ ~\E p \in Provider : UrlOf[p] = url[c] /\ Bound(p)
          /\ ~Answers(url[c]) => urlList[c] = <<>>
          /\ Exit(c)

\* Mutant: the address that has failed is tried again.
RetryFirst_Same(c) ==
    /\ main[c] = "first"
    /\ Go(c, "naming")
    /\ Stay /\ UNCHANGED clientVars

\* urlList.get(0), and lookupService again.
RetryFirst(c) ==
    /\ main[c] = "first"
    /\ \/ /\ urlList[c] # <<>>
          /\ Go(c, "naming")
          /\ url' = [url EXCEPT ![c] = urlList[c][1]]
          /\ Stay /\ UNCHANGED <<size, stub>>
       \/ urlList[c] = <<>> /\ Exit(c)

\* A RemoteException of sayHello ends main.
SayHello(c) ==
    /\ main[c] = "call"
    /\ \/ stub[c] \in exported /\ Go(c, "lookup") /\ Stay /\ UNCHANGED clientVars
       \/ stub[c] \notin exported /\ Exit(c)
-----------------------------------------------------------------------------
Crash(x) ==
    /\ "crash" \in Faults
    /\ Alive(x)
    /\ \/ /\ x \in Provider
          /\ server' = [server EXCEPT ![x] = "dead"]
          /\ exported' = exported \ {x}
          /\ UNCHANGED <<zkVars, consumerVars>>
       \/ x \in Consumer /\ Exit(x)

\* The server ends the session of a process that is dead or cut off.
Expire(x) ==
    /\ Open(x)
    /\ ~Alive(x) \/ "expire" \in Faults
    /\ session' = [session EXCEPT ![x] = "expired"]
    /\ \/ x \in Nodes /\ Change(Nodes \ {x})
       \/ x \notin Nodes /\ watch' = watch \ {x} /\ UNCHANGED <<history, event>>
    /\ UNCHANGED <<registry, server, exported, main, view, urlList, seen, clientVars>>

Publish(p) ==
    \/ CreateRegistry(p) \/ Rebind(p) \/ ConnectServer(p) \/ ExistsParent(p)
    \/ CreateParent(p) \/ CreateNode(p)

WatchNode(c, t) == GetChildren(c, t) \/ GetData(c, t) \/ SetUrlList(c, t)

Client(c) ==
    \/ LookupSize(c) \/ LookupGet(c) \/ NamingLookup(c)
    \/ RetryFirst(c) \/ SayHello(c)

Step ==
    \/ \E p \in Provider : Publish(p)
    \/ \E c \in Consumer :
        \/ ConnectConsumer(c) \/ ProcessEvent(c) \/ Client(c)
        \/ \E t \in Thread : WatchNode(c, t)
    \/ \E x \in Process : Crash(x) \/ Expire(x)

Next == Step /\ UNCHANGED scenario

Spec == Init /\ [][Next]_vars

\* A thread that can go on does, and the session of a dead process expires.
Fairness ==
    /\ \A p \in Provider : WF_systemVars(server[p] # "publish" /\ Publish(p))
    /\ \A c \in Consumer :
        /\ WF_systemVars(Client(c))
        /\ WF_systemVars(ProcessEvent(c))
        /\ \A t \in Thread : WF_systemVars(WatchNode(c, t))
    /\ \A x \in Process : WF_systemVars(~Alive(x) /\ Expire(x))

FairSpec == Spec /\ Fairness
-----------------------------------------------------------------------------
\* The variables have the types their comments say; a list is never longer
\* than the number of servers.
TypeOK ==
    /\ scenario \in Scenarios
    /\ registry \in BOOLEAN
    /\ \A i \in DOMAIN history : history[i] \subseteq Provider
    /\ session \in [Process -> {"none", "open", "expired"}]
    /\ server \in [Provider -> {"publish", "rebind", "connect", "exists", "parent", "node", "up", "dead"}]
    /\ exported \subseteq Provider
    /\ main \in [Consumer ->
          {"connect", "watch", "lookup", "get", "naming", "first", "call", "dead"}]
    /\ \A x \in Consumer \X Thread :
        /\ view[x].at \in {"idle", "children", "data"}
        /\ view[x].version \in 0 .. Len(history)
    /\ watch \subseteq Consumer
    /\ event \subseteq Consumer
    /\ seen \in [Consumer -> 1 .. Len(history)]
    /\ size \in [Consumer -> 0 .. Cardinality(Provider)]
    /\ url \in [Consumer -> Address]
    /\ stub \in [Consumer -> Provider]

\* watchNode: the nodes are read one by one while servers come and go, yet the
\* list is always the set of addresses of one moment.
ListIsSnapshot ==
    \A c \in Consumer :
        /\ Listed(c) = Addresses(history[seen[c]])
        /\ Len(urlList[c]) = Cardinality(history[seen[c]])

\* watchNode never leaves anything but the list of one moment, of known servers.
ListInv == TypeOK /\ ListIsSnapshot

\* The consumer is connected, and its constructor found /registry: one that
\* starts before there is a /registry never sets a watch.
Watching(c) ==
    /\ Alive(c) /\ Open(c)
    /\ main[c] \notin {"connect", "watch"}
    /\ view[c, "main"].version # 0

Quiet(c) == c \notin event /\ view[c, "event"].at = "idle"

\* The constructor assigned urlList after the event thread had assigned a
\* newer list.
Raced(c) == seen[c] = view[c, "main"].version /\ view[c, "event"].version > seen[c]

\* No call to ZooKeeper is lost.
Connected == "loss" \notin Faults

\* watchNode: when nothing is under way, the list of a connected consumer is
\* out of date only if the constructor overwrote the list of an event.
StaleOnlyByRace ==
    Connected => \A c \in Consumer : Watching(c) /\ Quiet(c) => seen[c] = Len(history) \/ Raced(c)

\* "watch whether the children of /registry change": when nothing is under way
\* the list of a connected consumer shows the children there are.
ListCurrent ==
    \A c \in Consumer : Watching(c) /\ Quiet(c) => Listed(c) = Addresses(Nodes)

\* lookupService: the recursion goes on without end only while the first address
\* of the list does not answer; once it does, or the list is empty, lookup ends.
LookupEnds ==
    \A c \in Consumer :
        []<>~(/\ main[c] \in {"naming", "first"}
              /\ urlList[c] # <<>> => Answers(urlList[c][1]))

\* checkParentPath: servers that start together on an empty ZooKeeper are all
\* registered in the end, whoever creates /registry, unless they die or are cut off.
EveryServerRegisters ==
    <>[](Connected => \A p \in Provider :
            server[p] = "publish" \/ p \in Nodes \/ server[p] = "dead" \/ session[p] = "expired")

\* Servers that have died are out of the list of a connected consumer in the
\* end, unless the constructor overwrote the list.
DeadServerDropped ==
    <>[](Connected => \A c \in Consumer, p \in Provider :
            server[p] = "dead" => ~Watching(c) \/ Raced(c) \/ p \notin history[seen[c]])

\* Who is up is registered, and who is dead is in no list, in the end.
MembersSettle == EveryServerRegisters /\ DeadServerDropped

Registry == INSTANCE Directory WITH
    Member <- Provider,
    Reader <- Consumer,
    loaded <- {c \in Consumer : main[c] \notin {"connect", "watch"}}

\* The registry and its consumers implement Directory.
ImplementsDirectory == Registry!Spec
=============================================================================
