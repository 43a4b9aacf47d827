--------------------------------- MODULE Sockets ---------------------------------
(***************************************************************************)
(* WebSocketManager for one browser, which keeps its client id when it     *)
(* connects again, to the same replica of the API or to another.  Each     *)
(* replica has its maps clients and clientAuth; the metadata that routes   *)
(* to the browser and the sets of subscribers are in Redis.                *)
(*                                                                         *)
(* A pipeline of Redis takes effect when it is sent; what is read before   *)
(* an await is kept in the record of the call.                             *)
(***************************************************************************)
EXTENDS Naturals, FiniteSets

CONSTANTS
  Replicas,         \* processes of the API
  Engine,           \* the process that draws, without connections
  Publishers,       \* the processes that publish
  Users,            \* who a connection may be authenticated as
  Public, Direct,   \* topics for everybody, and topics of one user
  None,
  MaxSockets,       \* connections of the browser (bound)
  FaultKinds, MaxFaults

ASSUME SocketsAssumption ==
  /\ Engine \in Publishers \ Replicas
  /\ Publishers \subseteq Replicas \cup {Engine}
  /\ None \notin Users \cup Replicas \cup Nat
  /\ MaxSockets \in Nat /\ MaxFaults \in Nat

VARIABLES
  clients,      \* the socket each replica has under the id
  clientAuth,   \* the user each replica has under the id
  shutting,     \* replicas that are shutting down
  meta,         \* websocket:client-metadata: the replica the id is routed to
  subscribers,  \* the topics whose websocket:topic set has the id
  clientTopics, \* websocket:client-topics of the id
  lines,        \* sockets that are open on their replica
  current,      \* the socket the browser uses
  opened,       \* sockets so far
  removing,     \* calls of removeClient after their read of Redis
  touching,     \* replicas with a call of touchClient that found no metadata
  pubs,         \* the publish call of each publisher
  faults

redisVars == <<meta, subscribers, clientTopics>>
localVars == <<clients, clientAuth, shutting>>
callVars == <<removing, touching, pubs>>
browserVars == <<lines, current, opened>>
socketVars == <<localVars, redisVars, callVars, browserVars, faults>>

NoPub == [pc |-> "idle", topic |-> None, stale |-> FALSE]

SocketsInit ==
  /\ clients = [i \in Replicas |-> None]
  /\ clientAuth = [i \in Replicas |-> None]
  /\ shutting = {}
  /\ meta = None
  /\ subscribers = {}
  /\ clientTopics = {}
  /\ lines = {}
  /\ current = None
  /\ opened = 0
  /\ removing = {}
  /\ touching = {}
  /\ pubs = [p \in Publishers |-> NoPub]
  /\ faults = 0

Fault(kind) ==
  /\ kind \in FaultKinds
  /\ faults < MaxFaults
  /\ faults' = faults + 1

--------------------------------------------------------------------------------
(* The browser                                                              *)

\* onOpen: addClient.  A browser that connects again may leave a line behind whose
\* replica has not noticed yet.
Connect(i, u) ==
  /\ i \notin shutting
  /\ opened < MaxSockets
  /\ opened' = opened + 1
  /\ current' = opened'
  /\ lines' = lines \cup {[sock |-> opened', at |-> i]}
  /\ clients' = [clients EXCEPT ![i] = opened']
  /\ clientAuth' = [clientAuth EXCEPT ![i] = IF u = None THEN @ ELSE u]
  /\ meta' = i
  /\ UNCHANGED <<shutting, subscribers, clientTopics, callVars, faults>>

\* The browser goes away; nobody has told its replica.
Leave ==
  /\ current # None
  /\ current' = None
  /\ UNCHANGED <<localVars, redisVars, callVars, lines, opened, faults>>

\* handleIncomingMessage, for a message of a line: a topic of one user is made from
\* the user the replica has for the id, and needs one.
PublicTopics == Public \X {None}
FinalTopics(i) == PublicTopics \cup Direct \X ({clientAuth[i]} \ {None})

Subscribe(line, topic) ==
  /\ line \in lines
  /\ topic \in FinalTopics(line.at)
  /\ clientTopics' = clientTopics \cup {topic}
  /\ subscribers' = subscribers \cup {topic}
  /\ UNCHANGED <<localVars, meta, callVars, browserVars, faults>>

Unsubscribe(line, topic) ==
  /\ line \in lines
  /\ topic \in FinalTopics(line.at)
  /\ clientTopics' = clientTopics \ {topic}
  /\ subscribers' = subscribers \ {topic}
  /\ UNCHANGED <<localVars, meta, callVars, browserVars, faults>>

--------------------------------------------------------------------------------
(* removeClient                                                             *)

\* "The replacement may have connected while the Redis read above was in flight."
StillExpectedUnchecked(c) == TRUE
StillExpected(c) == c.expected = None \/ clients[c.at] = c.expected

Removal(i, expected) == [at |-> i, expected |-> expected, topics |-> clientTopics]

\* onClose, or onError, of a line the browser has left: the first look at clients
\* and the read of the topics.
Close(line) ==
  /\ line \in lines
  /\ line.sock # current
  /\ lines' = lines \ {line}
  /\ IF line.at \notin shutting /\ clients[line.at] = line.sock
     THEN removing' = removing \cup {Removal(line.at, line.sock)}
     ELSE UNCHANGED removing
  /\ UNCHANGED <<localVars, redisVars, touching, pubs, current, opened, faults>>

\* The second look, and the rest.
Remove(c) ==
  /\ c \in removing
  /\ removing' = removing \ {c}
  /\ IF StillExpected(c)
     THEN /\ subscribers' = subscribers \ c.topics
          /\ clientTopics' = IF c.topics # {} THEN {} ELSE clientTopics
          /\ clients' = [clients EXCEPT ![c.at] = None]
          /\ clientAuth' = [clientAuth EXCEPT ![c.at] = None]
          /\ meta' = None
     ELSE UNCHANGED <<subscribers, clientTopics, clients, clientAuth, meta>>
  /\ UNCHANGED <<shutting, touching, pubs, browserVars, faults>>

--------------------------------------------------------------------------------
(* touchClient, for a ping                                                  *)

Ping(line) ==
  /\ line \in lines
  /\ clients[line.at] # None
  /\ meta = None
  /\ touching' = touching \cup {line.at}
  /\ UNCHANGED <<localVars, redisVars, removing, pubs, browserVars, faults>>

RefreshedOnly(i) == meta
Recreated(i) == IF clients[i] # None THEN i ELSE meta

TouchSet(i) ==
  /\ i \in touching
  /\ touching' = touching \ {i}
  /\ meta' = Recreated(i)
  /\ UNCHANGED <<localVars, subscribers, clientTopics, removing, pubs, browserVars, faults>>

\* CLIENT_TTL_SECONDS: a line that does not ping, or is gone.
MetaExpires ==
  /\ meta # None
  /\ meta' = None
  /\ UNCHANGED <<localVars, subscribers, clientTopics, callVars, browserVars, faults>>

--------------------------------------------------------------------------------
(* publish                                                                  *)

\* The results of a game by the engine, a balance by the API.
Publish(p, topic) ==
  /\ pubs[p].pc = "idle"
  /\ p \notin shutting
  /\ topic \in PublicTopics <=> p = Engine
  /\ topic \in subscribers
  /\ pubs' = [pubs EXCEPT ![p] = [pc |-> "send", topic |-> topic, stale |-> FALSE]]
  /\ UNCHANGED <<localVars, redisVars, removing, touching, browserVars, faults>>

\* sendToClient: to the socket of this process if it is open, or to the replica of the
\* metadata; FALSE when there is neither.  A send that throws removes the client,
\* whichever socket it is by then.
OpenAt(i) == i \in Replicas /\ [sock |-> clients[i], at |-> i] \in lines
Target(p) == IF OpenAt(p) THEN p ELSE meta
FoundAlways(p) == TRUE
Found(p) == Target(p) # None

Send(p) ==
  /\ pubs[p].pc = "send"
  /\ pubs' = [pubs EXCEPT ![p] = IF Found(p) THEN NoPub ELSE [@ EXCEPT !.pc = "prune"]]
  /\ \/ UNCHANGED <<removing, faults>>
     \/ /\ Found(p)
        /\ Target(p) \in Replicas /\ clients[Target(p)] # None
        /\ Fault("send")
        /\ removing' = removing \cup {Removal(Target(p), None)}
  /\ UNCHANGED <<localVars, redisVars, touching, browserVars>>

\* The ids that were not found.
Prune(p) ==
  /\ pubs[p].pc = "prune"
  /\ subscribers' = subscribers \ {pubs[p].topic}
  /\ pubs' = [pubs EXCEPT ![p] = NoPub]
  /\ UNCHANGED <<localVars, meta, clientTopics, removing, touching, browserVars, faults>>

--------------------------------------------------------------------------------
(* The end of a process                                                     *)

\* shutdown: the client is removed, whichever socket it is, before it is told to
\* connect again.
Shutdown(i) ==
  /\ i \notin shutting
  /\ Fault("shutdown")
  /\ shutting' = shutting \cup {i}
  /\ removing' = IF clients[i] = None THEN removing ELSE removing \cup {Removal(i, None)}
  /\ UNCHANGED <<clients, clientAuth, redisVars, touching, pubs, browserVars>>

\* What a process that ends takes with it; the next one starts with nothing.
EndOf(i) ==
  /\ clients' = [clients EXCEPT ![i] = None]
  /\ clientAuth' = [clientAuth EXCEPT ![i] = None]
  /\ lines' = {l \in lines : l.at # i}
  /\ current' = IF \E l \in lines : l.sock = current /\ l.at = i THEN None ELSE current
  /\ removing' = {c \in removing : c.at # i}
  /\ touching' = touching \ {i}
  /\ pubs' = [pubs EXCEPT ![i] = NoPub]
  /\ UNCHANGED <<redisVars, opened>>

ShutdownEnds(i) ==
  /\ i \in shutting
  /\ {c \in removing : c.at = i /\ c.expected = None} = {}
  /\ shutting' = shutting \ {i}
  /\ EndOf(i)
  /\ UNCHANGED faults

Crash(i) ==
  /\ Fault("crash")
  /\ shutting' = shutting \ {i}
  /\ EndOf(i)

--------------------------------------------------------------------------------

SocketsNext ==
  \/ \E i \in Replicas, u \in Users \cup {None} : Connect(i, u)
  \/ Leave
  \/ \E line \in lines :
       \/ \E topic \in FinalTopics(line.at) : Subscribe(line, topic) \/ Unsubscribe(line, topic)
       \/ Close(line) \/ Ping(line)
  \/ \E c \in removing : Remove(c)
  \/ \E i \in touching : TouchSet(i)
  \/ MetaExpires
  \/ \E p \in Publishers : (\E topic \in subscribers : Publish(p, topic)) \/ Send(p) \/ Prune(p)
  \/ \E i \in Replicas : Shutdown(i) \/ ShutdownEnds(i) \/ Crash(i)

SocketsSpec == SocketsInit /\ [][SocketsNext]_socketVars

\* A line the browser has left is closed some day, calls return, a process that
\* shuts down ends, metadata nobody refreshes expires, every public topic is
\* published to by the engine over and over, and a browser pings.
SocketsFairness ==
  /\ WF_socketVars(\E l \in lines : Close(l))
  /\ WF_socketVars(\E l \in lines : l.sock = current /\ Ping(l))
  /\ WF_socketVars(\E c \in removing : Remove(c))
  /\ WF_socketVars(\E i \in touching : TouchSet(i))
  /\ WF_socketVars(lines = {} /\ MetaExpires)
  /\ \A topic \in PublicTopics : WF_socketVars(Publish(Engine, topic))
  /\ \A p \in Publishers : WF_socketVars(Send(p) \/ Prune(p))
  /\ \A i \in Replicas : WF_socketVars(ShutdownEnds(i))

--------------------------------------------------------------------------------

\* "A delayed close callback from the old socket must not remove the replacement
\* connection" (removeClient): whatever callbacks, reads and reconnections overlap,
\* the replica of the socket a browser uses knows it by that socket.  A send that
\* throws and a shutdown remove the id without looking.
ReplacementKept ==
  \A l \in lines :
    (l.sock = current /\ faults = 0) => clients[l.at] = current

\* A browser that has left for good is a subscriber of no public topic in the end:
\* what crashes, closed lines and late messages leave in the set of a topic,
\* "broadcasts discover" and prune (publish).
LeftoversPruned ==
  <>[](current = None) => <>[](subscribers \cap PublicTopics = {})

\* A browser that stays and pings is never without a route for good, whatever
\* another replica, a publisher or the expiry has deleted: "Keep cross-replica
\* routing alive for long-running browser sessions" (touchClient).
RoutedAgain ==
  (<>[](current # None /\ \A l \in lines : l.sock = current => clients[l.at] = current))
    => []<>(meta # None)

================================================================================
