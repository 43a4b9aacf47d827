------------------------------- MODULE SocketsProofs -------------------------------
(***************************************************************************)
(* removeClient never takes the connection the browser has just made, for  *)
(* any number of replicas, users, topics, sockets and faults.              *)
(*                                                                         *)
(* ReplacementKept is not inductive: a call of removeClient that is under  *)
(* way is what could break it.  While nothing has thrown and no process    *)
(* has ended, each such call carries the socket it was made for, and that  *)
(* is never the socket in use, since sockets are numbered as they open and *)
(* only a line the browser has left is closed.                             *)
(***************************************************************************)
EXTENDS Sockets, TLAPS

SocketNumbers ==
  /\ opened \in Nat
  /\ faults \in Nat
  /\ current = None \/ (current \in Nat /\ current <= opened)
  /\ clients \in [Replicas -> Nat \cup {None}]
  /\ \A l \in lines : l.at \in Replicas /\ l.sock \in Nat /\ l.sock <= opened

\* A call of removeClient under way expects a socket the browser has left.
RemovalsAreOld ==
  faults = 0 => \A c \in removing :
    c.expected \in Nat /\ c.expected <= opened /\ c.expected # current

NobodyStops == faults = 0 => shutting = {}

ReplacementInv == SocketNumbers /\ RemovalsAreOld /\ NobodyStops /\ ReplacementKept

\* A process has no connection, and no call of removeClient has been made, at first.
LEMMA ReplacementStarts == SocketsInit => ReplacementInv
  BY SocketsAssumption
  DEF SocketsInit, ReplacementInv, SocketNumbers, RemovalsAreOld, NobodyStops, ReplacementKept

\* addClient numbers the new socket above every line and every removal there is.
LEMMA ConnectKeeps ==
  ASSUME ReplacementInv, NEW i \in Replicas, NEW u, Connect(i, u)
  PROVE  ReplacementInv'
<1> USE SocketsAssumption DEF ReplacementInv
<1> DEFINE new == [sock |-> opened + 1, at |-> i]
<1>1. /\ opened' = opened + 1 /\ current' = opened + 1
      /\ lines' = lines \cup {new}
      /\ clients' = [clients EXCEPT ![i] = opened + 1]
      /\ UNCHANGED <<shutting, removing, faults>>
  BY DEF Connect, callVars
<1>2. new.sock = opened + 1 /\ new.at = i
  OBVIOUS
<1> HIDE DEF new
<1>3. SocketNumbers'
  BY <1>1, <1>2 DEF SocketNumbers
<1>4. RemovalsAreOld' /\ NobodyStops'
  BY <1>1 DEF RemovalsAreOld, NobodyStops, SocketNumbers
<1>5. ReplacementKept'
  <2> SUFFICES ASSUME NEW l \in lines', l.sock = current'
               PROVE  clients'[l.at] = current'
    BY DEF ReplacementKept
  <2>1. l = new
    BY <1>1 DEF SocketNumbers
  <2> QED
    BY <1>1, <1>2, <2>1 DEF SocketNumbers
<1> QED
  BY <1>3, <1>4, <1>5

\* onClose starts a removal for a line the browser has left, and for no other.
LEMMA CloseKeeps ==
  ASSUME ReplacementInv, NEW line \in lines, Close(line)
  PROVE  ReplacementInv'
<1> USE SocketsAssumption DEF ReplacementInv
<1>1. /\ lines' \subseteq lines
      /\ UNCHANGED <<clients, shutting, current, opened, faults>>
  BY DEF Close, localVars
<1>2. \A c \in removing' : c \in removing \/ c.expected = line.sock
  BY DEF Close, Removal
<1>3. line.sock # current
  BY DEF Close
<1>4. SocketNumbers' /\ NobodyStops'
  BY <1>1 DEF SocketNumbers, NobodyStops
<1>5. RemovalsAreOld'
  BY <1>1, <1>2, <1>3 DEF RemovalsAreOld, SocketNumbers
<1>6. ReplacementKept'
  BY <1>1 DEF ReplacementKept
<1> QED
  BY <1>4, <1>5, <1>6

\* The second look at clients tells the replacement from the socket that was left.
LEMMA RemoveKeeps ==
  ASSUME ReplacementInv, NEW c \in removing, Remove(c)
  PROVE  ReplacementInv'
<1> USE SocketsAssumption DEF ReplacementInv
<1>1. /\ removing' \subseteq removing
      /\ UNCHANGED <<shutting, lines, current, opened, faults>>
  BY DEF Remove, browserVars
<1>2. \/ clients' = clients
      \/ StillExpected(c) /\ clients' = [clients EXCEPT ![c.at] = None]
  BY DEF Remove
<1>3. SocketNumbers' /\ NobodyStops' /\ RemovalsAreOld'
  BY <1>1, <1>2 DEF SocketNumbers, NobodyStops, RemovalsAreOld
<1>4. ReplacementKept'
  <2> SUFFICES ASSUME NEW l \in lines, l.sock = current, faults = 0
               PROVE  clients'[l.at] = current
    BY <1>1 DEF ReplacementKept
  <2>1. clients[l.at] = current
    BY DEF ReplacementKept
  <2>2. c.expected # None /\ c.expected # current
    BY DEF RemovalsAreOld
  <2>3. CASE clients' = clients
    BY <2>1, <2>3
  <2>4. CASE StillExpected(c) /\ clients' = [clients EXCEPT ![c.at] = None]
    <3>1. c.at # l.at
      BY <2>1, <2>2, <2>4 DEF StillExpected
    <3> QED
      BY <2>1, <2>4, <3>1 DEF SocketNumbers
  <2> QED
    BY <1>2, <2>3, <2>4
<1> QED
  BY <1>3, <1>4

\* A process that ends takes lines, clients and calls with it and adds none: a fault
\* has been counted before it may.
LEMMA EndKeeps ==
  ASSUME ReplacementInv, NEW i \in Replicas, EndOf(i), faults' \in Nat, faults' # 0
  PROVE  ReplacementInv'
<1> USE SocketsAssumption DEF ReplacementInv
<1>1. lines' \subseteq lines /\ opened' = opened /\ current' \in {current, None}
      /\ clients' = [clients EXCEPT ![i] = None]
  BY DEF EndOf
<1> QED
  BY <1>1 DEF SocketNumbers, RemovalsAreOld, NobodyStops, ReplacementKept

\* Every step of a browser, a replica, a publisher or the expiry keeps the invariant.
LEMMA ReplacementStep == ReplacementInv /\ [SocketsNext]_socketVars => ReplacementInv'
<1> SUFFICES ASSUME ReplacementInv, [SocketsNext]_socketVars
             PROVE  ReplacementInv'
  OBVIOUS
<1> USE SocketsAssumption
\* What a step that touches none of these leaves as it is.
<1> DEFINE Kept == UNCHANGED <<clients, shutting, lines, current, opened, removing, faults>>
<1>kept. ASSUME Kept PROVE ReplacementInv'
  BY <1>kept DEF ReplacementInv, SocketNumbers, RemovalsAreOld, NobodyStops, ReplacementKept
<1>fault. ASSUME NEW kind, Fault(kind) PROVE faults' \in Nat /\ faults' # 0
  BY <1>fault DEF Fault, ReplacementInv, SocketNumbers
<1>1. ASSUME NEW i \in Replicas, NEW u \in Users \cup {None}, Connect(i, u)
      PROVE  ReplacementInv'
  BY <1>1, ConnectKeeps
<1>2. CASE Leave
  BY <1>2 DEF Leave, localVars, callVars, ReplacementInv, SocketNumbers, RemovalsAreOld,
              NobodyStops, ReplacementKept
<1>3. ASSUME NEW line \in lines, NEW topic,
             Subscribe(line, topic) \/ Unsubscribe(line, topic)
      PROVE  ReplacementInv'
  BY <1>3, <1>kept DEF Subscribe, Unsubscribe, localVars, callVars, browserVars
<1>4. ASSUME NEW line \in lines, Close(line) PROVE ReplacementInv'
  BY <1>4, CloseKeeps
<1>5. ASSUME NEW line \in lines, Ping(line) PROVE ReplacementInv'
  BY <1>5, <1>kept DEF Ping, localVars, browserVars
<1>6. ASSUME NEW c \in removing, Remove(c) PROVE ReplacementInv'
  BY <1>6, RemoveKeeps
<1>7. ASSUME NEW i \in touching, TouchSet(i) PROVE ReplacementInv'
  BY <1>7, <1>kept DEF TouchSet, localVars, browserVars
<1>8. CASE MetaExpires
  BY <1>8, <1>kept DEF MetaExpires, localVars, callVars, browserVars
<1>9. ASSUME NEW p \in Publishers, NEW topic \in subscribers, Publish(p, topic)
      PROVE  ReplacementInv'
  BY <1>9, <1>kept DEF Publish, localVars, browserVars
<1>10. ASSUME NEW p \in Publishers, Send(p) PROVE ReplacementInv'
  <2>1. UNCHANGED <<clients, shutting, lines, current, opened>>
    BY <1>10 DEF Send, localVars, browserVars
  <2>2. CASE UNCHANGED <<removing, faults>>
    BY <2>1, <2>2, <1>kept
  <2>3. CASE Fault("send")
    BY <2>1, <2>3, <1>fault
    DEF ReplacementInv, SocketNumbers, RemovalsAreOld, NobodyStops, ReplacementKept
  <2> QED
    BY <1>10, <2>2, <2>3 DEF Send
<1>11. ASSUME NEW p \in Publishers, Prune(p) PROVE ReplacementInv'
  BY <1>11, <1>kept DEF Prune, localVars, browserVars
<1>12. ASSUME NEW i \in Replicas, Shutdown(i) PROVE ReplacementInv'
  <2>1. UNCHANGED <<clients, lines, current, opened>>
    BY <1>12 DEF Shutdown, browserVars
  <2>2. faults' \in Nat /\ faults' # 0
    BY <1>12, <1>fault DEF Shutdown
  <2> QED
    BY <2>1, <2>2
    DEF ReplacementInv, SocketNumbers, RemovalsAreOld, NobodyStops, ReplacementKept
<1>13. ASSUME NEW i \in Replicas, ShutdownEnds(i) PROVE ReplacementInv'
  <2>1. faults' \in Nat /\ faults' # 0
    BY <1>13 DEF ShutdownEnds, ReplacementInv, SocketNumbers, NobodyStops
  <2> QED
    BY <1>13, <2>1, EndKeeps DEF ShutdownEnds
<1>14. ASSUME NEW i \in Replicas, Crash(i) PROVE ReplacementInv'
  <2>1. faults' \in Nat /\ faults' # 0
    BY <1>14, <1>fault DEF Crash
  <2> QED
    BY <1>14, <2>1, EndKeeps DEF Crash
<1>15. CASE UNCHANGED socketVars
  BY <1>15, <1>kept DEF socketVars, localVars, callVars, browserVars
<1> QED
  BY <1>1, <1>2, <1>3, <1>4, <1>5, <1>6, <1>7, <1>8, <1>9, <1>10, <1>11, <1>12, <1>13,
     <1>14, <1>15 DEF SocketsNext

\* A delayed close callback of an old socket never removes the connection that
\* replaced it, however callbacks, reads of Redis and reconnections overlap
\* (removeClient), on any number of replicas.
THEOREM ReplacementIsKept == SocketsSpec => []ReplacementKept
<1>1. SocketsSpec => []ReplacementInv
  BY ReplacementStarts, ReplacementStep, PTL DEF SocketsSpec
<1> QED
  BY <1>1, PTL DEF ReplacementInv

================================================================================
