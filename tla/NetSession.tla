----------------------------- MODULE NetSession -----------------------------
(***************************************************************************)
(* Sessions over UDP: src/src/libs/network/{network_interface,session,     *)
(* connect_packet}.cpp.                                                    *)
(*                                                                         *)
(* A process has one NetworkInterface and runs its handlers on a single    *)
(* io_service thread, so a handler is one step.  Datagrams may be lost,    *)
(* duplicated and reordered, a process may move to another endpoint, and   *)
(* its clock may be set.                                                   *)
(* The destructor of a Session sends a disconnect packet, so whatever      *)
(* drops the last pointer to a session also sends one.                     *)
(*                                                                         *)
(* Time: Tick stands for the first update timer after another              *)
(* P2PCLOUDS_CONNECTION_TIMEOUT_TIME; a session that has received nothing  *)
(* since the Tick before has timed out.                                    *)
(***************************************************************************)
EXTENDS Integers, FiniteSets, FiniteSetsExt, BagsExt, Bags

CONSTANTS
    Node,           \* the processes
    Endpoint,       \* addresses and ports
    Home,           \* Home[n]: the endpoint n starts with
    NULL,
    MaxKCP,         \* bound on KCP datagrams under way
    MaxEvent        \* bound on calls of connect, duplicates, changes of an endpoint and of a clock

ASSUME NetAssumption ==
    /\ IsFiniteSet(Node)
    /\ Home \in [Node -> Endpoint] /\ \A m, n \in Node : Home[m] = Home[n] => m = n
    /\ NULL \notin Endpoint
    /\ {MaxKCP, MaxEvent} \subseteq Nat

\* Session ids that can be handed out within the bounds.
ID == 1..MaxEvent

VARIABLES
    addr,           \* addr[n]: the endpoint n sends from and listens on
    state,          \* "up", "stopped" after stopAll, "aborted" by std::terminate
    sessions,       \* sessions[n][i]: remoteEndpoint_ of session i of n, NULL if there is none
    heard,          \* heard[n]: the sessions with a recent lastRecvTime_
    nextID,         \* the static counter of handleConnectPacket
    connected,      \* connected[n][i]: the NetConnects of sessions i less the NetDisconnects
    refused,        \* refused[n][i]: the sessions i that addSession refused, a history
    net,            \* the bag of datagrams under way
    events          \* the events that MaxEvent bounds

nodeVars == <<state, sessions, heard, nextID, connected, refused>>
vars     == <<addr, nodeVars, net, events>>

Datagram(t, n, dst, i) == [type |-> t, src |-> addr[n], dst |-> dst, id |-> i]

\* The ids of the sessions of n.
Open(n) == {i \in ID : sessions[n][i] # NULL}

\* Session::isTimeout, for the update at a Tick.
TimedOut(n) == Open(n) \ heard[n]

KCPs == {m \in BagToSet(net) : m.type = "kcp"}

-----------------------------------------------------------------------------
Init ==
    /\ addr = Home
    /\ state = [n \in Node |-> "up"]
    /\ sessions = [n \in Node |-> [i \in ID |-> NULL]]
    /\ heard = [n \in Node |-> {}]
    /\ nextID = [n \in Node |-> 1]
    /\ connected = [n \in Node |-> [i \in ID |-> 0]]
    /\ refused = [n \in Node |-> [i \in ID |-> 0]]
    /\ net = EmptyBag
    /\ events = 0

\* One of the events happens that the bound counts.
Event == events < MaxEvent /\ events' = events + 1

\* connect, to any address, the own one too.
Connect(n, dst) ==
    /\ Event
    /\ state[n] = "up"
    /\ net' = BagAdd(net, Datagram("connect", n, dst, 0))
    /\ UNCHANGED <<addr, nodeVars>>

\* Sessions S of n go: the application is told and ~Session sends the packets.
\* rest is the other traffic, stay the sessions with a recent lastRecvTime_.
Close(n, S, stay, rest) ==
    /\ sessions' = [sessions EXCEPT ![n] = [i \in ID |-> IF i \in S THEN NULL ELSE @[i]]]
    /\ heard' = [heard EXCEPT ![n] = stay]
    /\ connected' = [connected EXCEPT ![n] = [i \in ID |-> IF i \in S THEN @[i] - 1 ELSE @[i]]]
    /\ net' = rest (+) SetToBag({Datagram("disconnect", n, sessions[n][i], i) : i \in S})

\* disconnect, called by the application.
Disconnect(n, i) ==
    /\ state[n] = "up"
    /\ i \in Open(n)
    /\ Close(n, {i}, heard[n] \ {i}, net)
    /\ UNCHANGED <<addr, state, nextID, refused, events>>

\* KCP has something to send or to send again: Session::output.
SendKCP(n, i) ==
    /\ state[n] = "up"
    /\ i \in Open(n)
    /\ Cardinality(KCPs) < MaxKCP
    /\ Datagram("kcp", n, sessions[n][i], i) \notin KCPs
    /\ net' = BagAdd(net, Datagram("kcp", n, sessions[n][i], i))
    /\ UNCHANGED <<addr, nodeVars, events>>

-----------------------------------------------------------------------------
(* handleReceiveFrom: rest is the traffic without the datagram m *)

\* Session::create, addSession and the callback NetConnect.  If the id is taken
\* addSession refuses the new session and the handler goes on all the same: the
\* application is told of a session that is dropped when the handler returns,
\* without a NetDisconnect and with a disconnect packet for an id that is in use.
AddSession(n, i, peer, rest) ==
    /\ IF i \in Open(n)
         THEN /\ net' = BagAdd(rest, Datagram("disconnect", n, peer, i))
              /\ refused' = [refused EXCEPT ![n][i] = @ + 1]
              /\ UNCHANGED <<sessions, heard>>
         ELSE /\ sessions' = [sessions EXCEPT ![n][i] = peer]
              /\ heard' = [heard EXCEPT ![n] = @ \cup {i}]
              /\ net' = rest
              /\ UNCHANGED refused
    /\ connected' = [connected EXCEPT ![n][i] = @ + 1]

\* (Bound: the id is one of ID, as it always is when MaxEvent bounds the connects.)
HandleConnectPacket(n, m, rest) ==
    /\ m.type = "connect"
    /\ nextID[n] \in ID
    /\ nextID' = [nextID EXCEPT ![n] = @ + 1]
    /\ AddSession(n, nextID[n], m.src, BagAdd(rest, Datagram("ack", n, m.src, nextID[n])))

HandleConnectAckPacket(n, m, rest) ==
    /\ m.type = "ack"
    /\ AddSession(n, m.id, m.src, rest)
    /\ UNCHANGED nextID

\* Faulty variant: a disconnect packet is answered by one, session or not.
HandleDisconnectPacket_Answer(n, m, rest) ==
    /\ m.type = "disconnect"
    /\ IF m.id \in Open(n)
         THEN Close(n, {m.id}, heard[n] \ {m.id}, rest)
         ELSE /\ net' = BagAdd(rest, Datagram("disconnect", n, m.src, m.id))
              /\ UNCHANGED <<sessions, heard, connected>>
    /\ UNCHANGED <<nextID, refused>>

\* The endpoint of the sender is not compared.
HandleDisconnectPacket(n, m, rest) ==
    /\ m.type = "disconnect"
    /\ Close(n, {m.id} \cap Open(n), heard[n] \ {m.id}, rest)
    /\ UNCHANGED <<nextID, refused>>

\* Session::input, for a datagram from the endpoint of the session.
HandlePacketKCP(n, m, rest) ==
    /\ m.type = "kcp"
    /\ heard' = [heard EXCEPT ![n] = IF m.id \in Open(n) /\ sessions[n][m.id] = m.src
                                       THEN @ \cup {m.id} ELSE @]
    /\ net' = rest
    /\ UNCHANGED <<sessions, nextID, connected, refused>>

Receive(n, m) ==
    /\ BagIn(m, net)
    /\ state[n] = "up" /\ addr[n] = m.dst
    /\ LET rest == BagRemove(net, m)
       IN  \/ HandleConnectPacket(n, m, rest)
           \/ HandleConnectAckPacket(n, m, rest)
           \/ HandleDisconnectPacket(n, m, rest)
           \/ HandlePacketKCP(n, m, rest)
    /\ UNCHANGED <<addr, state, events>>

-----------------------------------------------------------------------------
\* Faulty variant: the application is not told of a timeout.
Tick_NoCallback(n) ==
    /\ state[n] = "up"
    /\ LET old == TimedOut(n) IN
        /\ sessions' = [sessions EXCEPT ![n] = [i \in ID |-> IF i \in old THEN NULL ELSE @[i]]]
        /\ net' = net (+) SetToBag({Datagram("disconnect", n, sessions[n][i], i) : i \in old})
    /\ heard' = [heard EXCEPT ![n] = {}]
    /\ UNCHANGED <<addr, state, nextID, connected, refused, events>>

\* Faulty variant: an update counts as a sign of life.
Tick_Refresh(n) ==
    /\ state[n] = "up"
    /\ UNCHANGED vars

\* handleUpdateTimer: sessions that have timed out are closed.
Tick(n) ==
    /\ state[n] = "up"
    /\ Close(n, TimedOut(n), {}, net)
    /\ UNCHANGED <<addr, state, nextID, refused, events>>

\* stopAll: the socket is closed first, so the packet that ~Session wants to
\* send throws in a destructor when there is a session left.
StopAll(n) ==
    /\ state[n] = "up"
    /\ state' = [state EXCEPT ![n] = IF Open(n) = {} THEN "stopped" ELSE "aborted"]
    /\ sessions' = [sessions EXCEPT ![n] = [i \in ID |-> NULL]]
    /\ heard' = [heard EXCEPT ![n] = {}]
    /\ UNCHANGED <<addr, nextID, connected, refused, net, events>>

-----------------------------------------------------------------------------
(* The network *)

Lose(m) ==
    /\ BagIn(m, net)
    /\ net' = BagRemove(net, m)
    /\ UNCHANGED <<addr, nodeVars, events>>

Duplicate(m) ==
    /\ Event
    /\ BagIn(m, net)
    /\ net' = BagAdd(net, m)
    /\ UNCHANGED <<addr, nodeVars>>

\* n is seen at another endpoint from now on.
Roam(n, e) ==
    /\ Event
    /\ \A k \in Node : addr[k] # e
    /\ addr' = [addr EXCEPT ![n] = e]
    /\ UNCHANGED <<nodeVars, net>>

\* The system clock of n is set.  isTimeout takes the difference to lastRecvTime_
\* unsigned: after a step forward, or back to before lastRecvTime_, a session is
\* overdue, and after a smaller step back an old one looks recent.
SetClock(n, S) ==
    /\ Event
    /\ heard' = [heard EXCEPT ![n] = S]
    /\ UNCHANGED <<addr, state, sessions, nextID, connected, refused, net>>

Arrive(m) == Lose(m) \/ \E n \in Node : Receive(n, m)

Next ==
    \/ \E n, k \in Node : Connect(n, Home[k])
    \/ \E n \in Node, e \in Endpoint : Roam(n, e)
    \/ \E n \in Node : Tick(n) \/ StopAll(n) \/ \E S \in SUBSET Open(n) : SetClock(n, S)
    \/ \E n \in Node, i \in ID : Disconnect(n, i) \/ SendKCP(n, i)
    \/ \E m \in BagToSet(net) : Arrive(m) \/ Duplicate(m)

Spec == Init /\ [][Next]_vars

\* The update timer sets itself up again.  Nothing is assumed of the datagrams.
FairSpec == Spec /\ \A n \in Node : WF_vars(Tick(n))

-----------------------------------------------------------------------------
(* Properties *)

\* What the application knows of the sessions: one in the table has been announced
\* by NetConnect once, one that has left it was announced gone, whatever packet,
\* timeout or call closed it and however often the packet came.  The only sessions
\* it takes for open and that are not are those that addSession refused: their
\* NetConnect is never taken back (network_interface.cpp:205, 214, 236).
ApplicationKnowsSessions ==
    \A n \in Node, i \in ID :
        state[n] = "up" => connected[n][i] = refused[n][i] + (IF i \in Open(n) THEN 1 ELSE 0)

\* The process at endpoint e has session i with n.
PeerHas(n, e, i) == \E k \in Node : addr[k] = e /\ sessions[k][i] = addr[n]

\* Session i of n is half open: its other end is gone.
HalfOpen(n, i) ==
    /\ state[n] = "up" /\ sessions[n][i] # NULL
    /\ ~PeerHas(n, sessions[n][i], i)

\* A half-open session of n does not stay: the disconnect packet may be lost, the
\* peer may have been stopped or have moved, the clock may have been set, the
\* timeout remains.  That a peer which moves loses its session is what the code
\* does, not what session.h:40 says of it: see EndpointFollowsPackets.
HalfOpenEndsAt(n) == \A i \in ID : HalfOpen(n, i) ~> ~HalfOpen(n, i)


Copies(m, bag) == IF BagIn(m, bag) THEN bag[m] ELSE 0

\* The disconnect packets under way, the copies of each of them numbered.
Disconnects(bag) ==
    UNION {{m} \X (1..bag[m]) : m \in {d \in BagToSet(bag) : d.type = "disconnect"}}

\* What an exchange of disconnect packets lives on: the packets under way and,
\* counted twice, the sessions that they may close.
Exchange ==
    2 * Cardinality({x \in Node \X ID : x[2] \in Open(x[1])}) + Cardinality(Disconnects(net))

\* Disconnect packets do not answer each other for ever, although the session
\* that one of them closes sends one back (session.cpp:32): whenever one is
\* received or lost, less of the exchange is left.
ExchangeEnds ==
    [][\A m \in BagToSet(net) :
            m.type = "disconnect" /\ Copies(m, net') < Copies(m, net) => Exchange' < Exchange]_vars
=============================================================================
