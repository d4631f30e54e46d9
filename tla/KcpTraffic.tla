----------------------------- MODULE KcpTraffic -----------------------------
(***************************************************************************)
(* The messages of one session: Session::sendPacketKCP and Session::input  *)
(* of src/src/libs/network/session.cpp, between two applications that      *)
(* answer every event of a session with a message, as TestApp and          *)
(* P2pCloudsApp do (netEventCallback).                                     *)
(*                                                                         *)
(* KCP (src/src/deps/kcp/ikcp.c) makes an ordered stream of the datagrams. *)
(* Of it the model has what Session::input sees: segments that come out of *)
(* order, or again, are kept in rcv_buf until the gap before them is       *)
(* filled, and then all of them move to rcv_queue at once.  Session::input *)
(* takes one message from there for each datagram, whatever is in it.      *)
(*                                                                         *)
(* There are always fewer messages than the receive window has room for    *)
(* (32), and a message fits in one segment.                                *)
(* How a session begins and ends is in NetSession.                         *)
(***************************************************************************)
EXTENDS Naturals, FiniteSets, FiniteSetsExt, SequencesExt

CONSTANTS
    Node,   \* the two ends
    Msg     \* bound: messages the applications send of their own accord

ASSUME EndsAssumption == IsFiniteSet(Node) /\ Cardinality(Node) = 2

VARIABLES
    open,       \* the ends that have the session
    snd,        \* snd[n]: what n has sent and its peer has not got in order yet
    rcv_buf,    \* rcv_buf[n]: of that, numbered from 1, what n has got all the same
    rcv_queue   \* rcv_queue[n]: what n has got in order and not fetched

vars == <<open, snd, rcv_buf, rcv_queue>>

Peer(n) == CHOOSE p \in Node : p # n

\* Messages that no application has sent.
Unsent == Msg \ UNION {ToSet(snd[n]) \cup ToSet(rcv_queue[n]) : n \in Node}

Init ==
    /\ open = {}
    /\ snd = [n \in Node |-> <<>>]
    /\ rcv_buf = [n \in Node |-> {}]
    /\ rcv_queue = [n \in Node |-> <<>>]

\* Session::sendPacketKCP, called by the application of n.  (Bound: the ends that
\* are not open yet have a message left.)
SendPacketKCP(n, x) ==
    /\ n \in open
    /\ x \in Unsent
    /\ Cardinality(Unsent) > Cardinality(Node \ open)
    /\ snd' = [snd EXCEPT ![n] = Append(@, x)]
    /\ UNCHANGED <<open, rcv_buf, rcv_queue>>

\* handleConnectPacket or handleConnectAckPacket: n has the session now, and the
\* application answers NetConnect.
NetConnect(n, x) ==
    /\ n \notin open
    /\ x \in Unsent
    /\ open' = open \cup {n}
    /\ snd' = [snd EXCEPT ![n] = Append(@, x)]
    /\ UNCHANGED <<rcv_buf, rcv_queue>>

\* netEventCallback with NetRcvMsg: what the application sends.  An answer goes by
\* the name of the message it answers.
NetEventCallback(x) == <<x>>

\* Faulty variant: the message is fetched before the datagram is put in.
Input_FetchFirst(n, seg) ==
    LET p    == Peer(n)
        have == rcv_buf[n] \cup seg
        k    == Max({i \in 0..Len(snd[p]) : 1..i \subseteq have})
        todo == rcv_queue[n]
        more == SubSeq(snd[p], 1, k)
    IN  /\ open = Node
        /\ seg \subseteq DOMAIN snd[p]
        /\ rcv_buf' = [rcv_buf EXCEPT ![n] = {i - k : i \in have \ 1..k}]
        /\ IF todo = <<>>
             THEN /\ rcv_queue' = [rcv_queue EXCEPT ![n] = more]
                  /\ snd' = [snd EXCEPT ![p] = SubSeq(@, k + 1, Len(@))]
             ELSE /\ rcv_queue' = [rcv_queue EXCEPT ![n] = Tail(todo) \o more]
                  /\ snd' = [snd EXCEPT ![p] = SubSeq(@, k + 1, Len(@)),
                                        ![n] = @ \o NetEventCallback(Head(todo))]
        /\ UNCHANGED open

\* Faulty variant: the messages behind the one that is fetched are thrown away.
Input_DropRest(n, seg) ==
    LET p     == Peer(n)
        have  == rcv_buf[n] \cup seg
        k     == Max({i \in 0..Len(snd[p]) : 1..i \subseteq have})
    IN  /\ open = Node
        /\ seg \subseteq DOMAIN snd[p]
        /\ rcv_buf' = [rcv_buf EXCEPT ![n] = {i - k : i \in have \ 1..k}]
        /\ snd' = [snd EXCEPT ![p] = SubSeq(@, k + 1, Len(@)),
                              ![n] = IF k = 0 THEN @ ELSE @ \o NetEventCallback(Head(snd[p]))]
        /\ UNCHANGED <<open, rcv_queue>>

\* Session::input for a datagram with the segments seg of the peer: none if it has
\* acknowledgements only, and some that are known if it comes late or again.
Input(n, seg) ==
    LET p     == Peer(n)
        have  == rcv_buf[n] \cup seg
        k     == Max({i \in 0..Len(snd[p]) : 1..i \subseteq have})
        queue == rcv_queue[n] \o SubSeq(snd[p], 1, k)
    IN  /\ open = Node
        /\ seg \subseteq DOMAIN snd[p]
        /\ rcv_buf' = [rcv_buf EXCEPT ![n] = {i - k : i \in have \ 1..k}]
        /\ IF queue = <<>>
             THEN UNCHANGED <<snd, rcv_queue>>
             ELSE /\ rcv_queue' = [rcv_queue EXCEPT ![n] = Tail(queue)]
                  /\ snd' = [snd EXCEPT ![p] = SubSeq(@, k + 1, Len(@)),
                                        ![n] = @ \o NetEventCallback(Head(queue))]
        /\ UNCHANGED open

Next ==
    \E n \in Node :
        \/ \E x \in Msg : NetConnect(n, x) \/ SendPacketKCP(n, x)
        \/ \E seg \in SUBSET DOMAIN snd[Peer(n)] : Input(n, seg)

Spec == Init /\ [][Next]_vars

\* The datagram that closes a gap.
FillGap(n) ==
    \E seg \in SUBSET DOMAIN snd[Peer(n)] : 1 \in seg /\ Input(n, seg)

\* KCP sends a segment again until it is acknowledged, and the network does not
\* lose it every time.  Nothing is assumed of acknowledgements.
FairSpec == Spec /\ \A n \in Node : WF_vars(FillGap(n))

-----------------------------------------------------------------------------
(* Properties *)

\* One message per datagram is enough (session.cpp:145): every message that is
\* sent is fetched and answered in the end, also when a datagram makes several of
\* them available.  It is the answers that bring the datagrams for the rest.
EveryMessageAnswered ==
    \A n \in Node, x \in Msg :
        (open = Node /\ x \in ToSet(snd[n]) \cup ToSet(rcv_queue[Peer(n)]))
            ~> (x \in ToSet(snd[Peer(n)]))

\* It never happens that all messages wait in receive queues: then nothing would be
\* sent again, and both ends would wait for a datagram until they time out.
NeverAllWaiting ==
    (\E n \in Node : rcv_queue[n] # <<>>) => (\E n \in Node : snd[n] # <<>>)
=============================================================================
