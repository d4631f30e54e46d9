-------------------------- MODULE KcpTrafficProofs --------------------------
(***************************************************************************)
(* Proofs about KcpTraffic, for every set of messages: the two ends are    *)
(* never both left with messages that they have received, not fetched, and *)
(* no datagram under way that would make them fetch one.                   *)
(***************************************************************************)
EXTENDS KcpTraffic, NaturalLemmas, FiniteSetTheorems, SequenceTheorems, TLAPS

TypeInv ==
    /\ open \subseteq Node
    /\ snd \in [Node -> Seq(Msg)]
    /\ rcv_buf \in [Node -> SUBSET Nat]
    /\ rcv_queue \in [Node -> Seq(Msg)]

\* What is kept out of order was sent, and something before it is missing: KCP
\* keeps nothing back that it could deliver.
BufferedBehindGap ==
    \A n \in Node : \A i \in rcv_buf[n] : 1 < i /\ i <= Len(snd[Peer(n)])

IInv == TypeInv /\ BufferedBehindGap /\ NeverAllWaiting

-----------------------------------------------------------------------------
\* The two ends are each other's peer.
LEMMA PeerFacts ==
    ASSUME NEW n \in Node
    PROVE  /\ Peer(n) \in Node /\ Peer(n) # n /\ Peer(Peer(n)) = n
           /\ Node = {n, Peer(n)}
<1>1. /\ IsFiniteSet(Node \ {n}) /\ Cardinality(Node \ {n}) = 1
  BY EndsAssumption, FS_RemoveElement
<1>2. PICK p : Node \ {n} = {p}
  BY <1>1, FS_Singleton
<1>3. p \in Node /\ p # n /\ Node = {n, p}
  BY <1>2
<1>4. \A q \in Node : q # n => q = p
  BY <1>3
<1>5. Peer(n) \in Node /\ Peer(n) # n
  BY <1>3, Zenon DEF Peer
<1>6. Peer(n) = p
  BY <1>4, <1>5
<1>7. Peer(p) \in Node /\ Peer(p) # p
  BY <1>3, Zenon DEF Peer
<1>8. Peer(p) = n
  BY <1>3, <1>7
<1> QED
  BY <1>3, <1>5, <1>6, <1>8

LEMMA InitInv == Init => IInv
<1> SUFFICES ASSUME Init PROVE IInv
  OBVIOUS
<1>1. TypeInv
  BY DEF Init, TypeInv
<1>2. BufferedBehindGap /\ NeverAllWaiting
  BY DEF Init, BufferedBehindGap, NeverAllWaiting
<1> QED
  BY <1>1, <1>2 DEF IInv

\* A message that is added at the end of what n has sent.
LEMMA SendInv ==
    ASSUME IInv, NEW n \in Node, NEW x \in Msg, open' \subseteq Node,
           snd' = [snd EXCEPT ![n] = Append(@, x)],
           UNCHANGED <<rcv_buf, rcv_queue>>
    PROVE  IInv'
<1>1. snd[n] \in Seq(Msg) /\ Len(snd[n]) \in Nat
  BY DEF IInv, TypeInv
<1>2. /\ Append(snd[n], x) \in Seq(Msg) /\ Len(Append(snd[n], x)) = Len(snd[n]) + 1
      /\ Append(snd[n], x) # <<>>
  BY <1>1
<1>3. TypeInv'
  BY <1>2 DEF IInv, TypeInv
<1>4. BufferedBehindGap'
  <2> SUFFICES ASSUME NEW m \in Node, NEW i \in rcv_buf[m]
               PROVE  1 < i /\ i <= Len(snd'[Peer(m)])
    BY DEF BufferedBehindGap
  <2>1. 1 < i /\ i <= Len(snd[Peer(m)]) /\ i \in Nat
    BY DEF IInv, TypeInv, BufferedBehindGap
  <2>2. Peer(m) \in Node
    BY PeerFacts
  <2>3. snd'[Peer(m)] = IF Peer(m) = n THEN Append(snd[n], x) ELSE snd[Peer(m)]
    BY <2>2 DEF IInv, TypeInv
  <2> QED
    BY <1>1, <1>2, <2>1, <2>3
<1>5. snd'[n] # <<>>
  BY <1>2 DEF IInv, TypeInv
<1> QED
  BY <1>3, <1>4, <1>5 DEF IInv, NeverAllWaiting

\* How far the datagram takes the stream: k messages come in order, and the next
\* one is missing.
LEMMA DeliveredFacts ==
    ASSUME IInv, NEW n \in Node, NEW seg \in SUBSET DOMAIN snd[Peer(n)],
           NEW k, k = Max({i \in 0..Len(snd[Peer(n)]) : 1..i \subseteq rcv_buf[n] \cup seg})
    PROVE  /\ k \in 0..Len(snd[Peer(n)])
           /\ \A i \in (rcv_buf[n] \cup seg) \ 1..k :
                  i \in Nat /\ k + 1 < i /\ i <= Len(snd[Peer(n)])
<1> DEFINE p    == Peer(n)
           have == rcv_buf[n] \cup seg
           Up   == {i \in 0..Len(snd[p]) : 1..i \subseteq have}
<1>1. p \in Node
  BY PeerFacts
<1>2. snd[p] \in Seq(Msg)
  BY <1>1 DEF IInv, TypeInv
<1>3. PICK l \in Nat : l = Len(snd[p])
  BY <1>2
<1>4. DOMAIN snd[p] = 1..l
  BY <1>2, <1>3
<1>5. have \subseteq 1..l
  <2>1. \A i \in rcv_buf[n] : i \in Nat /\ 1 < i /\ i <= l
    BY <1>3 DEF IInv, TypeInv, BufferedBehindGap
  <2> QED
    BY <1>4, <2>1
<1> HIDE DEF have
<1>6. Up = {i \in 0..l : 1..i \subseteq have}
  BY <1>3
<1>7. 0 \in Up
  <2>1. 1..0 = {}
    OBVIOUS
  <2> QED
    BY <1>6, <2>1
<1>8. Up \in SUBSET (0..l) /\ Up # {}
  BY <1>6, <1>7
<1>9. k = Max(Up)
  BY DEF have
<1> HIDE DEF Up
<1>10. k \in Up /\ \A y \in Up : y <= k
  BY <1>8, <1>9, MaxOfBounded
<1>11. k \in 0..l /\ 1..k \subseteq have
  BY <1>6, <1>10
<1>12. k + 1 \notin have
  <2> SUFFICES ASSUME k + 1 \in have PROVE FALSE
    OBVIOUS
  <2>1. k + 1 \in 0..l
    BY <1>5, <1>11
  <2>2. 1..k + 1 \subseteq have
    <3>1. \A i \in 1..k + 1 : i \in 1..k \/ i = k + 1
      BY <1>11
    <3> QED
      BY <1>11, <3>1
  <2>3. k + 1 \in Up
    BY <1>6, <2>1, <2>2
  <2> QED
    BY <1>10, <1>11, <2>3
<1>13. \A i \in have \ 1..k : i \in Nat /\ k + 1 < i /\ i <= l
  <2> SUFFICES ASSUME NEW i \in have, i \notin 1..k
               PROVE  i \in Nat /\ k + 1 < i /\ i <= l
    OBVIOUS
  <2>1. i \in 1..l /\ i # k + 1
    BY <1>5, <1>12
  <2> QED
    BY <1>11, <2>1
<1> QED
  BY <1>3, <1>11, <1>13 DEF have

LEMMA InputInv ==
    ASSUME IInv, NEW n \in Node, NEW seg \in SUBSET DOMAIN snd[Peer(n)], Input(n, seg)
    PROVE  IInv'
<1> DEFINE p     == Peer(n)
           k     == Max({i \in 0..Len(snd[p]) : 1..i \subseteq rcv_buf[n] \cup seg})
           queue == rcv_queue[n] \o SubSeq(snd[p], 1, k)
<1>1. k = Max({i \in 0..Len(snd[p]) : 1..i \subseteq rcv_buf[n] \cup seg})
  OBVIOUS
<1>2. queue = rcv_queue[n] \o SubSeq(snd[p], 1, k)
  OBVIOUS
<1>3. /\ rcv_buf' = [rcv_buf EXCEPT ![n] = {i - k : i \in (rcv_buf[n] \cup seg) \ 1..k}]
      /\ IF queue = <<>>
           THEN UNCHANGED <<snd, rcv_queue>>
           ELSE /\ rcv_queue' = [rcv_queue EXCEPT ![n] = Tail(queue)]
                /\ snd' = [snd EXCEPT ![p] = SubSeq(@, k + 1, Len(@)),
                                      ![n] = @ \o <<Head(queue)>>]
      /\ UNCHANGED open
  BY Zenon DEF Input, NetEventCallback
<1> HIDE DEF k, queue
<1>4. p \in Node /\ p # n /\ Peer(p) = n /\ Node = {n, p}
  BY PeerFacts
<1>5. /\ k \in 0..Len(snd[p])
      /\ \A i \in (rcv_buf[n] \cup seg) \ 1..k : i \in Nat /\ k + 1 < i /\ i <= Len(snd[p])
  BY <1>1, DeliveredFacts
<1>6. snd[p] \in Seq(Msg) /\ snd[n] \in Seq(Msg) /\ rcv_queue[n] \in Seq(Msg)
  BY <1>4 DEF IInv, TypeInv
<1>7. PICK l \in Nat : l = Len(snd[p])
  BY <1>6
<1>8. \A i \in 1..l : snd[p][i] \in Msg
  BY <1>6, <1>7
<1>9. PICK got : got = SubSeq(snd[p], 1, k)
  OBVIOUS
<1>10. got \in Seq(Msg) /\ Len(got) = k
  <2>1. \A i \in 1..k : snd[p][i] \in Msg
    BY <1>5, <1>7, <1>8
  <2>2. got \in Seq(Msg) /\ Len(got) = IF 1 <= k THEN k - 1 + 1 ELSE 0
    BY <1>5, <1>7, <1>9, <2>1, SubSeqProperties
  <2> QED
    BY <1>5, <1>7, <2>2
<1>11. PICK rest : rest = SubSeq(snd[p], k + 1, l)
  OBVIOUS
<1>12. rest \in Seq(Msg) /\ Len(rest) = l - k
  <2>1. \A i \in k + 1..l : snd[p][i] \in Msg
    BY <1>5, <1>7, <1>8
  <2>2. rest \in Seq(Msg) /\ Len(rest) = IF k + 1 <= l THEN l - (k + 1) + 1 ELSE 0
    BY <1>5, <1>7, <1>11, <2>1, SubSeqProperties
  <2> QED
    BY <1>5, <1>7, <2>2
<1>13. queue \in Seq(Msg) /\ Len(queue) = Len(rcv_queue[n]) + k
  BY <1>2, <1>6, <1>9, <1>10, ConcatProperties
<1>14. queue = <<>> => k = 0
  <2>1. Len(rcv_queue[n]) \in Nat /\ k \in Nat
    BY <1>5, <1>6, <1>7
  <2>2. queue = <<>> => Len(queue) = 0
    OBVIOUS
  <2> QED
    BY <1>13, <2>1, <2>2
\* What is sent afterwards: the peer has k messages less, or none was there.
<1>15. /\ snd' \in [Node -> Seq(Msg)] /\ rcv_queue' \in [Node -> Seq(Msg)]
       /\ Len(snd'[p]) = l - k
       /\ Len(snd'[n]) >= Len(snd[n])
       /\ queue # <<>> => snd'[n] # <<>>
  <2>1. CASE queue = <<>>
    <3>1. k = 0 /\ snd' = snd /\ rcv_queue' = rcv_queue
      BY <1>3, <1>14, <2>1
    <3>2. Len(snd[n]) \in Nat
      BY <1>6
    <3> QED
      BY <1>7, <2>1, <3>1, <3>2 DEF IInv, TypeInv
  <2>2. CASE queue # <<>>
    <3>1. Head(queue) \in Msg /\ Tail(queue) \in Seq(Msg)
      BY <1>13, <2>2, HeadTailProperties
    <3>2. PICK more : more = snd[n] \o <<Head(queue)>>
      OBVIOUS
    <3>3. <<Head(queue)>> \in Seq(Msg) /\ Len(<<Head(queue)>>) = 1
      BY <3>1
    <3>4. more \in Seq(Msg) /\ Len(more) = Len(snd[n]) + 1
      BY <1>6, <3>2, <3>3, ConcatProperties
    <3>5. more # <<>>
      BY <1>6, <3>4
    <3>6. snd' = [snd EXCEPT ![p] = rest, ![n] = more]
      BY <1>3, <1>4, <1>7, <1>11, <2>2, <3>2 DEF IInv, TypeInv
    <3>7. snd' \in [Node -> Seq(Msg)] /\ snd'[p] = rest /\ snd'[n] = more
      BY <1>4, <1>12, <3>4, <3>6 DEF IInv, TypeInv
    <3>8. rcv_queue' \in [Node -> Seq(Msg)]
      BY <1>3, <2>2, <3>1 DEF IInv, TypeInv
    <3>9. Len(snd[n]) \in Nat
      BY <1>6
    <3> QED
      BY <1>12, <3>4, <3>5, <3>7, <3>8, <3>9
  <2> QED
    BY <2>1, <2>2
<1>16. \A i \in rcv_buf'[n] : i \in Nat /\ 1 < i /\ i <= l - k
  <2> SUFFICES ASSUME NEW i \in (rcv_buf[n] \cup seg) \ 1..k
               PROVE  i - k \in Nat /\ 1 < i - k /\ i - k <= l - k
    BY <1>3 DEF IInv, TypeInv
  <2>1. i \in Nat /\ k + 1 < i /\ i <= l /\ k \in Nat
    BY <1>5, <1>7
  <2> QED
    BY <2>1
<1>17. TypeInv'
  <2>1. rcv_buf' = [rcv_buf EXCEPT ![n] = rcv_buf'[n]] /\ rcv_buf'[n] \in SUBSET Nat
    BY <1>3, <1>16 DEF IInv, TypeInv
  <2>2. rcv_buf' \in [Node -> SUBSET Nat]
    BY <2>1 DEF IInv, TypeInv
  <2> QED
    BY <1>3, <1>15, <2>2 DEF IInv, TypeInv
<1>18. BufferedBehindGap'
  <2> SUFFICES ASSUME NEW m \in Node, NEW i \in rcv_buf'[m]
               PROVE  1 < i /\ i <= Len(snd'[Peer(m)])
    BY DEF BufferedBehindGap
  <2>1. CASE m = n
    BY <1>15, <1>16, <2>1
  <2>2. CASE m # n
    <3>1. rcv_buf'[m] = rcv_buf[m]
      BY <1>3, <2>2 DEF IInv, TypeInv
    <3>2. i \in Nat /\ 1 < i /\ i <= Len(snd[Peer(m)])
      BY <3>1 DEF IInv, TypeInv, BufferedBehindGap
    <3>3. m = p
      BY <1>4, <2>2
    <3>4. Peer(m) = n
      BY <1>4, <3>3
    <3>5. Len(snd[n]) \in Nat /\ Len(snd'[n]) \in Nat
      BY <1>6, <1>15
    <3> QED
      BY <1>15, <3>2, <3>4, <3>5
  <2> QED
    BY <2>1, <2>2
<1>19. NeverAllWaiting'
  <2>1. CASE queue = <<>>
    BY <1>3, <2>1 DEF IInv, NeverAllWaiting
  <2>2. CASE queue # <<>>
    BY <1>15, <2>2 DEF NeverAllWaiting
  <2> QED
    BY <2>1, <2>2
<1> QED
  BY <1>17, <1>18, <1>19 DEF IInv

LEMMA NextInv == IInv /\ [Next]_vars => IInv'
<1> SUFFICES ASSUME IInv, [Next]_vars PROVE IInv'
  OBVIOUS
<1>1. ASSUME NEW n \in Node, NEW x \in Msg, NetConnect(n, x) PROVE IInv'
  <2>1. open' \subseteq Node
    BY <1>1 DEF NetConnect, IInv, TypeInv
  <2> QED
    BY <1>1, <2>1, SendInv DEF NetConnect
<1>2. ASSUME NEW n \in Node, NEW x \in Msg, SendPacketKCP(n, x) PROVE IInv'
  <2>1. open' \subseteq Node
    BY <1>2 DEF SendPacketKCP, IInv, TypeInv
  <2> QED
    BY <1>2, <2>1, SendInv DEF SendPacketKCP
<1>3. ASSUME NEW n \in Node, NEW seg \in SUBSET DOMAIN snd[Peer(n)], Input(n, seg)
      PROVE  IInv'
  BY <1>3, InputInv
<1>4. CASE UNCHANGED vars
  BY <1>4 DEF vars, IInv, TypeInv, BufferedBehindGap, NeverAllWaiting
<1> QED
  BY <1>1, <1>2, <1>3, <1>4 DEF Next

-----------------------------------------------------------------------------
\* The inductive invariant holds of every exchange over a session, whatever the
\* order in which Session::input sees the segments (session.cpp:139).
THEOREM Invariance == Spec => []IInv
<1> QED
  BY InitInv, NextInv, PTL DEF Spec

\* It never happens that all messages wait in receive queues, where only another
\* datagram would fetch them (session.cpp:145).
THEOREM SomethingUnderWay == Spec => []NeverAllWaiting
<1>1. IInv => NeverAllWaiting
  BY DEF IInv
<1> QED
  BY Invariance, <1>1, PTL
=============================================================================
