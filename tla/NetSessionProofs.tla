-------------------------- MODULE NetSessionProofs --------------------------
(***************************************************************************)
(* Proofs about NetSession, for any number of processes, endpoints, calls  *)
(* and faults: what the application knows of the sessions, and disconnect  *)
(* packets do not answer each other for ever.                              *)
(***************************************************************************)
EXTENDS NetSession, FiniteSetTheorems, TLAPS

TypeInv ==
    /\ addr \in [Node -> Endpoint]
    /\ state \in [Node -> {"up", "stopped", "aborted"}]
    /\ sessions \in [Node -> [ID -> Endpoint \cup {NULL}]]
    /\ heard \in [Node -> SUBSET ID]
    /\ nextID \in [Node -> Nat]
    /\ connected \in [Node -> [ID -> Int]]
    /\ refused \in [Node -> [ID -> Int]]
    /\ events \in Nat

\* Traffic: a datagram comes from an endpoint, an acknowledgement names an id that
\* was handed out, and there are finitely many disconnect packets.
Traffic(bag) ==
    /\ IsABag(bag)
    /\ \A m \in BagToSet(bag) : m.src \in Endpoint /\ (m.type = "ack" => m.id \in ID)
    /\ IsFiniteSet(Disconnects(bag))

IInv == TypeInv /\ Traffic(net) /\ ApplicationKnowsSessions

-----------------------------------------------------------------------------
(* Bags of datagrams *)

\* The copies in a bag determine what is in it.
LEMMA CopiesFacts ==
    ASSUME NEW B, IsABag(B), NEW m
    PROVE  /\ Copies(m, B) \in Nat
           /\ m \in BagToSet(B) <=> Copies(m, B) > 0
           /\ \A c : <<m, c>> \in Disconnects(B) <=>
                        m.type = "disconnect" /\ c \in 1..Copies(m, B)
<1>1. /\ Copies(m, B) \in Nat
      /\ m \in BagToSet(B) <=> Copies(m, B) > 0
      /\ m \in BagToSet(B) => Copies(m, B) = B[m]
      /\ m \notin BagToSet(B) => 1..Copies(m, B) = {}
  BY DEF IsABag, Copies, BagIn, BagToSet
<1>2. ASSUME NEW c
      PROVE  <<m, c>> \in Disconnects(B) <=>
                        m.type = "disconnect" /\ c \in 1..Copies(m, B)
  <2>1. <<m, c>> \in Disconnects(B) <=>
          \E d \in {e \in BagToSet(B) : e.type = "disconnect"} : <<m, c>> \in {d} \X (1..B[d])
    BY DEF Disconnects
  <2>2. <<m, c>> \in Disconnects(B) <=>
          m \in BagToSet(B) /\ m.type = "disconnect" /\ c \in 1..B[m]
    BY <2>1
  <2> QED
    BY <1>1, <2>2
<1> QED
  BY <1>1, <1>2

\* The members of Disconnects are pairs.
LEMMA DisconnectsPairs ==
    ASSUME NEW B, NEW x \in Disconnects(B)
    PROVE  \E m, c : x = <<m, c>>
<1>1. PICK d : x \in {d} \X (1..B[d])
  BY DEF Disconnects
<1> QED
  BY <1>1

LEMMA AddFacts ==
    ASSUME NEW B, IsABag(B), NEW x
    PROVE  /\ IsABag(BagAdd(B, x))
           /\ BagToSet(BagAdd(B, x)) = BagToSet(B) \cup {x}
           /\ \A m : Copies(m, BagAdd(B, x)) = Copies(m, B) + (IF m = x THEN 1 ELSE 0)
<1>1. CASE x \in DOMAIN B
  <2>1. BagAdd(B, x) = [e \in DOMAIN B |-> IF e=x THEN B[e]+1 ELSE B[e]]
    BY <1>1 DEF BagAdd
  <2> QED
    BY <1>1, <2>1 DEF IsABag, BagToSet, Copies, BagIn
<1>2. CASE x \notin DOMAIN B
  <2>1. BagAdd(B, x) = [e \in DOMAIN B \union {x} |-> IF e=x THEN 1 ELSE B[e]]
    BY <1>2 DEF BagAdd
  <2> QED
    BY <1>2, <2>1 DEF IsABag, BagToSet, Copies, BagIn
<1> QED
  BY <1>1, <1>2

LEMMA RemoveFacts ==
    ASSUME NEW B, IsABag(B), NEW x \in BagToSet(B)
    PROVE  /\ IsABag(BagRemove(B, x))
           /\ BagToSet(BagRemove(B, x)) \subseteq BagToSet(B)
           /\ \A m : Copies(m, BagRemove(B, x)) = Copies(m, B) - (IF m = x THEN 1 ELSE 0)
<1>1. x \in DOMAIN B /\ \A e \in DOMAIN B : B[e] \in Nat /\ B[e] > 0
  BY DEF BagToSet, IsABag
<1>2. CASE B[x] = 1
  <2>1. BagRemove(B, x) = [e \in DOMAIN B \ {x} |-> B[e]]
    BY <1>1, <1>2 DEF BagRemove
  <2> QED
    BY <1>1, <1>2, <2>1 DEF IsABag, BagToSet, Copies, BagIn
<1>3. CASE B[x] # 1
  <2>1. BagRemove(B, x) = [e \in DOMAIN B |-> IF e=x THEN B[e]-1 ELSE B[e]]
    BY <1>1, <1>3 DEF BagRemove
  <2> QED
    BY <1>1, <1>3, <2>1 DEF IsABag, BagToSet, Copies, BagIn
<1> QED
  BY <1>2, <1>3

LEMMA PlusFacts ==
    ASSUME NEW B, IsABag(B), NEW S
    PROVE  /\ IsABag(B (+) SetToBag(S))
           /\ BagToSet(B (+) SetToBag(S)) = BagToSet(B) \cup S
           /\ \A m : Copies(m, B (+) SetToBag(S)) = Copies(m, B) + (IF m \in S THEN 1 ELSE 0)
<1>1. PICK A : A = B (+) SetToBag(S)
  OBVIOUS
<1>2. A = [e \in DOMAIN B \cup S |->
             (IF e \in DOMAIN B THEN B[e] ELSE 0) + (IF e \in S THEN 1 ELSE 0)]
  BY <1>1 DEF SetToBag, (+)
<1>3. \A e \in DOMAIN B : B[e] \in Nat /\ B[e] > 0
  BY DEF IsABag
<1>4. IsABag(A) /\ BagToSet(A) = BagToSet(B) \cup S
  BY <1>2, <1>3 DEF IsABag, BagToSet
<1>5. \A m : Copies(m, A) = Copies(m, B) + (IF m \in S THEN 1 ELSE 0)
  BY <1>2, <1>3 DEF Copies, BagIn, BagToSet
<1> QED
  BY <1>1, <1>4, <1>5

\* A datagram more.
LEMMA TrafficAdd ==
    ASSUME NEW B, Traffic(B), NEW x, x.src \in Endpoint, x.type = "ack" => x.id \in ID
    PROVE  Traffic(BagAdd(B, x))
<1> DEFINE A   == BagAdd(B, x)
           new == <<x, Copies(x, B) + 1>>
<1>1. IsABag(B) /\ IsFiniteSet(Disconnects(B))
  BY DEF Traffic
<1>2. /\ IsABag(A) /\ BagToSet(A) = BagToSet(B) \cup {x}
      /\ \A m : Copies(m, A) = Copies(m, B) + (IF m = x THEN 1 ELSE 0)
  BY <1>1, AddFacts
<1> HIDE DEF A
<1>3. Disconnects(A) \subseteq Disconnects(B) \cup {new}
  <2> SUFFICES ASSUME NEW m, NEW c, <<m, c>> \in Disconnects(A), <<m, c>> \notin Disconnects(B)
               PROVE  <<m, c>> = new
    BY DisconnectsPairs
  <2>1. /\ m.type = "disconnect" /\ c \in 1..Copies(m, A)
        /\ c \notin 1..Copies(m, B) /\ Copies(m, B) \in Nat
    BY <1>1, <1>2, CopiesFacts
  <2> QED
    BY <1>2, <2>1
<1>4. IsFiniteSet(Disconnects(B) \cup {new})
  BY <1>1, FS_AddElement
<1>5. IsFiniteSet(Disconnects(A))
  BY <1>3, <1>4, FS_Subset
<1>6. Traffic(A)
  BY <1>2, <1>5 DEF Traffic
<1> QED
  BY <1>6 DEF A

\* A datagram less.
LEMMA TrafficRemove ==
    ASSUME NEW B, Traffic(B), NEW x \in BagToSet(B)
    PROVE  /\ Traffic(BagRemove(B, x))
           /\ Cardinality(Disconnects(B)) \in Nat
           /\ x.type = "disconnect" =>
                Cardinality(Disconnects(BagRemove(B, x))) = Cardinality(Disconnects(B)) - 1
<1> DEFINE A   == BagRemove(B, x)
           old == <<x, Copies(x, B)>>
<1>1. IsABag(B) /\ IsFiniteSet(Disconnects(B))
  BY DEF Traffic
<1>2. /\ IsABag(A) /\ BagToSet(A) \subseteq BagToSet(B)
      /\ \A m : Copies(m, A) = Copies(m, B) - (IF m = x THEN 1 ELSE 0)
  BY <1>1, RemoveFacts
<1> HIDE DEF A
<1>3. Disconnects(A) = Disconnects(B) \ {old}
  <2>1. ASSUME NEW m, NEW c
        PROVE  <<m, c>> \in Disconnects(A) <=> <<m, c>> \in Disconnects(B) /\ <<m, c>> # old
    <3>1. /\ <<m, c>> \in Disconnects(A) <=> m.type = "disconnect" /\ c \in 1..Copies(m, A)
          /\ <<m, c>> \in Disconnects(B) <=> m.type = "disconnect" /\ c \in 1..Copies(m, B)
          /\ Copies(m, B) \in Nat /\ Copies(m, A) \in Nat
      BY <1>1, <1>2, CopiesFacts
    <3>2. CASE m = x
      <4>1. Copies(m, A) = Copies(m, B) - 1
        BY <1>2, <3>2
      <4>2. c \in 1..Copies(m, A) <=> c \in 1..Copies(m, B) /\ c # Copies(m, B)
        BY <3>1, <4>1
      <4>3. <<m, c>> = old <=> c = Copies(m, B)
        BY <3>2
      <4> QED
        BY <3>1, <4>2, <4>3
    <3>3. CASE m # x
      <4>1. Copies(m, A) = Copies(m, B)
        BY <1>2, <3>1, <3>3
      <4> QED
        BY <3>1, <3>3, <4>1
    <3> QED
      BY <3>2, <3>3
  <2>2. /\ \A y \in Disconnects(A) : \E m, c : y = <<m, c>>
        /\ \A y \in Disconnects(B) : \E m, c : y = <<m, c>>
    BY DisconnectsPairs
  <2> HIDE DEF old
  <2> QED
    BY <2>1, <2>2
<1>4. /\ IsFiniteSet(Disconnects(A))
      /\ Cardinality(Disconnects(A)) = IF old \in Disconnects(B) THEN Cardinality(Disconnects(B)) - 1
                                                                 ELSE Cardinality(Disconnects(B))
  BY <1>1, <1>3, FS_RemoveElement
<1>5. Cardinality(Disconnects(B)) \in Nat
  BY <1>1, FS_CardinalityType
<1>6. x.type = "disconnect" => old \in Disconnects(B)
  <2>1. Copies(x, B) \in Nat /\ Copies(x, B) > 0
    BY <1>1, CopiesFacts
  <2>2. Copies(x, B) \in 1..Copies(x, B)
    BY <2>1
  <2> QED
    BY <1>1, <2>2, CopiesFacts
<1>7. Traffic(A)
  BY <1>2, <1>4 DEF Traffic
<1> QED
  BY <1>4, <1>5, <1>6, <1>7 DEF A

\* A finite set of datagrams more.
LEMMA TrafficPlus ==
    ASSUME NEW B, Traffic(B), NEW S, IsFiniteSet(S),
           \A x \in S : x.src \in Endpoint /\ x.type # "ack"
    PROVE  /\ Traffic(B (+) SetToBag(S))
           /\ Cardinality(Disconnects(B (+) SetToBag(S))) \in Nat
           /\ Cardinality(Disconnects(B (+) SetToBag(S))) <= Cardinality(Disconnects(B)) + Cardinality(S)
<1> DEFINE A   == B (+) SetToBag(S)
           f   == [x \in S |-> <<x, Copies(x, B) + 1>>]
           new == {f[x] : x \in S}
<1>1. IsABag(B) /\ IsFiniteSet(Disconnects(B))
  BY DEF Traffic
<1>2. /\ IsABag(A) /\ BagToSet(A) = BagToSet(B) \cup S
      /\ \A m : Copies(m, A) = Copies(m, B) + (IF m \in S THEN 1 ELSE 0)
  BY <1>1, PlusFacts
<1> HIDE DEF A
<1>3. Disconnects(A) \subseteq Disconnects(B) \cup new
  <2> SUFFICES ASSUME NEW m, NEW c, <<m, c>> \in Disconnects(A), <<m, c>> \notin Disconnects(B)
               PROVE  <<m, c>> \in new
    BY DisconnectsPairs
  <2>1. /\ m.type = "disconnect" /\ c \in 1..Copies(m, A)
        /\ c \notin 1..Copies(m, B) /\ Copies(m, B) \in Nat
    BY <1>1, <1>2, CopiesFacts
  <2>2. m \in S /\ c = Copies(m, B) + 1
    BY <1>2, <2>1
  <2> QED
    BY <2>2
<1>4. f \in Surjection(S, new)
  BY DEF Surjection
<1> HIDE DEF f, new
<1>5. IsFiniteSet(new) /\ Cardinality(new) <= Cardinality(S)
  BY <1>4, FS_Surjection
<1>6. /\ IsFiniteSet(Disconnects(B) \cup new)
      /\ Cardinality(Disconnects(B) \cup new) =
            Cardinality(Disconnects(B)) + Cardinality(new) - Cardinality(Disconnects(B) \cap new)
  BY <1>1, <1>5, FS_Union
<1>7. /\ IsFiniteSet(Disconnects(A))
      /\ Cardinality(Disconnects(A)) <= Cardinality(Disconnects(B) \cup new)
  BY <1>3, <1>6, FS_Subset
<1>8. IsFiniteSet(Disconnects(B) \cap new)
  BY <1>1, FS_Intersection
<1>9. /\ Cardinality(Disconnects(A)) \in Nat /\ Cardinality(Disconnects(B) \cup new) \in Nat
      /\ Cardinality(Disconnects(B)) \in Nat /\ Cardinality(new) \in Nat /\ Cardinality(S) \in Nat
      /\ Cardinality(Disconnects(B) \cap new) \in Nat
  BY <1>1, <1>5, <1>6, <1>7, <1>8, FS_CardinalityType
<1>10. Traffic(A)
  BY <1>2, <1>7 DEF Traffic
<1> QED
  BY <1>5, <1>6, <1>7, <1>9, <1>10 DEF A

-----------------------------------------------------------------------------
(* The invariant *)

LEMMA IDFacts == IsFiniteSet(ID) /\ IsFiniteSet(Node \X ID)
<1>1. 1 \in Int /\ MaxEvent \in Int
  BY NetAssumption
<1>2. IsFiniteSet(ID)
  <2>1. IsFiniteSet(1..MaxEvent)
    BY <1>1, FS_Interval, Zenon
  <2> QED
    BY <2>1 DEF ID
<1> QED
  BY <1>2, NetAssumption, FS_Product

LEMMA InitInv == Init => IInv
<1> SUFFICES ASSUME Init PROVE IInv
  OBVIOUS
<1>1. TypeInv
  BY NetAssumption DEF Init, TypeInv
<1>2. Traffic(net)
  <2>1. net = [e \in {} |-> 1]
    BY DEF Init, EmptyBag, SetToBag
  <2>2. IsABag(net) /\ BagToSet(net) = {}
    BY <2>1 DEF IsABag, BagToSet
  <2>3. Disconnects(net) = {}
    BY <2>2 DEF Disconnects
  <2> QED
    BY <2>2, <2>3, FS_EmptySet DEF Traffic
<1>3. ApplicationKnowsSessions
  BY DEF Init, ApplicationKnowsSessions, Open
<1> QED
  BY <1>1, <1>2, <1>3 DEF IInv

\* Sessions that go: the rest of the sessions stay known.
LEMMA CloseFacts ==
    ASSUME TypeInv, NEW n \in Node, NEW S \in SUBSET Open(n), NEW stay \in SUBSET ID,
           NEW rest, Traffic(rest), Close(n, S, stay, rest)
    PROVE  /\ sessions' \in [Node -> [ID -> Endpoint \cup {NULL}]]
           /\ heard' \in [Node -> SUBSET ID]
           /\ connected' \in [Node -> [ID -> Int]]
           /\ Traffic(net')
           /\ IsFiniteSet(S)
           /\ Cardinality(Disconnects(net')) \in Nat
           /\ Cardinality(Disconnects(net')) <= Cardinality(Disconnects(rest)) + Cardinality(S)
           /\ \A k \in Node : Open(k)' = IF k = n THEN Open(n) \ S ELSE Open(k)
           /\ \A k \in Node, i \in ID : connected'[k][i] =
                IF k = n /\ i \in S THEN connected[k][i] - 1 ELSE connected[k][i]
<1>1. Open(n) \subseteq ID
  BY DEF Open
<1>2. /\ sessions' \in [Node -> [ID -> Endpoint \cup {NULL}]]
      /\ \A k \in Node, i \in ID :
            sessions'[k][i] = IF k = n /\ i \in S THEN NULL ELSE sessions[k][i]
  BY DEF Close, TypeInv
<1>3. /\ heard' \in [Node -> SUBSET ID]
      /\ connected' \in [Node -> [ID -> Int]]
      /\ \A k \in Node, i \in ID : connected'[k][i] =
            IF k = n /\ i \in S THEN connected[k][i] - 1 ELSE connected[k][i]
  BY DEF Close, TypeInv
<1>4. \A k \in Node : Open(k)' = IF k = n THEN Open(n) \ S ELSE Open(k)
  BY <1>2 DEF Open
<1>5. IsFiniteSet(S)
  BY <1>1, IDFacts, FS_Subset
<1> DEFINE f   == [i \in S |-> Datagram("disconnect", n, sessions[n][i], i)]
           new == {f[i] : i \in S}
<1>6. f \in Surjection(S, new)
  BY DEF Surjection
<1>7. \A x \in new : x.src \in Endpoint /\ x.type # "ack"
  BY DEF Datagram, TypeInv
<1>8. net' = rest (+) SetToBag(new)
  <2>1. new = {Datagram("disconnect", n, sessions[n][i], i) : i \in S}
    OBVIOUS
  <2> HIDE DEF f, new
  <2> QED
    BY <2>1 DEF Close
<1> HIDE DEF f, new
<1>9. IsFiniteSet(new) /\ Cardinality(new) <= Cardinality(S)
  BY <1>5, <1>6, FS_Surjection
<1>10. /\ Traffic(net')
       /\ Cardinality(Disconnects(net')) \in Nat
       /\ Cardinality(Disconnects(net')) <= Cardinality(Disconnects(rest)) + Cardinality(new)
  BY <1>7, <1>8, <1>9, TrafficPlus
<1>11. /\ Cardinality(new) \in Nat /\ Cardinality(S) \in Nat
       /\ Cardinality(Disconnects(rest)) \in Nat
  BY <1>5, <1>9, FS_CardinalityType DEF Traffic
<1> QED
  BY <1>2, <1>3, <1>4, <1>5, <1>9, <1>10, <1>11

LEMMA CloseInv ==
    ASSUME IInv, NEW n \in Node, state[n] = "up",
           NEW S \in SUBSET Open(n), NEW stay \in SUBSET ID,
           NEW rest, Traffic(rest), Close(n, S, stay, rest),
           UNCHANGED <<addr, state, nextID, refused, events>>
    PROVE  IInv'
<1>1. TypeInv
  BY DEF IInv
<1>2. /\ sessions' \in [Node -> [ID -> Endpoint \cup {NULL}]]
      /\ heard' \in [Node -> SUBSET ID]
      /\ connected' \in [Node -> [ID -> Int]]
      /\ Traffic(net')
      /\ \A k \in Node : Open(k)' = IF k = n THEN Open(n) \ S ELSE Open(k)
      /\ \A k \in Node, i \in ID : connected'[k][i] =
            IF k = n /\ i \in S THEN connected[k][i] - 1 ELSE connected[k][i]
  BY <1>1, CloseFacts
<1>3. TypeInv'
  BY <1>1, <1>2 DEF TypeInv
<1>4. Traffic(net)'
  BY <1>2 DEF Traffic, IsABag, Disconnects, BagToSet
<1>5. ApplicationKnowsSessions'
  <2> SUFFICES ASSUME NEW k \in Node, NEW i \in ID, state'[k] = "up"
               PROVE  connected'[k][i] = refused'[k][i] + (IF i \in Open(k)' THEN 1 ELSE 0)
    BY DEF ApplicationKnowsSessions
  <2>1. /\ connected[k][i] = refused[k][i] + (IF i \in Open(k) THEN 1 ELSE 0)
        /\ refused'[k][i] = refused[k][i] /\ refused[k][i] \in Int
    BY <1>1 DEF IInv, ApplicationKnowsSessions, TypeInv
  <2>2. i \in S => i \in Open(n)
    OBVIOUS
  <2>3. i \in Open(k)' <=> i \in Open(k) /\ ~(k = n /\ i \in S)
    BY <1>2
  <2>4. connected'[k][i] = IF k = n /\ i \in S THEN connected[k][i] - 1 ELSE connected[k][i]
    BY <1>2
  <2> QED
    BY <2>1, <2>2, <2>3, <2>4
<1> QED
  BY <1>3, <1>4, <1>5 DEF IInv

LEMMA AddSessionInv ==
    ASSUME IInv, NEW n \in Node, state[n] = "up",
           NEW i \in ID, NEW peer \in Endpoint,
           NEW rest, Traffic(rest), AddSession(n, i, peer, rest),
           nextID' \in [Node -> Nat], UNCHANGED <<addr, state, events>>
    PROVE  IInv'
<1>1. TypeInv
  BY DEF IInv
<1>2. connected' = [connected EXCEPT ![n][i] = @ + 1]
  BY DEF AddSession
<1>3. /\ connected' \in [Node -> [ID -> Int]]
      /\ \A k \in Node, j \in ID : connected'[k][j] =
            IF k = n /\ j = i THEN connected[k][j] + 1 ELSE connected[k][j]
  BY <1>1, <1>2 DEF TypeInv
<1>4. CASE i \in Open(n)
  <2>1. /\ net' = BagAdd(rest, Datagram("disconnect", n, peer, i))
        /\ refused' = [refused EXCEPT ![n][i] = @ + 1]
        /\ UNCHANGED <<sessions, heard>>
    BY <1>4 DEF AddSession
  <2>2. Traffic(net')
    <3>1. PICK d : d = Datagram("disconnect", n, peer, i)
      OBVIOUS
    <3>2. d.src \in Endpoint /\ d.type # "ack"
      BY <1>1, <3>1 DEF Datagram, TypeInv
    <3>3. Traffic(BagAdd(rest, d))
      BY <3>2, TrafficAdd
    <3> QED
      BY <2>1, <3>1, <3>3
  <2>3. /\ refused' \in [Node -> [ID -> Int]]
        /\ \A k \in Node, j \in ID : refused'[k][j] =
              IF k = n /\ j = i THEN refused[k][j] + 1 ELSE refused[k][j]
    BY <1>1, <2>1 DEF TypeInv
  <2>4. TypeInv'
    BY <1>1, <1>3, <2>1, <2>3 DEF TypeInv
  <2>5. ApplicationKnowsSessions'
    <3> SUFFICES ASSUME NEW k \in Node, NEW j \in ID, state'[k] = "up"
                 PROVE  connected'[k][j] = refused'[k][j] + (IF j \in Open(k)' THEN 1 ELSE 0)
      BY DEF ApplicationKnowsSessions
    <3>1. /\ connected[k][j] = refused[k][j] + (IF j \in Open(k) THEN 1 ELSE 0)
          /\ refused[k][j] \in Int
      BY <1>1 DEF IInv, ApplicationKnowsSessions, TypeInv
    <3>2. Open(k)' = Open(k)
      BY <2>1 DEF Open
    <3> QED
      BY <1>3, <2>3, <3>1, <3>2
  <2> QED
    BY <2>2, <2>4, <2>5 DEF IInv, Traffic, IsABag, Disconnects, BagToSet
<1>5. CASE i \notin Open(n)
  <2>1. /\ sessions' = [sessions EXCEPT ![n][i] = peer]
        /\ heard' = [heard EXCEPT ![n] = @ \cup {i}]
        /\ net' = rest /\ refused' = refused
    BY <1>5 DEF AddSession
  <2>2. /\ sessions' \in [Node -> [ID -> Endpoint \cup {NULL}]]
        /\ \A k \in Node, j \in ID :
              sessions'[k][j] = IF k = n /\ j = i THEN peer ELSE sessions[k][j]
    BY <1>1, <2>1 DEF TypeInv
  <2>3. TypeInv'
    BY <1>1, <1>3, <2>1, <2>2 DEF TypeInv
  <2>4. peer # NULL
    BY NetAssumption
  <2>5. \A k \in Node : Open(k)' = IF k = n THEN Open(n) \cup {i} ELSE Open(k)
    BY <2>2, <2>4 DEF Open
  <2>6. ApplicationKnowsSessions'
    <3> SUFFICES ASSUME NEW k \in Node, NEW j \in ID, state'[k] = "up"
                 PROVE  connected'[k][j] = refused'[k][j] + (IF j \in Open(k)' THEN 1 ELSE 0)
      BY DEF ApplicationKnowsSessions
    <3>1. /\ connected[k][j] = refused[k][j] + (IF j \in Open(k) THEN 1 ELSE 0)
          /\ refused'[k][j] = refused[k][j] /\ refused[k][j] \in Int
      BY <1>1, <2>1 DEF IInv, ApplicationKnowsSessions, TypeInv
    <3> QED
      BY <1>3, <1>5, <2>5, <3>1
  <2>7. Traffic(net)'
    BY <2>1 DEF Traffic, IsABag, Disconnects, BagToSet
  <2> QED
    BY <2>3, <2>6, <2>7 DEF IInv
<1> QED
  BY <1>4, <1>5

\* A step that touches only the traffic, the endpoints, the clocks and the count of events.
LEMMA QuietInv ==
    ASSUME IInv, Traffic(net'), addr' \in [Node -> Endpoint], heard' \in [Node -> SUBSET ID],
           events' \in Nat,
           UNCHANGED <<state, sessions, nextID, connected, refused>>
    PROVE  IInv'
<1>1. TypeInv'
  BY DEF IInv, TypeInv
<1>2. ApplicationKnowsSessions'
  BY DEF IInv, ApplicationKnowsSessions, Open
<1>3. Traffic(net)'
  BY DEF Traffic, IsABag, Disconnects, BagToSet
<1> QED
  BY <1>1, <1>2, <1>3 DEF IInv

\* A datagram that n sends.
LEMMA SentIsTraffic ==
    ASSUME TypeInv, NEW bag, Traffic(bag), NEW n \in Node, NEW t, NEW dst, NEW i,
           t = "ack" => i \in ID
    PROVE  Traffic(BagAdd(bag, Datagram(t, n, dst, i)))
<1>1. PICK d : d = Datagram(t, n, dst, i)
  OBVIOUS
<1>2. d.src \in Endpoint /\ d.type = t /\ d.id = i
  BY <1>1 DEF Datagram, TypeInv
<1>3. Traffic(BagAdd(bag, d))
  BY <1>2, TrafficAdd
<1> QED
  BY <1>1, <1>3

LEMMA ReceiveInv ==
    ASSUME IInv, NEW n \in Node, NEW m, Receive(n, m)
    PROVE  IInv'
<1>1. /\ m \in BagToSet(net) /\ state[n] = "up"
      /\ UNCHANGED <<addr, state, events>>
  BY DEF Receive, BagIn
<1>2. PICK rest : rest = BagRemove(net, m)
  OBVIOUS
<1>3. \/ HandleConnectPacket(n, m, rest)
      \/ HandleConnectAckPacket(n, m, rest)
      \/ HandleDisconnectPacket(n, m, rest)
      \/ HandlePacketKCP(n, m, rest)
  BY <1>2 DEF Receive
<1>4. TypeInv /\ Traffic(net)
  BY DEF IInv
<1>5. Traffic(rest)
  BY <1>1, <1>2, <1>4, TrafficRemove
<1>6. m.src \in Endpoint /\ (m.type = "ack" => m.id \in ID)
  BY <1>1, <1>4 DEF Traffic
<1>7. CASE HandleConnectPacket(n, m, rest)
  <2>1. /\ nextID[n] \in ID /\ nextID' = [nextID EXCEPT ![n] = @ + 1]
        /\ AddSession(n, nextID[n], m.src, BagAdd(rest, Datagram("ack", n, m.src, nextID[n])))
    BY <1>7 DEF HandleConnectPacket
  <2>2. nextID' \in [Node -> Nat]
    BY <1>4, <2>1 DEF TypeInv
  <2>3. Traffic(BagAdd(rest, Datagram("ack", n, m.src, nextID[n])))
    BY <1>4, <1>5, <2>1, SentIsTraffic
  <2> QED
    BY <1>1, <1>6, <2>1, <2>2, <2>3, AddSessionInv
<1>8. CASE HandleConnectAckPacket(n, m, rest)
  <2>1. m.type = "ack" /\ AddSession(n, m.id, m.src, rest) /\ UNCHANGED nextID
    BY <1>8 DEF HandleConnectAckPacket
  <2>2. nextID' \in [Node -> Nat]
    BY <1>4, <2>1 DEF TypeInv
  <2> QED
    BY <1>1, <1>5, <1>6, <2>1, <2>2, AddSessionInv
<1>9. CASE HandleDisconnectPacket(n, m, rest)
  <2>1. Close(n, {m.id} \cap Open(n), heard[n] \ {m.id}, rest) /\ UNCHANGED <<nextID, refused>>
    BY <1>9 DEF HandleDisconnectPacket
  <2>2. {m.id} \cap Open(n) \in SUBSET Open(n) /\ heard[n] \ {m.id} \in SUBSET ID
    BY <1>4 DEF TypeInv
  <2> QED
    BY <1>1, <1>5, <2>1, <2>2, CloseInv
<1>10. CASE HandlePacketKCP(n, m, rest)
  <2>1. /\ heard' = [heard EXCEPT ![n] = IF m.id \in Open(n) /\ sessions[n][m.id] = m.src
                                           THEN @ \cup {m.id} ELSE @]
        /\ net' = rest
        /\ UNCHANGED <<sessions, nextID, connected, refused>>
    BY <1>10 DEF HandlePacketKCP
  <2>2. heard' \in [Node -> SUBSET ID]
    BY <1>4, <2>1 DEF TypeInv, Open
  <2> QED
    BY <1>1, <1>4, <1>5, <2>1, <2>2, QuietInv DEF TypeInv
<1> QED
  BY <1>3, <1>7, <1>8, <1>9, <1>10

LEMMA StopAllInv ==
    ASSUME IInv, NEW n \in Node, StopAll(n)
    PROVE  IInv'
<1>1. TypeInv' /\ Traffic(net)'
  BY DEF IInv, TypeInv, StopAll, Traffic, IsABag, Disconnects, BagToSet
<1>2. ApplicationKnowsSessions'
  <2> SUFFICES ASSUME NEW k \in Node, NEW i \in ID, state'[k] = "up"
               PROVE  connected'[k][i] = refused'[k][i] + (IF i \in Open(k)' THEN 1 ELSE 0)
    BY DEF ApplicationKnowsSessions
  <2>1. k # n
    BY DEF IInv, TypeInv, StopAll
  <2>2. /\ state[k] = "up" /\ connected'[k][i] = connected[k][i]
        /\ refused'[k][i] = refused[k][i] /\ sessions'[k] = sessions[k]
    BY <2>1 DEF IInv, TypeInv, StopAll
  <2> QED
    BY <2>2 DEF IInv, ApplicationKnowsSessions, Open
<1> QED
  BY <1>1, <1>2 DEF IInv

LEMMA NextInv == IInv /\ [Next]_vars => IInv'
<1> SUFFICES ASSUME IInv, [Next]_vars PROVE IInv'
  OBVIOUS
<1>1. TypeInv /\ Traffic(net)
  BY DEF IInv
<1>2. ASSUME NEW n \in Node, NEW k \in Node, Connect(n, Home[k]) PROVE IInv'
  <2>1. Traffic(net')
    BY <1>1, <1>2, SentIsTraffic DEF Connect
  <2> QED
    BY <1>1, <1>2, <2>1, QuietInv DEF Connect, Event, nodeVars, TypeInv
<1>3. ASSUME NEW n \in Node, NEW e \in Endpoint, Roam(n, e) PROVE IInv'
  BY <1>1, <1>3, QuietInv DEF Roam, Event, nodeVars, TypeInv
<1>4. ASSUME NEW n \in Node, Tick(n) PROVE IInv'
  <2>1. TimedOut(n) \in SUBSET Open(n)
    BY DEF TimedOut
  <2>2. {} \in SUBSET ID
    OBVIOUS
  <2> QED
    BY <1>1, <1>4, <2>1, <2>2, CloseInv DEF Tick
<1>5. ASSUME NEW n \in Node, StopAll(n) PROVE IInv'
  BY <1>5, StopAllInv
<1>6. ASSUME NEW n \in Node, NEW S \in SUBSET Open(n), SetClock(n, S) PROVE IInv'
  <2>1. heard' \in [Node -> SUBSET ID]
    BY <1>1, <1>6 DEF SetClock, TypeInv, Open
  <2> QED
    BY <1>1, <1>6, <2>1, QuietInv DEF SetClock, Event, TypeInv
<1>7. ASSUME NEW n \in Node, NEW i \in ID, Disconnect(n, i) PROVE IInv'
  <2>1. {i} \in SUBSET Open(n) /\ heard[n] \ {i} \in SUBSET ID
    BY <1>1, <1>7 DEF Disconnect, TypeInv
  <2> QED
    BY <1>1, <1>7, <2>1, CloseInv DEF Disconnect
<1>8. ASSUME NEW n \in Node, NEW i \in ID, SendKCP(n, i) PROVE IInv'
  <2>1. Traffic(net')
    BY <1>1, <1>8, SentIsTraffic DEF SendKCP
  <2> QED
    BY <1>1, <1>8, <2>1, QuietInv DEF SendKCP, nodeVars, TypeInv
<1>9. ASSUME NEW m \in BagToSet(net), Lose(m) PROVE IInv'
  <2>1. Traffic(net')
    BY <1>1, <1>9, TrafficRemove DEF Lose
  <2> QED
    BY <1>1, <1>9, <2>1, QuietInv DEF Lose, nodeVars, TypeInv
<1>10. ASSUME NEW m \in BagToSet(net), NEW n \in Node, Receive(n, m) PROVE IInv'
  BY <1>10, ReceiveInv
<1>11. ASSUME NEW m \in BagToSet(net), Duplicate(m) PROVE IInv'
  <2>1. m.src \in Endpoint /\ (m.type = "ack" => m.id \in ID)
    BY <1>1 DEF Traffic
  <2>2. Traffic(net')
    BY <1>1, <1>11, <2>1, TrafficAdd DEF Duplicate
  <2> QED
    BY <1>1, <1>11, <2>2, QuietInv DEF Duplicate, Event, nodeVars, TypeInv
<1>12. CASE UNCHANGED vars
  BY <1>1, <1>12, QuietInv DEF vars, nodeVars, TypeInv
<1> QED
  BY <1>2, <1>3, <1>4, <1>5, <1>6, <1>7, <1>8, <1>9, <1>10, <1>11, <1>12 DEF Next, Arrive

-----------------------------------------------------------------------------
\* The inductive invariant holds of every behaviour of the handlers of
\* network_interface.cpp and session.cpp, whatever the network does.
THEOREM Invariance == Spec => []IInv
<1> QED
  BY InitInv, NextInv, PTL DEF Spec

\* What the application knows of the sessions: each one in the table was announced
\* once, each one that left it was announced gone, and the only ones it takes for
\* open and that are not are those that addSession refused, as many as there were
\* clashes of ids (network_interface.cpp:205, 214, 236).
THEOREM SessionsAreKnown == Spec => []ApplicationKnowsSessions
<1>1. IInv => ApplicationKnowsSessions
  BY DEF IInv
<1> QED
  BY Invariance, <1>1, PTL

-----------------------------------------------------------------------------
(* Disconnect packets *)

\* A packet that is received by HandleDisconnectPacket closes one session and
\* brings one packet, or closes none and brings none.
LEMMA DisconnectShrinks ==
    ASSUME IInv, NEW n \in Node, NEW m \in BagToSet(net),
           HandleDisconnectPacket(n, m, BagRemove(net, m))
    PROVE  Exchange' < Exchange
<1> DEFINE S     == {m.id} \cap Open(n)
           rest  == BagRemove(net, m)
           pairs == {x \in Node \X ID : x[2] \in Open(x[1])}
<1>1. TypeInv /\ Traffic(net)
  BY DEF IInv
<1>2. m.type = "disconnect" /\ Close(n, S, heard[n] \ {m.id}, rest)
  BY DEF HandleDisconnectPacket
<1>3. /\ Traffic(rest) /\ Cardinality(Disconnects(net)) \in Nat
      /\ Cardinality(Disconnects(rest)) = Cardinality(Disconnects(net)) - 1
  BY <1>1, <1>2, TrafficRemove
<1>4. S \in SUBSET Open(n) /\ heard[n] \ {m.id} \in SUBSET ID
  BY <1>1 DEF TypeInv
<1> HIDE DEF rest
<1>5. /\ Cardinality(Disconnects(net')) \in Nat
      /\ Cardinality(Disconnects(net')) <= Cardinality(Disconnects(rest)) + Cardinality(S)
      /\ \A k \in Node : Open(k)' = IF k = n THEN Open(n) \ S ELSE Open(k)
  <2>1. PICK K, stay, bag : K = S /\ stay = heard[n] \ {m.id} /\ bag = rest
    OBVIOUS
  <2>2. K \in SUBSET Open(n) /\ stay \in SUBSET ID /\ Traffic(bag) /\ Close(n, K, stay, bag)
    BY <1>2, <1>3, <1>4, <2>1
  <2>3. /\ Cardinality(Disconnects(net')) \in Nat
        /\ Cardinality(Disconnects(net')) <= Cardinality(Disconnects(bag)) + Cardinality(K)
        /\ \A k \in Node : Open(k)' = IF k = n THEN Open(n) \ K ELSE Open(k)
    BY <1>1, <2>2, CloseFacts
  <2> QED
    BY <2>1, <2>3
<1>6. pairs \in SUBSET (Node \X ID)
  OBVIOUS
<1>7. IsFiniteSet(pairs) /\ Cardinality(pairs) \in Nat
  BY <1>6, IDFacts, FS_Subset, FS_CardinalityType
<1>8. pairs' = {x \in pairs : ~(x[1] = n /\ x[2] \in S)}
  BY <1>5
<1>9. /\ Exchange = 2 * Cardinality(pairs) + Cardinality(Disconnects(net))
      /\ Exchange' = 2 * Cardinality(pairs') + Cardinality(Disconnects(net'))
  BY DEF Exchange, Disconnects
<1>10. CASE m.id \in Open(n)
  <2>1. S = {m.id} /\ Cardinality(S) = 1
    <3>1. S = {m.id}
      BY <1>10
    <3> HIDE DEF S
    <3> QED
      BY <3>1, FS_Singleton, Zenon
  <2>2. <<n, m.id>> \in pairs
    BY <1>10 DEF Open
  <2>3. pairs' = pairs \ {<<n, m.id>>}
    BY <1>6, <1>8, <2>1
  <2> HIDE DEF pairs, S
  <2>4. Cardinality(pairs') = Cardinality(pairs) - 1
    BY <1>7, <2>2, <2>3, FS_RemoveElement
  <2> QED
    BY <1>3, <1>5, <1>7, <1>9, <2>1, <2>4
<1>11. CASE m.id \notin Open(n)
  <2>1. S = {} /\ Cardinality(S) = 0
    BY <1>11, FS_EmptySet
  <2>2. pairs' = pairs
    BY <1>8, <2>1
  <2> HIDE DEF pairs, S
  <2> QED
    BY <1>3, <1>5, <1>7, <1>9, <2>1, <2>2
<1> QED
  BY <1>10, <1>11

\* Copies of a packet do not become fewer when others come in.
LEMMA CopiesStay ==
    ASSUME NEW B, IsABag(B), NEW m
    PROVE  /\ \A x : Copies(m, BagAdd(B, x)) >= Copies(m, B) /\ IsABag(BagAdd(B, x))
           /\ \A S : Copies(m, B (+) SetToBag(S)) >= Copies(m, B)
           /\ \A x \in BagToSet(B) : m # x => Copies(m, BagRemove(B, x)) = Copies(m, B)
<1>1. Copies(m, B) \in Nat
  BY CopiesFacts
<1>2. ASSUME NEW x PROVE Copies(m, BagAdd(B, x)) >= Copies(m, B) /\ IsABag(BagAdd(B, x))
  <2>1. Copies(m, BagAdd(B, x)) = Copies(m, B) + (IF m = x THEN 1 ELSE 0)
    BY AddFacts
  <2> QED
    BY <1>1, <2>1, AddFacts
<1>3. ASSUME NEW S PROVE Copies(m, B (+) SetToBag(S)) >= Copies(m, B)
  <2>1. Copies(m, B (+) SetToBag(S)) = Copies(m, B) + (IF m \in S THEN 1 ELSE 0)
    BY PlusFacts
  <2> QED
    BY <1>1, <2>1
<1>4. ASSUME NEW x \in BagToSet(B), m # x PROVE Copies(m, BagRemove(B, x)) = Copies(m, B)
  <2>1. Copies(m, BagRemove(B, x)) = Copies(m, B) - (IF m = x THEN 1 ELSE 0)
    BY RemoveFacts
  <2> QED
    BY <1>1, <1>4, <2>1
<1> QED
  BY <1>2, <1>3, <1>4

\* Only its loss or its receipt makes the copies of a disconnect packet fewer.
LEMMA FewerCopies ==
    ASSUME IInv, [Next]_vars, NEW m \in BagToSet(net), m.type = "disconnect",
           Copies(m, net') < Copies(m, net)
    PROVE  Lose(m) \/ \E n \in Node : HandleDisconnectPacket(n, m, BagRemove(net, m))
<1>1. IsABag(net)
  BY DEF IInv, Traffic
<1>2. Copies(m, net) \in Nat /\ Copies(m, net') # Copies(m, net)
  BY <1>1, CopiesFacts
<1>3. ASSUME NEW x, net' = BagAdd(net, x) PROVE FALSE
  BY <1>1, <1>2, <1>3, CopiesFacts, CopiesStay
<1>4. ASSUME NEW S, net' = net (+) SetToBag(S) PROVE FALSE
  <2>1. Copies(m, net') >= Copies(m, net)
    BY <1>1, <1>4, CopiesStay
  <2>2. Copies(m, net') \in Nat
    BY <1>1, <1>4, PlusFacts, CopiesFacts
  <2> QED
    BY <1>2, <2>1, <2>2
<1>5. ASSUME NEW x \in BagToSet(net), Lose(x) PROVE Lose(m)
  <2>1. m = x
    BY <1>1, <1>2, <1>5, CopiesStay DEF Lose
  <2> QED
    BY <1>5, <2>1
<1>6. ASSUME NEW x \in BagToSet(net), NEW n \in Node, Receive(n, x)
      PROVE  HandleDisconnectPacket(n, m, BagRemove(net, m))
  <2> DEFINE rest == BagRemove(net, x)
  <2>1. IsABag(rest) /\ (x # m => Copies(m, rest) = Copies(m, net))
    BY <1>1, RemoveFacts, CopiesStay
  <2> HIDE DEF rest
  <2>2. ASSUME x # m, NEW bag, IsABag(bag), Copies(m, bag) >= Copies(m, net), NEW i, NEW peer,
               AddSession(n, i, peer, bag)
        PROVE  FALSE
    <3>1. net' = bag \/ net' = BagAdd(bag, Datagram("disconnect", n, peer, i))
      BY <2>2 DEF AddSession
    <3>2. Copies(m, bag) \in Nat
      BY <2>2, CopiesFacts
    <3>3. Copies(m, net') >= Copies(m, bag) /\ Copies(m, net') \in Nat
      BY <2>2, <3>1, <3>2, CopiesStay, CopiesFacts
    <3> QED
      BY <1>2, <2>2, <3>2, <3>3
  <2>3. ~HandleConnectPacket(n, x, rest)
    <3> SUFFICES ASSUME HandleConnectPacket(n, x, rest) PROVE FALSE
      OBVIOUS
    <3>1. PICK bag : bag = BagAdd(rest, Datagram("ack", n, x.src, nextID[n]))
      OBVIOUS
    <3>2. x # m /\ AddSession(n, nextID[n], x.src, bag)
      BY <3>1 DEF HandleConnectPacket
    <3>3. IsABag(bag) /\ Copies(m, bag) >= Copies(m, net)
      BY <2>1, <3>1, <3>2, CopiesStay
    <3> QED
      BY <2>2, <3>2, <3>3
  <2>4. ~HandleConnectAckPacket(n, x, rest)
    <3> SUFFICES ASSUME HandleConnectAckPacket(n, x, rest) PROVE FALSE
      OBVIOUS
    <3>1. x # m /\ AddSession(n, x.id, x.src, rest)
      BY DEF HandleConnectAckPacket
    <3>2. Copies(m, rest) >= Copies(m, net)
      BY <1>2, <2>1, <3>1
    <3> QED
      BY <2>1, <2>2, <3>1, <3>2
  <2>5. ~HandlePacketKCP(n, x, rest)
    <3> SUFFICES ASSUME HandlePacketKCP(n, x, rest) PROVE FALSE
      OBVIOUS
    <3>1. x # m /\ net' = rest
      BY DEF HandlePacketKCP
    <3> QED
      BY <1>2, <2>1, <3>1
  <2>6. HandleDisconnectPacket(n, x, rest)
    BY <1>6, <2>3, <2>4, <2>5 DEF Receive, rest
  <2>7. x = m
    <3> SUFFICES ASSUME x # m PROVE FALSE
      OBVIOUS
    <3>1. PICK S : net' = rest (+) SetToBag(S)
      BY <2>6 DEF HandleDisconnectPacket, Close
    <3>2. Copies(m, net') >= Copies(m, rest) /\ Copies(m, net') \in Nat
      BY <2>1, <3>1, CopiesStay, PlusFacts, CopiesFacts
    <3> QED
      BY <1>2, <2>1, <3>2
  <2> QED
    BY <2>6, <2>7 DEF rest
<1>7. ASSUME net' = net PROVE FALSE
  BY <1>2, <1>7
<1>8. ~UNCHANGED vars
  BY <1>7 DEF vars
<1>9. \A n, k \in Node : ~Connect(n, Home[k])
  BY <1>3 DEF Connect
<1>10. \A n \in Node, e \in Endpoint : ~Roam(n, e)
  BY <1>7 DEF Roam
<1>11. \A n \in Node : ~Tick(n) /\ ~StopAll(n) /\ \A S \in SUBSET Open(n) : ~SetClock(n, S)
  BY <1>4, <1>7 DEF Tick, Close, StopAll, SetClock
<1>12. \A n \in Node, i \in ID : ~Disconnect(n, i) /\ ~SendKCP(n, i)
  BY <1>3, <1>4 DEF Disconnect, Close, SendKCP
<1>13. \A x \in BagToSet(net) : ~Duplicate(x)
  BY <1>3 DEF Duplicate
<1> QED
  BY <1>5, <1>6, <1>8, <1>9, <1>10, <1>11, <1>12, <1>13 DEF Next, Arrive

LEMMA LossShrinks ==
    ASSUME IInv, NEW m \in BagToSet(net), m.type = "disconnect", Lose(m)
    PROVE  Exchange' < Exchange
<1> DEFINE pairs == {x \in Node \X ID : x[2] \in Open(x[1])}
<1>1. /\ Cardinality(Disconnects(net)) \in Nat
      /\ Cardinality(Disconnects(net')) = Cardinality(Disconnects(net)) - 1
  BY TrafficRemove DEF IInv, Lose
<1>2. pairs' = pairs
  BY DEF Lose, nodeVars, Open
<1>3. IsFiniteSet(pairs) /\ Cardinality(pairs) \in Nat
  BY IDFacts, FS_Subset, FS_CardinalityType
<1>4. /\ Exchange = 2 * Cardinality(pairs) + Cardinality(Disconnects(net))
      /\ Exchange' = 2 * Cardinality(pairs') + Cardinality(Disconnects(net'))
  BY DEF Exchange, Disconnects
<1> HIDE DEF pairs
<1> QED
  BY <1>1, <1>2, <1>3, <1>4

\* Disconnect packets do not answer each other for ever, although a session that
\* one of them closes sends one back (session.cpp:32): whenever one is received or
\* lost, less of the exchange is left.
THEOREM ExchangeTerminates == Spec => ExchangeEnds
<1>1. ASSUME IInv, [Next]_vars, NEW m \in BagToSet(net),
             m.type = "disconnect", Copies(m, net') < Copies(m, net)
      PROVE  Exchange' < Exchange
  BY <1>1, FewerCopies, DisconnectShrinks, LossShrinks
<1>2. IInv /\ [Next]_vars =>
        [\A m \in BagToSet(net) :
            m.type = "disconnect" /\ Copies(m, net') < Copies(m, net) => Exchange' < Exchange]_vars
  BY <1>1
<1> QED
  BY Invariance, <1>2, PTL DEF Spec, ExchangeEnds
=============================================================================
