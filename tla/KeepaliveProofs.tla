-------------------------- MODULE KeepaliveProofs ---------------------------
(***************************************************************************)
(* Proofs about Keepalive: its queues are a partition of the items in all  *)
(* circumstances; its pointers agree with each other, and it implements    *)
(* the abstract pool, as long as scripts close their sockets once and      *)
(* before they connect them again, and nginx has connection slots.         *)
(***************************************************************************)
EXTENDS Keepalive, FiniteSetTheorems, FunctionTheorems, SequenceTheorems, TLAPS

-----------------------------------------------------------------------------
(* The queue operations.                                                   *)

LEMMA InsertHeadProps ==
  ASSUME NEW S, NEW q \in Seq(S), NEW x \in S
  PROVE  /\ InsertHead(q, x) \in Seq(S)
         /\ Linked(InsertHead(q, x)) = Linked(q) \cup {x}
         /\ Simple(q) /\ x \notin Linked(q) => Simple(InsertHead(q, x))
<1> DEFINE h == InsertHead(q, x)
<1>1. /\ Len(q) \in Nat /\ DOMAIN q = 1 .. Len(q)
      /\ DOMAIN h = 1 .. (Len(q) + 1)
      /\ h[1] = x
      /\ \A i \in 1 .. Len(q) : h[i + 1] = q[i] /\ q[i] \in S
  BY DEF InsertHead
<1>2. \A i \in DOMAIN h : i = 1 \/ (i - 1 \in 1 .. Len(q) /\ h[i] = q[i - 1])
  BY <1>1 DEF InsertHead
<1>3. h \in Seq(S)
  <2>1. \A i \in 1 .. (Len(q) + 1) : h[i] \in S
    BY <1>1, <1>2
  <2> QED BY <1>1, <2>1 DEF InsertHead
<1>4. Linked(h) = Linked(q) \cup {x}
  <2>1. ASSUME NEW i \in DOMAIN h PROVE h[i] \in Linked(q) \cup {x}
    BY <1>1, <1>2 DEF Linked
  <2>2. x \in Linked(h)
    BY <1>1 DEF Linked
  <2>3. ASSUME NEW i \in DOMAIN q PROVE q[i] \in Linked(h)
    <3>1. i + 1 \in DOMAIN h /\ h[i + 1] = q[i]
      BY <1>1
    <3> QED BY <3>1 DEF Linked
  <2> QED BY <2>1, <2>2, <2>3 DEF Linked
<1>5. ASSUME Simple(q), x \notin Linked(q) PROVE Simple(h)
  BY <1>1, <1>2, <1>5 DEF Simple, Linked
<1> QED BY <1>3, <1>4, <1>5

LEMMA UnlinkProps ==
  ASSUME NEW S, NEW q \in Seq(S), Simple(q), NEW x
  PROVE  /\ Unlink(q, x) \in Seq(S)
         /\ Linked(Unlink(q, x)) = Linked(q) \ {x}
         /\ Simple(Unlink(q, x))
<1>1. CASE x \notin Linked(q)
  BY <1>1 DEF Unlink, Linked
<1>2. CASE x \in Linked(q)
  <2> DEFINE k == CHOOSE i \in DOMAIN q : q[i] = x
             u == [i \in 1 .. (Len(q) - 1) |-> IF i < k THEN q[i] ELSE q[i + 1]]
  <2>1. Unlink(q, x) = u
    BY <1>2 DEF Unlink
  <2>2. k \in DOMAIN q /\ q[k] = x
    BY <1>2 DEF Linked
  <2> HIDE DEF k
  <2>3. /\ Len(q) \in Nat /\ DOMAIN q = 1 .. Len(q) /\ k \in 1 .. Len(q)
        /\ \A i \in 1 .. Len(q) : q[i] \in S
    BY <2>2
  <2>4. ASSUME NEW i \in 1 .. (Len(q) - 1)
        PROVE  \/ i < k /\ u[i] = q[i] /\ i \in 1 .. Len(q)
               \/ i >= k /\ u[i] = q[i + 1] /\ i + 1 \in 1 .. Len(q)
    BY <2>3
  <2>5. u \in Seq(S)
    <3>1. \A i \in 1 .. (Len(q) - 1) : u[i] \in S
      BY <2>3, <2>4
    <3>2. Len(q) - 1 \in Nat
      BY <2>3
    <3> QED BY <3>1, <3>2
  <2>6. Linked(u) = Linked(q) \ {x}
    <3>1. ASSUME NEW i \in DOMAIN u PROVE u[i] \in Linked(q) \ {x}
      <4>1. PICK j \in DOMAIN q : u[i] = q[j] /\ j # k
        BY <2>3, <2>4
      <4> QED BY <2>2, <4>1 DEF Simple, Linked
    <3>2. ASSUME NEW i \in DOMAIN q, q[i] # x PROVE q[i] \in Linked(u)
      <4>1. i # k
        BY <2>2, <3>2
      <4>2. CASE i < k
        <5>1. i \in DOMAIN u /\ u[i] = q[i]
          BY <2>3, <4>2
        <5> QED BY <5>1 DEF Linked
      <4>3. CASE i > k
        <5>1. i - 1 \in DOMAIN u /\ u[i - 1] = q[i]
          BY <2>3, <4>3
        <5> QED BY <5>1 DEF Linked
      <4> QED BY <2>3, <4>1, <4>2, <4>3
    <3> QED BY <3>1, <3>2 DEF Linked
  <2>7. Simple(u)
    <3> SUFFICES ASSUME NEW i \in DOMAIN u, NEW j \in DOMAIN u, u[i] = u[j]
                 PROVE  i = j
      BY DEF Simple
    <3>1. i \in 1 .. (Len(q) - 1) /\ j \in 1 .. (Len(q) - 1)
      OBVIOUS
    <3> HIDE DEF u
    <3>2. CASE i < k /\ j < k
      BY <2>3, <2>4, <3>1, <3>2 DEF Simple
    <3>3. CASE i >= k /\ j >= k
      <4>1. q[i + 1] = q[j + 1] /\ i + 1 \in DOMAIN q /\ j + 1 \in DOMAIN q
        BY <2>3, <2>4, <3>1, <3>3
      <4> QED BY <3>1, <4>1 DEF Simple
    <3>4. CASE i < k /\ j >= k
      <4>1. q[i] = q[j + 1] /\ i \in DOMAIN q /\ j + 1 \in DOMAIN q
        BY <2>3, <2>4, <3>1, <3>4
      <4> QED BY <2>3, <3>1, <3>4, <4>1 DEF Simple
    <3>5. CASE i >= k /\ j < k
      <4>1. q[i + 1] = q[j] /\ i + 1 \in DOMAIN q /\ j \in DOMAIN q
        BY <2>3, <2>4, <3>1, <3>5
      <4> QED BY <2>3, <3>1, <3>5, <4>1 DEF Simple
    <3> QED BY <2>3, <3>1, <3>2, <3>3, <3>4, <3>5
  <2> QED BY <2>1, <2>5, <2>6, <2>7
<1> QED BY <1>1, <1>2

\* An element moves from one queue to the head of the other.
LEMMA MoveProps ==
  ASSUME NEW from \in Seq(Item), NEW to \in Seq(Item), NEW x \in Linked(from),
         Simple(from), Simple(to),
         Linked(from) \cap Linked(to) = {}, Linked(from) \cup Linked(to) = Item
  PROVE  /\ Unlink(from, x) \in Seq(Item) /\ InsertHead(to, x) \in Seq(Item)
         /\ Simple(Unlink(from, x)) /\ Simple(InsertHead(to, x))
         /\ Linked(Unlink(from, x)) = Linked(from) \ {x}
         /\ Linked(InsertHead(to, x)) = Linked(to) \cup {x}
<1>1. x \in Item /\ x \notin Linked(to)
  OBVIOUS
<1> QED BY <1>1, InsertHeadProps, UnlinkProps

-----------------------------------------------------------------------------
(* The partition of the items, whatever fails.                             *)

QueueInv == cache \in Seq(Item) /\ free \in Seq(Item) /\ Partition

LEMMA QueueInit == Init => QueueInv
<1> SUFFICES ASSUME Init PROVE QueueInv
  OBVIOUS
<1>1. MaxCached \in Nat
  BY KeepaliveAssumption
<1>2. cache = <<>> /\ cache \in Seq(Item) /\ Linked(cache) = {} /\ Simple(cache)
  BY DEF Init, Linked, Simple
<1>3. free = [i \in 1 .. MaxCached |-> MaxCached + 1 - i]
  BY DEF Init, Item
<1>4. free \in Seq(Item)
  BY <1>1, <1>3 DEF Item
<1>5. Simple(free)
  BY <1>1, <1>3 DEF Simple
<1>6. Linked(free) = Item
  <2>1. ASSUME NEW i \in Item PROVE i \in Linked(free)
    <3>1. MaxCached + 1 - i \in DOMAIN free /\ free[MaxCached + 1 - i] = i
      BY <1>1, <1>3 DEF Item
    <3> QED BY <3>1 DEF Linked
  <2>2. Linked(free) \subseteq Item
    BY <1>1, <1>3 DEF Linked, Item
  <2> QED BY <2>1, <2>2
<1> QED BY <1>2, <1>4, <1>5, <1>6 DEF QueueInv, Partition

LEMMA QueueStep ==
  ASSUME QueueInv, [Next]_vars
  PROVE  QueueInv'
<1> USE DEF QueueInv, Partition
<1>1. ASSUME NEW p \in Peer, NEW a \in Addr, GetCachedPeer(p, a) PROVE QueueInv'
  <2>1. PICK i \in DOMAIN cache :
          cache' = Unlink(cache, cache[i]) /\ free' = InsertHead(free, cache[i])
    BY <1>1 DEF GetCachedPeer
  <2>2. cache[i] \in Linked(cache)
    BY DEF Linked
  <2> QED BY <2>1, <2>2, MoveProps
<1>2. ASSUME NEW p \in Peer, FreePeer(p) PROVE QueueInv'
  <2>1. QueueHead(free) \in Linked(free)
    BY <1>2 DEF FreePeer, QueueHead, Linked
  <2> QED BY <1>2, <2>1, MoveProps DEF FreePeer
<1>3. ASSUME NEW p \in Peer, FreePeerEvicting(p) PROVE QueueInv'
  <2> DEFINE i == QueueLast(cache)
  <2>1. MaxCached \in Nat /\ MaxCached > 0
    BY <1>3, KeepaliveAssumption DEF FreePeerEvicting, CanFree
  <2>2. cache # <<>>
    BY <1>3, <2>1 DEF FreePeerEvicting, Linked, Item
  <2>3. i \in Linked(cache) /\ i \in Item
    BY <2>2 DEF QueueLast, Linked
  <2>4. cache' = InsertHead(Unlink(cache, i), i) /\ free' = free
    BY <1>3 DEF FreePeerEvicting
  <2>5. /\ Unlink(cache, i) \in Seq(Item) /\ Simple(Unlink(cache, i))
        /\ Linked(Unlink(cache, i)) = Linked(cache) \ {i}
    BY UnlinkProps
  <2>6. /\ cache' \in Seq(Item) /\ Simple(cache')
        /\ Linked(cache') = (Linked(cache) \ {i}) \cup {i}
    BY <2>3, <2>4, <2>5, InsertHeadProps
  <2> HIDE DEF i
  <2>7. Linked(cache') = Linked(cache)
    BY <2>3, <2>6
  <2>8. Linked(free') = Linked(free) /\ Simple(free')
    BY <2>4
  <2> QED BY <2>4, <2>6, <2>7, <2>8
<1>4. ASSUME NEW c \in Conn, CloseHandler(c) PROVE QueueInv'
  <2> DEFINE i == data[c]
  <2>1. /\ i \in Item
        /\ cache' = Unlink(cache, i) /\ free' = InsertHead(Unlink(free, i), i)
    BY <1>4 DEF CloseHandler
  <2> HIDE DEF i
  <2>2. /\ cache' \in Seq(Item) /\ Simple(cache') /\ Linked(cache') = Linked(cache) \ {i}
        /\ Unlink(free, i) \in Seq(Item) /\ Simple(Unlink(free, i))
        /\ Linked(Unlink(free, i)) = Linked(free) \ {i}
    BY <2>1, UnlinkProps
  <2>3. /\ free' \in Seq(Item) /\ Simple(free')
        /\ Linked(free') = (Linked(free) \ {i}) \cup {i}
    BY <2>1, <2>2, InsertHeadProps
  <2> QED BY <2>1, <2>2, <2>3
<1>5. CASE UNCHANGED poolVars
  BY <1>5 DEF poolVars, Linked, Simple
<1>6. UNCHANGED vars => UNCHANGED poolVars
  BY DEF vars
<1>7. ASSUME NEW p \in Peer, NEW a \in Addr, NEW c \in Conn,
             \/ OpenPeer(p, a, c) \/ ConnectFails(p, a) \/ CloseConnection(p)
             \/ ServerEof(c) \/ SocketEvent(c)
      PROVE  UNCHANGED poolVars
  BY <1>7 DEF OpenPeer, ConnectFails, CloseConnection, ServerEof, SocketEvent
<1> QED BY <1>1, <1>2, <1>3, <1>4, <1>5, <1>6, <1>7 DEF Next, OpenPeer,
          ConnectFails, CloseConnection, ServerEof, SocketEvent

(***************************************************************************)
(* No item is ever lost or linked twice, for any number of items, sockets  *)
(* and addresses, with events that cannot be re-armed and sockets that are *)
(* connected again without a close.                                        *)
(***************************************************************************)
THEOREM ItemsPartitioned == Spec => []Partition
<1>1. Spec => Init /\ [][Next]_vars
  BY DEF Spec
<1>2. QueueInv => Partition
  BY DEF QueueInv
<1> QED BY <1>1, <1>2, QueueInit, QueueStep, PTL

-----------------------------------------------------------------------------
(* The types.                                                              *)

LEMMA TypeInit == Init => TypeOK
<1> SUFFICES ASSUME Init PROVE TypeOK
  OBVIOUS
<1>1. cache \in Seq(Item) /\ free \in Seq(Item)
  BY QueueInit DEF QueueInv
<1> QED BY <1>1 DEF Init, TypeOK

LEMMA TypeStep ==
  ASSUME TypeOK, QueueInv, [Next]_vars
  PROVE  TypeOK'
<1>1. cache' \in Seq(Item) /\ free' \in Seq(Item)
  BY QueueStep DEF QueueInv
<1> USE <1>1 DEF poolVars, connVars, peerVars
<1>2. ASSUME NEW p \in Peer, NEW a \in Addr, GetCachedPeer(p, a) PROVE TypeOK'
  <2>1. PICK i \in DOMAIN cache :
          LET c == itemConn[cache[i]]
          IN  /\ data' = [data EXCEPT ![c] = p]
              /\ pcConn' = [pcConn EXCEPT ![p] = c]
    BY <1>2 DEF GetCachedPeer
  <2>2. itemConn[cache[i]] \in Conn \cup {NULL}
    BY DEF TypeOK
  <2> QED BY <1>2, <2>1, <2>2 DEF GetCachedPeer, TypeOK
<1>3. ASSUME NEW p \in Peer, NEW a \in Addr, NEW c \in Conn, OpenPeer(p, a, c) PROVE TypeOK'
  BY <1>3 DEF OpenPeer, TypeOK
<1>4. ASSUME NEW p \in Peer, NEW a \in Addr, ConnectFails(p, a) PROVE TypeOK'
  BY <1>4 DEF ConnectFails, TypeOK
<1>5. ASSUME NEW p \in Peer, FreePeer(p) PROVE TypeOK'
  <2>1. QueueHead(free) \in Item
    BY <1>5 DEF FreePeer, QueueHead, TypeOK
  <2> QED BY <1>5, <2>1 DEF FreePeer, StoreIn, TypeOK
<1>6. ASSUME NEW p \in Peer, FreePeerEvicting(p) PROVE TypeOK'
  <2>1. QueueLast(cache) \in Item
    <3>1. MaxCached \in Nat /\ MaxCached > 0
      BY <1>6, KeepaliveAssumption DEF FreePeerEvicting, CanFree
    <3>2. Linked(cache) = Item
      BY <1>6 DEF FreePeerEvicting, QueueInv, Partition, Linked
    <3>3. cache # <<>>
      BY <3>1, <3>2 DEF Linked, Item
    <3> QED BY <3>3 DEF QueueLast, TypeOK
  <2> QED BY <1>6, <2>1 DEF FreePeerEvicting, StoreIn, Close, TypeOK
<1>7. ASSUME NEW p \in Peer, CloseConnection(p) PROVE TypeOK'
  BY <1>7 DEF CloseConnection, Close, TypeOK
<1>8. ASSUME NEW c \in Conn, ServerEof(c) \/ SocketEvent(c) \/ CloseHandler(c) PROVE TypeOK'
  BY <1>8 DEF ServerEof, SocketEvent, CloseHandler, Close, TypeOK
<1>9. CASE UNCHANGED vars
  BY <1>9 DEF vars, TypeOK
<1> QED BY <1>2, <1>3, <1>4, <1>5, <1>6, <1>7, <1>8, <1>9 DEF Next

\* The variables of the pool keep their types, whatever fails.
THEOREM TypeCorrect == Spec => []TypeOK
<1>1. Spec => Init /\ [][Next]_vars
  BY DEF Spec
<1> QED BY <1>1, QueueInit, QueueStep, TypeInit, TypeStep, PTL

-----------------------------------------------------------------------------
(* The ownership of connections.                                           *)

\* Sockets are used as they are meant to be.
Disciplined == ~Careless /\ ~SlotFailures

CachedInv(i) ==
  i \in Cached =>
    /\ itemConn[i] \in Conn /\ open[itemConn[i]] /\ data[itemConn[i]] = i
    /\ remote[itemConn[i]] = itemAddr[i]

HeldInv(p) ==
  Holds(p) =>
    open[pcConn[p]] /\ data[pcConn[p]] = p /\ remote[pcConn[p]] = pcAddr[p]

OwnerInv(c) ==
  open[c] =>
    \/ data[c] \in Peer /\ pcConn[data[c]] = c /\ pcAddr[data[c]] # NULL
    \/ data[c] \in Cached /\ itemConn[data[c]] = c

OwnInv ==
  /\ TypeOK /\ QueueInv
  /\ \A i \in Item : CachedInv(i)
  /\ \A p \in Peer : HeldInv(p)
  /\ \A c \in Conn : OwnerInv(c)

LEMMA OwnInit == Init => OwnInv
<1> SUFFICES ASSUME Init PROVE OwnInv
  OBVIOUS
<1>1. TypeOK /\ QueueInv
  BY TypeInit, QueueInit
<1> QED BY <1>1, KeepaliveAssumption DEF Init, OwnInv, CachedInv, HeldInv, Holds,
          OwnerInv, Cached, Linked

LEMMA CloseConnectionOwn ==
  ASSUME Disciplined, OwnInv, NEW p \in Peer, CloseConnection(p), TypeOK', QueueInv'
  PROVE  OwnInv'
<1> DEFINE c == pcConn[p]
<1>1. /\ open' = [open EXCEPT ![c] = FALSE] /\ remote' = [remote EXCEPT ![c] = NULL]
      /\ data' = [data EXCEPT ![c] = NULL] /\ pcAddr' = [pcAddr EXCEPT ![p] = NULL]
      /\ UNCHANGED <<cache, itemConn, itemAddr, pcConn>>
  BY DEF CloseConnection, Close, poolVars
<1>2. Holds(p) /\ c \in Conn /\ data[c] = p
  BY DEF CloseConnection, Disciplined, Holds, OwnInv, TypeOK, HeldInv
<1> HIDE DEF c
<1>3. ASSUME NEW j \in Item PROVE CachedInv(j)'
  BY <1>1, <1>2, KeepaliveAssumption DEF OwnInv, TypeOK, CachedInv, Cached
<1>4. ASSUME NEW q \in Peer PROVE HeldInv(q)'
  BY <1>1, <1>2 DEF OwnInv, TypeOK, HeldInv, Holds, c
<1>5. ASSUME NEW d \in Conn PROVE OwnerInv(d)'
  BY <1>1, <1>2, KeepaliveAssumption DEF OwnInv, TypeOK, OwnerInv, Cached, c
<1> QED BY <1>3, <1>4, <1>5 DEF OwnInv

LEMMA GetCachedOwn ==
  ASSUME Disciplined, OwnInv, NEW p \in Peer, NEW a \in Addr, GetCachedPeer(p, a),
         TypeOK', QueueInv'
  PROVE  OwnInv'
<1>1. PICK k \in DOMAIN cache :
        /\ itemAddr[cache[k]] = a
        /\ cache' = Unlink(cache, cache[k])
        /\ data' = [data EXCEPT ![itemConn[cache[k]]] = p]
        /\ pcConn' = [pcConn EXCEPT ![p] = itemConn[cache[k]]]
  BY DEF GetCachedPeer, Matches
<1> DEFINE i == cache[k]
           c == itemConn[i]
<1>2. /\ i \in Item /\ i \in Cached /\ c \in Conn /\ open[c] /\ data[c] = i
      /\ remote[c] = a
  BY <1>1 DEF OwnInv, TypeOK, CachedInv, Cached, Linked
<1>3. Cached' = Cached \ {i}
  BY <1>1, UnlinkProps DEF OwnInv, QueueInv, Partition, Cached
<1>4. /\ pcAddr' = [pcAddr EXCEPT ![p] = a]
      /\ UNCHANGED <<itemConn, itemAddr, open, remote>>
      /\ ~Holds(p)
  BY DEF GetCachedPeer, MayConnect, Disciplined
<1> HIDE DEF i, c
<1>5. /\ cache' = Unlink(cache, i) /\ data' = [data EXCEPT ![c] = p]
      /\ pcConn' = [pcConn EXCEPT ![p] = c] /\ itemConn[i] = c
  BY <1>1 DEF i, c
<1>6. ASSUME NEW j \in Item PROVE CachedInv(j)'
  BY <1>2, <1>3, <1>4, <1>5 DEF OwnInv, TypeOK, CachedInv
<1>7. ASSUME NEW q \in Peer PROVE HeldInv(q)'
  BY <1>2, <1>4, <1>5, KeepaliveAssumption DEF OwnInv, TypeOK, HeldInv, Holds
<1>8. ASSUME NEW d \in Conn PROVE OwnerInv(d)'
  BY <1>2, <1>3, <1>4, <1>5, KeepaliveAssumption DEF OwnInv, TypeOK, OwnerInv, Holds
<1> QED BY <1>6, <1>7, <1>8 DEF OwnInv

LEMMA OpenPeerOwn ==
  ASSUME Disciplined, OwnInv, NEW p \in Peer, NEW a \in Addr, NEW c \in Conn,
         OpenPeer(p, a, c), TypeOK', QueueInv'
  PROVE  OwnInv'
<1>1. /\ open' = [open EXCEPT ![c] = TRUE] /\ data' = [data EXCEPT ![c] = p]
      /\ remote' = [remote EXCEPT ![c] = a] /\ pcConn' = [pcConn EXCEPT ![p] = c]
      /\ pcAddr' = [pcAddr EXCEPT ![p] = a] /\ UNCHANGED <<cache, itemConn, itemAddr>>
      /\ ~open[c] /\ ~Holds(p)
  BY DEF OpenPeer, poolVars, MayConnect, Disciplined
<1>2. ASSUME NEW j \in Item PROVE CachedInv(j)'
  BY <1>1 DEF OwnInv, TypeOK, CachedInv, Cached
<1>3. ASSUME NEW q \in Peer PROVE HeldInv(q)'
  BY <1>1, KeepaliveAssumption DEF OwnInv, TypeOK, HeldInv, Holds
<1>4. ASSUME NEW d \in Conn PROVE OwnerInv(d)'
  BY <1>1, KeepaliveAssumption DEF OwnInv, TypeOK, OwnerInv, Holds, Cached
<1> QED BY <1>2, <1>3, <1>4 DEF OwnInv

LEMMA FreePeerOwn ==
  ASSUME Disciplined, OwnInv, NEW p \in Peer, FreePeer(p), TypeOK', QueueInv'
  PROVE  OwnInv'
<1> DEFINE i == QueueHead(free)
           c == pcConn[p]
<1>1. /\ cache' = InsertHead(cache, i) /\ itemConn' = [itemConn EXCEPT ![i] = c]
      /\ itemAddr' = [itemAddr EXCEPT ![i] = pcAddr[p]]
      /\ data' = [data EXCEPT ![c] = i]
      /\ pcConn' = [pcConn EXCEPT ![p] = NULL] /\ pcAddr' = [pcAddr EXCEPT ![p] = NULL]
      /\ UNCHANGED <<open, remote>>
  BY DEF FreePeer, StoreIn
<1>2. i \in Item /\ i \notin Cached
  <2>1. i \in Linked(free)
    BY DEF FreePeer, QueueHead, OwnInv, TypeOK, Linked
  <2> HIDE DEF i
  <2> QED BY <2>1 DEF OwnInv, QueueInv, Partition, Cached
<1>3. /\ c \in Conn /\ open[c] /\ data[c] = p /\ remote[c] = pcAddr[p]
      /\ \A j \in Cached : itemConn[j] # c
  BY KeepaliveAssumption
     DEF FreePeer, CanFree, Holds, OwnInv, TypeOK, HeldInv, CachedInv, QueueInv,
         Partition, Cached
<1> HIDE DEF i, c
<1>4. Cached' = Cached \cup {i}
  BY <1>1, <1>2, InsertHeadProps DEF OwnInv, QueueInv, Cached
<1>5. ASSUME NEW j \in Item PROVE CachedInv(j)'
  BY <1>1, <1>2, <1>3, <1>4 DEF OwnInv, TypeOK, CachedInv
<1>6. ASSUME NEW q \in Peer PROVE HeldInv(q)'
  BY <1>1, <1>2, <1>3, KeepaliveAssumption DEF OwnInv, TypeOK, HeldInv, Holds
<1>7. ASSUME NEW d \in Conn PROVE OwnerInv(d)'
  BY <1>1, <1>2, <1>3, <1>4, KeepaliveAssumption DEF OwnInv, TypeOK, OwnerInv, c
<1> QED BY <1>5, <1>6, <1>7 DEF OwnInv

LEMMA FreePeerEvictingOwn ==
  ASSUME Disciplined, OwnInv, NEW p \in Peer, FreePeerEvicting(p), TypeOK', QueueInv'
  PROVE  OwnInv'
<1> DEFINE i == QueueLast(cache)
           c == pcConn[p]
           e == itemConn[i]
<1>1. /\ itemConn' = [itemConn EXCEPT ![i] = c]
      /\ itemAddr' = [itemAddr EXCEPT ![i] = pcAddr[p]]
      /\ data' = [data EXCEPT ![e] = NULL, ![c] = i]
      /\ open' = [open EXCEPT ![e] = FALSE] /\ remote' = [remote EXCEPT ![e] = NULL]
      /\ pcConn' = [pcConn EXCEPT ![p] = NULL] /\ pcAddr' = [pcAddr EXCEPT ![p] = NULL]
      /\ free' = free
  BY DEF FreePeerEvicting, StoreIn, Close
<1>2. Cached = Item /\ Cached' = Item
  BY <1>1 DEF FreePeerEvicting, OwnInv, QueueInv, Partition, Cached, Linked
<1>3. i \in Item
  <2>1. MaxCached \in Nat /\ MaxCached > 0
    BY KeepaliveAssumption DEF FreePeerEvicting, CanFree
  <2>2. cache # <<>>
    BY <1>2, <2>1 DEF Cached, Linked, Item
  <2> QED BY <2>2 DEF QueueLast, OwnInv, TypeOK
<1>4. /\ c \in Conn /\ open[c] /\ data[c] = p /\ remote[c] = pcAddr[p]
      /\ \A j \in Item : itemConn[j] # c
  BY <1>2, KeepaliveAssumption
     DEF FreePeerEvicting, CanFree, Holds, OwnInv, TypeOK, HeldInv, CachedInv
<1>5. e \in Conn /\ data[e] = i /\ \A j \in Item \ {i} : itemConn[j] # e
  BY <1>2, <1>3 DEF OwnInv, CachedInv
<1>6. \A q \in Peer : Holds(q) => pcConn[q] # e
  BY <1>3, <1>5, KeepaliveAssumption DEF OwnInv, TypeOK, HeldInv, Holds
<1> HIDE DEF i, c, e
<1>7. ASSUME NEW j \in Item PROVE CachedInv(j)'
  BY <1>1, <1>2, <1>3, <1>4, <1>5 DEF OwnInv, TypeOK, CachedInv, e
<1>8. ASSUME NEW q \in Peer PROVE HeldInv(q)'
  BY <1>1, <1>3, <1>4, <1>5, <1>6, KeepaliveAssumption DEF OwnInv, TypeOK, HeldInv, Holds
<1>9. ASSUME NEW d \in Conn PROVE OwnerInv(d)'
  BY <1>1, <1>2, <1>3, <1>4, <1>5, <1>6, KeepaliveAssumption
     DEF OwnInv, TypeOK, OwnerInv, c, e
<1> QED BY <1>7, <1>8, <1>9 DEF OwnInv

LEMMA CloseHandlerOwn ==
  ASSUME Disciplined, OwnInv, NEW c \in Conn, CloseHandler(c), TypeOK', QueueInv'
  PROVE  OwnInv'
<1> DEFINE i == data[c]
<1>1. /\ open[c] /\ i \in Item /\ open' = [open EXCEPT ![c] = FALSE]
      /\ remote' = [remote EXCEPT ![c] = NULL] /\ data' = [data EXCEPT ![c] = NULL]
      /\ cache' = Unlink(cache, i) /\ UNCHANGED <<itemConn, itemAddr, pcConn, pcAddr>>
  BY DEF CloseHandler, Close, peerVars
<1>2. i \in Cached /\ itemConn[i] = c
  BY <1>1, KeepaliveAssumption DEF OwnInv, OwnerInv
<1>3. Cached' = Cached \ {i}
  BY <1>1, UnlinkProps DEF OwnInv, QueueInv, Partition, Cached
<1>4. \A q \in Peer : Holds(q) => pcConn[q] # c
  BY <1>1, KeepaliveAssumption DEF OwnInv, HeldInv
<1>5. \A j \in Cached \ {i} : j \in Item => itemConn[j] # c
  BY <1>2 DEF OwnInv, CachedInv
<1> HIDE DEF i
<1>6. ASSUME NEW j \in Item PROVE CachedInv(j)'
  BY <1>1, <1>3, <1>5 DEF OwnInv, TypeOK, CachedInv
<1>7. ASSUME NEW q \in Peer PROVE HeldInv(q)'
  BY <1>1, <1>4 DEF OwnInv, TypeOK, HeldInv, Holds
<1>8. ASSUME NEW d \in Conn PROVE OwnerInv(d)'
  BY <1>1, <1>2, <1>3 DEF OwnInv, TypeOK, OwnerInv, Holds
<1> QED BY <1>6, <1>7, <1>8 DEF OwnInv

LEMMA OwnStep ==
  ASSUME Disciplined, OwnInv, [Next]_vars
  PROVE  OwnInv'
<1>1. TypeOK' /\ QueueInv'
  BY TypeStep, QueueStep DEF OwnInv
<1>2. ASSUME NEW p \in Peer, NEW a \in Addr, ConnectFails(p, a) PROVE OwnInv'
  <2>1. /\ ~Holds(p) /\ pcConn' = [pcConn EXCEPT ![p] = NULL]
        /\ pcAddr' = [pcAddr EXCEPT ![p] = a]
        /\ UNCHANGED <<cache, itemConn, itemAddr, open, data, remote>>
    BY <1>2 DEF ConnectFails, MayConnect, Disciplined, poolVars, connVars
  <2>2. ASSUME NEW j \in Item PROVE CachedInv(j)'
    BY <2>1 DEF OwnInv, CachedInv, Cached
  <2>3. ASSUME NEW q \in Peer PROVE HeldInv(q)'
    BY <2>1 DEF OwnInv, TypeOK, HeldInv, Holds
  <2>4. ASSUME NEW c \in Conn PROVE OwnerInv(c)'
    BY <2>1, KeepaliveAssumption DEF OwnInv, TypeOK, OwnerInv, Holds, Cached
  <2> QED BY <1>1, <2>2, <2>3, <2>4 DEF OwnInv
<1>3. ASSUME NEW c \in Conn, ServerEof(c) \/ SocketEvent(c) PROVE OwnInv'
  BY <1>1, <1>3 DEF ServerEof, SocketEvent, OwnInv, CachedInv, HeldInv, Holds, OwnerInv, Cached,
     poolVars, peerVars
<1>4. CASE UNCHANGED vars
  BY <1>1, <1>4 DEF vars, poolVars, connVars, peerVars, OwnInv, CachedInv, HeldInv,
     Holds, OwnerInv, Cached
<1> QED BY <1>1, <1>2, <1>3, <1>4, GetCachedOwn, OpenPeerOwn, FreePeerOwn,
          FreePeerEvictingOwn, CloseConnectionOwn, CloseHandlerOwn DEF Next

LEMMA Ownership == Disciplined => (Spec => []OwnInv)
<1> SUFFICES ASSUME Disciplined PROVE Spec => []OwnInv
  OBVIOUS
<1>1. Spec => Init /\ [][Next]_vars
  BY DEF Spec
<1>2. OwnInv /\ [Next]_vars => OwnInv'
  BY OwnStep
<1> QED BY <1>1, <1>2, OwnInit, PTL

(***************************************************************************)
(* get_peer never hands out a connection that is closed, in use, or cached *)
(* a second time; two sockets never share a connection, and that of a      *)
(* socket is open and not in the pool.                                     *)
(***************************************************************************)
THEOREM ConnectionsOwned == Disciplined => (Spec => []Owned)
<1>1. ASSUME OwnInv PROVE Owned
  <2>1. \A i \in Cached : /\ itemConn[i] # NULL
                          /\ open[itemConn[i]]
                          /\ data[itemConn[i]] = i
    BY <1>1, KeepaliveAssumption DEF OwnInv, QueueInv, Partition, Cached, CachedInv
  <2> QED BY <1>1, <2>1 DEF OwnInv, HeldInv, Owned
<1> QED BY <1>1, Ownership, PTL

(***************************************************************************)
(* A script that connects to an address talks to the server at it, whether *)
(* its connection is new or comes from the pool.                           *)
(***************************************************************************)
THEOREM AddressesTrue == Disciplined => (Spec => []AddrTrue)
<1>1. OwnInv => AddrTrue
  BY DEF OwnInv, QueueInv, Partition, Cached, CachedInv, HeldInv, AddrTrue, Holds
<1> QED BY <1>1, Ownership, PTL

(***************************************************************************)
(* No connection is left open that neither the pool nor a socket has.      *)
(***************************************************************************)
THEOREM NothingLeaks == Disciplined => (Spec => []NoLeak)
<1>1. OwnInv => NoLeak
  BY KeepaliveAssumption DEF OwnInv, TypeOK, OwnerInv, NoLeak, Holds
<1> QED BY <1>1, Ownership, PTL

(***************************************************************************)
(* Nobody closes a connection under the socket that holds it.              *)
(***************************************************************************)
THEOREM LiveConnectionsStay == Disciplined => (Spec => LiveConnStaysOpen)
<1> SUFFICES ASSUME Disciplined PROVE Spec => LiveConnStaysOpen
  OBVIOUS
<1>1. ASSUME OwnInv, [Next]_vars, NEW p \in Peer,
             Holds(p), open[pcConn[p]], data[pcConn[p]] = p, ~open'[pcConn[p]]
      PROVE  pcAddr'[p] = NULL
  <2> USE <1>1
  <2>1. pcConn[p] \in Conn /\ p \notin Item
    BY KeepaliveAssumption DEF Holds, OwnInv, TypeOK
  <2>2. ASSUME NEW q \in Peer, FreePeerEvicting(q) PROVE FALSE
    <3> DEFINE e == itemConn[QueueLast(cache)]
    <3>1. open' = [open EXCEPT ![e] = FALSE]
      BY <2>2 DEF FreePeerEvicting, Close
    <3>2. MaxCached \in Nat /\ MaxCached > 0 /\ Cached = Item
      BY <2>2, KeepaliveAssumption
         DEF FreePeerEvicting, CanFree, OwnInv, QueueInv, Partition, Cached, Linked
    <3>3. QueueLast(cache) \in Item
      <4>1. 1 \in Cached
        BY <3>2 DEF Item
      <4>2. cache # <<>>
        BY <4>1 DEF Cached, Linked
      <4> QED BY <4>2 DEF QueueLast, OwnInv, TypeOK
    <3>4. data[e] \in Item
      BY <3>2, <3>3 DEF OwnInv, CachedInv
    <3> QED BY <2>1, <3>1, <3>4 DEF OwnInv, TypeOK
  <2>3. ASSUME NEW q \in Peer, CloseConnection(q) PROVE pcAddr'[p] = NULL
    <3>1. /\ pcConn[q] \in Conn /\ open' = [open EXCEPT ![pcConn[q]] = FALSE]
          /\ Holds(q) /\ pcAddr' = [pcAddr EXCEPT ![q] = NULL]
      BY <2>3 DEF CloseConnection, Close, Disciplined, Holds, OwnInv, TypeOK
    <3>2. p = q
      BY <2>1, <3>1 DEF OwnInv, TypeOK, HeldInv
    <3> QED BY <3>1, <3>2 DEF OwnInv, TypeOK
  <2>4. ASSUME NEW c \in Conn, CloseHandler(c) PROVE FALSE
    BY <2>1, <2>4 DEF CloseHandler, Close, OwnInv, TypeOK
  <2>5. ASSUME NEW q \in Peer, NEW a \in Addr, NEW c \in Conn, OpenPeer(q, a, c)
        PROVE  FALSE
    BY <2>1, <2>5 DEF OpenPeer, OwnInv, TypeOK
  <2>6. CASE UNCHANGED open
    BY <2>6
  <2> QED BY <2>2, <2>3, <2>4, <2>5, <2>6
          DEF Next, GetCachedPeer, ConnectFails, FreePeer, ServerEof, SocketEvent, connVars, vars
<1>2. OwnInv /\ [Next]_vars =>
        [\A p \in Peer :
           (Holds(p) /\ open[pcConn[p]] /\ data[pcConn[p]] = p /\ ~open'[pcConn[p]])
             => pcAddr'[p] = NULL]_vars
  BY <1>1
<1> QED BY <1>2, Ownership, PTL DEF Spec, LiveConnStaysOpen

-----------------------------------------------------------------------------
(* The abstract pool.                                                      *)

\* What Unlink does to the element at place k.
LEMMA UnlinkAt ==
  ASSUME NEW S, NEW q \in Seq(S), Simple(q), NEW k \in DOMAIN q
  PROVE  Unlink(q, q[k]) = [i \in 1 .. (Len(q) - 1) |-> IF i < k THEN q[i] ELSE q[i + 1]]
<1>1. q[k] \in Linked(q)
  BY DEF Linked
<1>2. (CHOOSE i \in DOMAIN q : q[i] = q[k]) = k
  BY DEF Simple
<1> QED BY <1>1, <1>2 DEF Unlink

\* A queue is as long as the set of its elements is large.
LEMMA QueueSize ==
  ASSUME NEW S, NEW q \in Seq(S), Simple(q)
  PROVE  IsFiniteSet(Linked(q)) /\ Cardinality(Linked(q)) = Len(q)
<1>1. q \in Bijection(1 .. Len(q), Linked(q))
  BY Fun_IsBij DEF Linked, Simple
<1>2. ExistsBijection(1 .. Len(q), Linked(q))
  BY <1>1 DEF ExistsBijection
<1> QED BY <1>2, FS_CountingElements, FS_NatBijection

\* The cache is full when no item is free, and only then.
LEMMA CacheSize ==
  ASSUME QueueInv
  PROVE  /\ Len(cache) \in Nat
         /\ free = <<>> => Len(cache) = MaxCached
         /\ free # <<>> => Len(cache) < MaxCached
<1>1. MaxCached \in Nat /\ IsFiniteSet(Item) /\ Cardinality(Item) = MaxCached
  BY KeepaliveAssumption, FS_Interval DEF Item
<1>2. IsFiniteSet(Linked(cache)) /\ Cardinality(Linked(cache)) = Len(cache)
  BY QueueSize DEF QueueInv, Partition
<1>3. Linked(cache) \subseteq Item /\ Len(cache) \in Nat
  BY DEF QueueInv, Partition
<1>4. Len(cache) <= MaxCached /\ (Len(cache) = MaxCached => Linked(cache) = Item)
  BY <1>1, <1>2, <1>3, FS_Subset
<1>5. ASSUME free = <<>> PROVE Len(cache) = MaxCached
  <2>1. Linked(free) = {}
    BY <1>5 DEF Linked
  <2>2. Linked(cache) = Item
    BY <2>1 DEF QueueInv, Partition
  <2> QED BY <1>1, <1>2, <2>2
<1>6. ASSUME free # <<>> PROVE Linked(cache) # Item
  <2>1. free[1] \in Linked(free)
    BY <1>6 DEF QueueInv, Linked
  <2> QED BY <2>1 DEF QueueInv, Partition
<1> QED BY <1>1, <1>3, <1>4, <1>5, <1>6

\* The idle connections, as the abstract pool has them.
Entries ==
  [i \in DOMAIN cache |-> [conn |-> itemConn[cache[i]], addr |-> itemAddr[cache[i]]]]

RawEntry == [conn : Conn \cup {NULL}, addr : Addr \cup {NULL}]

LEMMA EntriesType ==
  ASSUME OwnInv
  PROVE  /\ Entries \in Seq(RawEntry) /\ Len(Entries) = Len(cache)
         /\ DOMAIN Entries = DOMAIN cache /\ DOMAIN cache = 1 .. Len(cache)
         /\ Len(cache) \in Nat
         /\ \A i \in DOMAIN cache :
              /\ cache[i] \in Item /\ cache[i] \in Cached
              /\ Entries[i] = [conn |-> itemConn[cache[i]], addr |-> itemAddr[cache[i]]]
<1>1. \A i \in DOMAIN cache : cache[i] \in Item /\ cache[i] \in Cached
  BY DEF OwnInv, TypeOK, Cached, Linked
<1>2. DOMAIN cache = 1 .. Len(cache) /\ Len(cache) \in Nat
  BY DEF OwnInv, TypeOK
<1>3. \A i \in DOMAIN cache :
        [conn |-> itemConn[cache[i]], addr |-> itemAddr[cache[i]]] \in RawEntry
  BY <1>1 DEF OwnInv, TypeOK, RawEntry
<1> QED BY <1>1, <1>2, <1>3 DEF Entries

\* An element put in front of a sequence.
LEMMA Prepend ==
  ASSUME NEW S, NEW s \in Seq(S), NEW e \in S, NEW t \in Seq(S),
         Len(t) = Len(s) + 1, t[1] = e, \A i \in 1 .. Len(s) : t[i + 1] = s[i]
  PROVE  t = <<e>> \o s
<1>1. <<e>> \in Seq(S) /\ Len(<<e>>) = 1 /\ <<e>>[1] = e
  OBVIOUS
<1>2. /\ <<e>> \o s \in Seq(S) /\ Len(<<e>> \o s) = Len(s) + 1
      /\ \A i \in 1 .. Len(s) + 1 :
           (<<e>> \o s)[i] = IF i <= 1 THEN <<e>>[i] ELSE s[i - 1]
  BY <1>1, ConcatProperties
<1>3. ASSUME NEW i \in 1 .. Len(t) PROVE t[i] = (<<e>> \o s)[i]
  <2>1. CASE i = 1
    BY <1>1, <1>2, <2>1
  <2>2. CASE i > 1
    <3>1. i - 1 \in 1 .. Len(s)
      BY <2>2
    <3>2. t[(i - 1) + 1] = s[i - 1]
      BY <3>1
    <3> QED BY <1>2, <2>2, <3>2
  <2> QED BY <2>1, <2>2
<1> QED BY <1>2, <1>3, SeqEqual

\* The entry at place k leaves the pool when its item leaves the cache.
LEMMA EntryLeaves ==
  ASSUME OwnInv, OwnInv', NEW k \in DOMAIN cache, cache' = Unlink(cache, cache[k]),
         UNCHANGED <<itemConn, itemAddr>>
  PROVE  Entries' = [i \in 1 .. (Len(Entries) - 1) |->
                       IF i < k THEN Entries[i] ELSE Entries[i + 1]]
<1>1. cache' = [i \in 1 .. (Len(cache) - 1) |-> IF i < k THEN cache[i] ELSE cache[i + 1]]
  BY UnlinkAt DEF OwnInv, QueueInv, Partition
<1>2. Len(cache) \in Nat /\ DOMAIN cache = 1 .. Len(cache) /\ Len(Entries) = Len(cache)
      /\ \A i \in DOMAIN cache :
           Entries[i] = [conn |-> itemConn[cache[i]], addr |-> itemAddr[cache[i]]]
  BY EntriesType
<1>3. Entries' = [i \in DOMAIN cache' |->
                    [conn |-> itemConn[cache'[i]], addr |-> itemAddr[cache'[i]]]]
  BY DEF Entries
<1>4. ASSUME NEW i \in 1 .. (Len(cache) - 1)
      PROVE  [conn |-> itemConn[cache'[i]], addr |-> itemAddr[cache'[i]]] =
               IF i < k THEN Entries[i] ELSE Entries[i + 1]
  <2>1. i \in DOMAIN cache /\ i + 1 \in DOMAIN cache
    BY <1>2
  <2> QED BY <1>1, <1>2, <2>1
<1> QED BY <1>1, <1>2, <1>3, <1>4

\* An entry joins the pool in front of those that stay.
LEMMA EntryJoins ==
  ASSUME OwnInv, OwnInv', NEW q \in Seq(Item), NEW i \in Item, cache' = InsertHead(q, i),
         NEW c \in Conn, NEW a \in Addr,
         itemConn' = [itemConn EXCEPT ![i] = c], itemAddr' = [itemAddr EXCEPT ![i] = a],
         i \notin Linked(q), NEW s \in Seq(RawEntry), Len(s) = Len(q),
         \A j \in 1 .. Len(q) :
           s[j] = [conn |-> itemConn[q[j]], addr |-> itemAddr[q[j]]]
  PROVE  Entries' = <<[conn |-> c, addr |-> a]>> \o s
<1> DEFINE e == [conn |-> c, addr |-> a]
<1>1. /\ Len(cache') = Len(q) + 1 /\ Len(q) \in Nat /\ cache'[1] = i
      /\ \A j \in 1 .. Len(q) : cache'[j + 1] = q[j] /\ q[j] \in Item /\ q[j] # i
  BY DEF InsertHead, Linked
<1>2. Entries' = [j \in 1 .. (Len(q) + 1) |->
                    [conn |-> itemConn'[cache'[j]], addr |-> itemAddr'[cache'[j]]]]
  BY DEF Entries, InsertHead
<1>3. /\ \A j \in Item \ {i} : itemConn'[j] = itemConn[j] /\ itemAddr'[j] = itemAddr[j]
      /\ itemConn'[i] = c /\ itemAddr'[i] = a
  BY DEF OwnInv, TypeOK
<1>4. 1 \in 1 .. (Len(q) + 1) /\ \A j \in 1 .. Len(q) : j + 1 \in 1 .. (Len(q) + 1)
  BY <1>1
<1>5. Entries'[1] = e
  BY <1>1, <1>2, <1>3, <1>4
<1>6. ASSUME NEW j \in 1 .. Len(q) PROVE Entries'[j + 1] = s[j]
  BY <1>1, <1>2, <1>3, <1>4
<1>7. e \in RawEntry
  BY DEF RawEntry
<1>8. \A j \in 1 .. (Len(q) + 1) : j = 1 \/ (j - 1 \in 1 .. Len(q) /\ j = (j - 1) + 1)
  BY <1>1
<1>9. ASSUME NEW j \in 1 .. (Len(q) + 1) PROVE Entries'[j] \in RawEntry
  <2>1. CASE j = 1
    BY <1>5, <1>7, <2>1
  <2>2. CASE j - 1 \in 1 .. Len(q) /\ j = (j - 1) + 1
    <3>1. Entries'[(j - 1) + 1] = s[j - 1] /\ s[j - 1] \in RawEntry
      BY <1>6, <2>2
    <3> QED BY <2>2, <3>1
  <2> QED BY <1>8, <2>1, <2>2
<1>10. Entries' \in Seq(RawEntry) /\ Len(Entries') = Len(s) + 1
  BY <1>1, <1>2, <1>9
<1>11. \A j \in 1 .. Len(s) : Entries'[j + 1] = s[j]
  BY <1>6
<1> HIDE DEF e
<1>12. Entries' = <<e>> \o s
  BY <1>5, <1>7, <1>10, <1>11, Prepend
<1> QED BY <1>12 DEF e

LEMMA PoolStep ==
  ASSUME Disciplined, OwnInv, [Next]_vars
  PROVE  [Pool!Next]_Entries
<1>1. OwnInv'
  BY OwnStep
<1> DEFINE entry(p) == [conn |-> pcConn[p], addr |-> pcAddr[p]]
<1>2. ASSUME NEW p \in Peer, NEW a \in Addr, GetCachedPeer(p, a) PROVE Pool!Next
  <2>1. PICK k \in DOMAIN cache :
          /\ itemAddr[cache[k]] = a
          /\ \A j \in 1 .. (k - 1) : ~(j \in DOMAIN cache /\ itemAddr[cache[j]] = a)
          /\ cache' = Unlink(cache, cache[k])
    BY <1>2 DEF GetCachedPeer, Matches
  <2>2. Entries' = [i \in 1 .. (Len(Entries) - 1) |->
                      IF i < k THEN Entries[i] ELSE Entries[i + 1]]
    BY <1>1, <1>2, <2>1, EntryLeaves DEF GetCachedPeer
  <2>3. k \in DOMAIN Entries /\ Entries[k].addr = a
        /\ \A j \in 1 .. (k - 1) : Entries[j].addr # a
    BY <2>1, EntriesType
  <2>4. Pool!Take(a)
    BY <2>2, <2>3 DEF Pool!Take, Pool!RemoveEntry, Entries
  <2> QED BY <2>4 DEF Pool!Next
<1>3. ASSUME NEW c \in Conn, CloseHandler(c) PROVE Pool!Next
  <2>1. data[c] \in Cached /\ itemConn[data[c]] = c
    BY <1>3, KeepaliveAssumption DEF CloseHandler, OwnInv, OwnerInv
  <2>2. PICK k \in DOMAIN cache : cache[k] = data[c]
    BY <2>1 DEF Cached, Linked
  <2>3. Entries' = [i \in 1 .. (Len(Entries) - 1) |->
                      IF i < k THEN Entries[i] ELSE Entries[i + 1]]
    BY <1>1, <1>3, <2>2, EntryLeaves DEF CloseHandler
  <2>4. Pool!Drop(k)
    BY <2>2, <2>3, EntriesType DEF Pool!Drop, Pool!RemoveEntry, Entries
  <2> QED BY <2>2, <2>4, EntriesType DEF Pool!Next, Entries
<1>4. ASSUME NEW p \in Peer, CanFree(p)
      PROVE  /\ pcConn[p] \in Conn /\ pcAddr[p] \in Addr
             /\ entry(p) \in Pool!Entry /\ entry(p).conn = pcConn[p]
             /\ \A i \in DOMAIN cache : Entries[i].conn # pcConn[p]
  <2>1. pcConn[p] \in Conn /\ pcAddr[p] \in Addr /\ data[pcConn[p]] = p /\ p \notin Item
    BY <1>4, KeepaliveAssumption DEF CanFree, Holds, OwnInv, TypeOK, HeldInv
  <2>2. ASSUME NEW i \in DOMAIN cache PROVE itemConn[cache[i]] # pcConn[p]
    <3>1. cache[i] \in Item /\ cache[i] \in Cached
      BY EntriesType
    <3>2. data[itemConn[cache[i]]] = cache[i]
      BY <3>1 DEF OwnInv, CachedInv
    <3> QED BY <2>1, <3>1, <3>2
  <2> QED BY <2>1, <2>2, EntriesType DEF Pool!Entry
<1>5. ASSUME NEW p \in Peer, FreePeer(p) PROVE Pool!Next
  <2> DEFINE i == QueueHead(free)
  <2>1. /\ cache' = InsertHead(cache, i) /\ itemConn' = [itemConn EXCEPT ![i] = pcConn[p]]
        /\ itemAddr' = [itemAddr EXCEPT ![i] = pcAddr[p]]
        /\ CanFree(p) /\ free # <<>>
    BY <1>5 DEF FreePeer, StoreIn
  <2>2. i \in Linked(free)
    BY <2>1 DEF QueueHead, OwnInv, TypeOK, Linked
  <2> HIDE DEF i
  <2>3. i \in Item /\ i \notin Linked(cache) /\ cache \in Seq(Item)
    BY <2>2 DEF OwnInv, QueueInv, Partition
  <2>4. Entries' = <<entry(p)>> \o Entries
    <3>1. /\ Entries \in Seq(RawEntry) /\ Len(Entries) = Len(cache)
          /\ \A j \in 1 .. Len(cache) :
               Entries[j] = [conn |-> itemConn[cache[j]], addr |-> itemAddr[cache[j]]]
      BY EntriesType
    <3> QED BY <1>1, <1>4, <2>1, <2>3, <3>1, EntryJoins
  <2>5. Len(Entries) < MaxCached /\ entry(p).conn \notin {Entries[j].conn : j \in DOMAIN Entries}
    BY <1>4, <2>1, EntriesType, CacheSize DEF OwnInv
  <2>6. entry(p) \in Pool!Entry
    BY <1>4, <2>1
  <2> HIDE DEF entry
  <2> QED BY <2>4, <2>5, <2>6 DEF Pool!Next, Pool!Return, Pool!Idle, Entries
<1>6. ASSUME NEW p \in Peer, FreePeerEvicting(p) PROVE Pool!Next
  <2> DEFINE i == QueueLast(cache)
             rest == Unlink(cache, i)
  <2>1. /\ cache' = InsertHead(rest, i) /\ itemConn' = [itemConn EXCEPT ![i] = pcConn[p]]
        /\ itemAddr' = [itemAddr EXCEPT ![i] = pcAddr[p]]
        /\ CanFree(p) /\ free = <<>> /\ MaxCached \in Nat /\ MaxCached > 0
    BY <1>6, KeepaliveAssumption DEF FreePeerEvicting, StoreIn, CanFree
  <2>2. /\ Len(cache) = MaxCached /\ Len(cache) \in DOMAIN cache
        /\ i = cache[Len(cache)] /\ i \in Item
    <3>1. Len(cache) = MaxCached
      BY <2>1, CacheSize DEF OwnInv
    <3>2. Len(cache) \in DOMAIN cache
      BY <2>1, <3>1, EntriesType
    <3> QED BY <3>1, <3>2, EntriesType DEF QueueLast
  <2>3. /\ rest = [j \in 1 .. (Len(cache) - 1) |->
                     IF j < Len(cache) THEN cache[j] ELSE cache[j + 1]]
        /\ rest \in Seq(Item) /\ i \notin Linked(rest)
    BY <2>2, UnlinkAt, UnlinkProps DEF OwnInv, QueueInv, Partition
  <2> HIDE DEF i, rest
  <2>4. Len(rest) = MaxCached - 1 /\ \A j \in 1 .. (MaxCached - 1) : rest[j] = cache[j]
    BY <2>1, <2>2, <2>3
  <2> DEFINE s == SubSeq(Entries, 1, MaxCached - 1)
  <2>5. \A j \in 1 .. (MaxCached - 1) : j \in DOMAIN cache /\ Entries[j] \in RawEntry
    BY <2>1, <2>2, EntriesType
  <2>6. /\ s \in Seq(RawEntry) /\ Len(s) = MaxCached - 1
        /\ \A j \in 1 .. (MaxCached - 1) : s[j] = Entries[j]
    <3>1. MaxCached - 1 \in Int
      BY <2>1
    <3>2. /\ s \in Seq(RawEntry)
          /\ Len(s) = IF 1 <= MaxCached - 1 THEN MaxCached - 1 - 1 + 1 ELSE 0
          /\ \A j \in 1 .. (MaxCached - 1) - 1 + 1 : s[j] = Entries[1 + j - 1]
      BY <2>5, <3>1, SubSeqProperties
    <3> HIDE DEF s
    <3> QED BY <2>1, <3>2
  <2> HIDE DEF s
  <2>7. \A j \in 1 .. Len(rest) :
          s[j] = [conn |-> itemConn[rest[j]], addr |-> itemAddr[rest[j]]]
    BY <2>4, <2>5, <2>6, EntriesType
  <2>8. Entries' = <<entry(p)>> \o s
    <3>1. /\ rest \in Seq(Item) /\ i \in Item /\ i \notin Linked(rest)
          /\ cache' = InsertHead(rest, i) /\ Len(s) = Len(rest)
      BY <2>1, <2>2, <2>3, <2>4, <2>6
    <3>2. /\ pcConn[p] \in Conn /\ pcAddr[p] \in Addr
          /\ itemConn' = [itemConn EXCEPT ![i] = pcConn[p]]
          /\ itemAddr' = [itemAddr EXCEPT ![i] = pcAddr[p]]
      BY <1>4, <2>1
    <3>3. s \in Seq(RawEntry)
      BY <2>6
    <3> QED BY <1>1, <2>7, <3>1, <3>2, <3>3, EntryJoins
  <2>9. Len(Entries) = MaxCached
        /\ entry(p).conn \notin {Entries[j].conn : j \in DOMAIN Entries}
    BY <1>4, <2>1, <2>2, EntriesType
  <2>10. entry(p) \in Pool!Entry
    BY <1>4, <2>1
  <2> HIDE DEF entry
  <2> QED BY <2>1, <2>8, <2>9, <2>10
          DEF Pool!Next, Pool!ReturnEvicting, Pool!Idle, Entries, s
<1>7. CASE UNCHANGED <<cache, itemConn, itemAddr>>
  BY <1>7 DEF Entries
<1> QED BY <1>2, <1>3, <1>5, <1>6, <1>7
        DEF Next, OpenPeer, ConnectFails, CloseConnection, ServerEof, SocketEvent, poolVars, vars

(***************************************************************************)
(* The pool is the abstract one: what it hands out is the connection to    *)
(* that address returned last, and what it gives up the one idle longest.  *)
(***************************************************************************)
THEOREM PoolImplemented == Disciplined => (Spec => ImplementsPool)
<1> SUFFICES ASSUME Disciplined PROVE Spec => ImplementsPool
  OBVIOUS
<1>1. Init => Pool!Init
  BY DEF Init, Pool!Init
<1>2. OwnInv /\ [Next]_vars => [Pool!Next]_Entries
  BY PoolStep
<1> QED BY <1>1, <1>2, Ownership, PTL DEF Spec, ImplementsPool, Pool!Spec, Entries

=============================================================================
