----------------------------- MODULE Keepalive ------------------------------
(***************************************************************************)
(* The upstream connection pool of ngx-php (src/ngx_http_php_keepalive.c)  *)
(* together with the two ends of an upstream socket that use it:           *)
(* ngx_http_php_socket_resolve_retval_handler, which asks the pool for a   *)
(* connection before nginx opens one, and ngx_http_php_socket_finalize,    *)
(* which gives the connection back or closes it.                           *)
(*                                                                         *)
(* A worker keeps max_cached items, each linked into exactly one of the    *)
(* queues `cache' (idle connections, the most recently used first) and     *)
(* `free'.  Who a connection belongs to is one pointer, c->data: the item  *)
(* that caches it or the upstream socket that uses it.                     *)
(***************************************************************************)
EXTENDS NgxQueue

CONSTANTS
  Conn,          (* ngx_connection_t slots of the worker                   *)
  Addr,          (* addresses of upstream servers                          *)
  Peer,          (* upstream sockets, one per request (u->peer)            *)
  MaxCached,     (* kc->max_cached, 0 when php_keepalive is not configured *)
  Careless,      (* may a script connect a socket that is still connected, *)
                 (* and close one that is closed?                          *)
  SlotFailures,  (* may nginx run out of connection slots?                 *)
  NULL

Item == 1 .. MaxCached

ASSUME KeepaliveAssumption ==
  /\ MaxCached \in Nat
  /\ Careless \in BOOLEAN
  /\ SlotFailures \in BOOLEAN
  /\ NULL \notin Conn
  /\ NULL \notin Addr
  /\ NULL \notin Peer
  /\ NULL \notin Item
  /\ Peer \cap Item = {}

VARIABLES
  cache,      (* kc->cache                                                 *)
  free,       (* kc->free                                                  *)
  itemConn,   (* item->connection                                          *)
  itemAddr,   (* item->sockaddr                                            *)
  open,       (* is the connection slot in use?                            *)
  data,       (* c->data: the item or the socket the connection belongs to *)
  remote,     (* the server the connection really leads to                 *)
  eof,        (* the server closed the connection, or sent data that       *)
              (* nobody asked for and nobody reads                         *)
  edge,       (* its read event is on epoll's ready list: events are       *)
              (* edge-triggered, and what was reported is not again        *)
  pcConn,     (* pc->connection                                            *)
  pcAddr      (* pc->sockaddr                                              *)

poolVars == <<cache, free, itemConn, itemAddr>>
connVars == <<open, data, remote, eof, edge>>
peerVars == <<pcConn, pcAddr>>
vars == <<poolVars, connVars, peerVars>>

-----------------------------------------------------------------------------

Cached == Linked(cache)

\* Mutant of Matches: get_peer does not compare the addresses.
MatchesAny(i, a) == i \in DOMAIN cache

\* The cached items for address a, in queue order; get_peer takes the first.
Matches(i, a) == i \in DOMAIN cache /\ itemAddr[cache[i]] = a

\* Socket p has a connection of its own that it has not given back.
Holds(p) == pcConn[p] # NULL /\ pcAddr[p] # NULL

-----------------------------------------------------------------------------

\* keepalive_init: every item is pushed on the head of the free queue.
Init ==
  /\ cache = <<>>
  /\ free = [i \in Item |-> MaxCached + 1 - i]
  /\ itemConn = [i \in Item |-> NULL]
  /\ itemAddr = [i \in Item |-> NULL]
  /\ open = [c \in Conn |-> FALSE]
  /\ data = [c \in Conn |-> NULL]
  /\ remote = [c \in Conn |-> NULL]
  /\ eof = [c \in Conn |-> FALSE]
  /\ edge = [c \in Conn |-> FALSE]
  /\ pcConn = [p \in Peer |-> NULL]
  /\ pcAddr = [p \in Peer |-> NULL]

\* The documented use of a socket: it is closed before it is connected again.
MayConnect(p) == Careless \/ ~Holds(p)

\* Mutant of GetCachedPeer: the item is not put back on the free queue.
GetCachedPeerLosingItem(p, a) ==
  /\ MayConnect(p)
  /\ \E i \in DOMAIN cache :
       /\ Matches(i, a)
       /\ cache' = Unlink(cache, cache[i])
       /\ data' = [data EXCEPT ![itemConn[cache[i]]] = p]
       /\ pcConn' = [pcConn EXCEPT ![p] = itemConn[cache[i]]]
  /\ pcAddr' = [pcAddr EXCEPT ![p] = a]
  /\ UNCHANGED <<free, itemConn, itemAddr, open, remote, eof, edge>>

(***************************************************************************)
(* get_peer finds a cached connection to a: its item goes to the free      *)
(* queue (keeping its fields), the connection to the socket.  Adding its   *)
(* read event anew makes epoll report again what there is, unless it fails *)
(* (get_peer's caller maps every result but NGX_OK to NGX_DONE).           *)
(***************************************************************************)
GetCachedPeer(p, a) ==
  /\ MayConnect(p)
  /\ \E i \in DOMAIN cache :
       /\ Matches(i, a)
       /\ \A j \in 1 .. (i - 1) : ~Matches(j, a)
       /\ cache' = Unlink(cache, cache[i])
       /\ free' = InsertHead(free, cache[i])
       /\ LET c == itemConn[cache[i]]
          IN  /\ data' = [data EXCEPT ![c] = p]
              /\ pcConn' = [pcConn EXCEPT ![p] = c]
              /\ edge' \in {edge, [edge EXCEPT ![c] = eof[c]]}
  /\ pcAddr' = [pcAddr EXCEPT ![p] = a]
  /\ UNCHANGED <<itemConn, itemAddr, open, remote, eof>>

\* No cached connection fits and nginx opens a new one.
OpenPeer(p, a, c) ==
  /\ MayConnect(p)
  /\ \A i \in DOMAIN cache : ~Matches(i, a)
  /\ ~open[c]
  /\ open' = [open EXCEPT ![c] = TRUE]
  /\ data' = [data EXCEPT ![c] = p]
  /\ remote' = [remote EXCEPT ![c] = a]
  /\ eof' = [eof EXCEPT ![c] = FALSE]
  /\ edge' = [edge EXCEPT ![c] = FALSE]
  /\ pcConn' = [pcConn EXCEPT ![p] = c]
  /\ pcAddr' = [pcAddr EXCEPT ![p] = a]
  /\ UNCHANGED poolVars

(***************************************************************************)
(* nginx could not open a connection: ngx_event_connect_peer either never  *)
(* got a slot, and leaves pc->connection alone, or closed the slot again   *)
(* and set pc->connection to NULL.  pc->sockaddr is already the new one.   *)
(***************************************************************************)
ConnectFails(p, a) ==
  /\ MayConnect(p)
  /\ \A i \in DOMAIN cache : ~Matches(i, a)
  /\ \/ SlotFailures /\ UNCHANGED pcConn
     \/ pcConn' = [pcConn EXCEPT ![p] = NULL]
  /\ pcAddr' = [pcAddr EXCEPT ![p] = a]
  /\ UNCHANGED <<poolVars, connVars>>

-----------------------------------------------------------------------------

(***************************************************************************)
(* ngx_http_php_keepalive_close, and ngx_close_connection: c->data of a    *)
(* closed slot links nginx's list of free slots.                           *)
(***************************************************************************)
Close(c) ==
  /\ open' = [open EXCEPT ![c] = FALSE]
  /\ remote' = [remote EXCEPT ![c] = NULL]
  /\ eof' = [eof EXCEPT ![c] = FALSE]
  /\ edge' = [edge EXCEPT ![c] = FALSE]

\* The fields free_peer writes once it has chosen item i for connection c.
StoreIn(i, p) ==
  LET c == pcConn[p]
  IN  /\ itemConn' = [itemConn EXCEPT ![i] = c]
      /\ itemAddr' = [itemAddr EXCEPT ![i] = pcAddr[p]]
      /\ pcConn' = [pcConn EXCEPT ![p] = NULL]
      /\ pcAddr' = [pcAddr EXCEPT ![p] = NULL]

(***************************************************************************)
(* Can free_peer work on the connection?  On a slot that was closed before *)
(* c->pool is NULL and c->pool->log kills the worker; Owned says when that *)
(* cannot be.                                                              *)
(***************************************************************************)
CanFree(p) == Holds(p) /\ MaxCached > 0 /\ open[pcConn[p]]

(***************************************************************************)
(* finalize with the pool enabled and a free item left.  An event that is  *)
(* active is not armed again, and nobody asks what it has reported before. *)
(***************************************************************************)
FreePeer(p) ==
  /\ CanFree(p)
  /\ free # <<>>
  /\ LET i == QueueHead(free)
     IN  /\ free' = Unlink(free, i)
         /\ cache' = InsertHead(cache, i)
         /\ data' = [data EXCEPT ![pcConn[p]] = i]
         /\ StoreIn(i, p)
  /\ UNCHANGED <<open, remote, eof, edge>>

\* Mutant of FreePeerEvicting: the evicted connection is not closed.
FreePeerEvictingOpen(p) ==
  /\ CanFree(p)
  /\ free = <<>>
  /\ LET i == QueueLast(cache)
     IN  /\ cache' = InsertHead(Unlink(cache, i), i)
         /\ data' = [data EXCEPT ![pcConn[p]] = i]
         /\ StoreIn(i, p)
  /\ UNCHANGED <<free, open, remote, eof, edge>>

\* Mutant of FreePeerEvicting: the connection used last is evicted.
FreePeerEvictingHead(p) ==
  /\ CanFree(p)
  /\ free = <<>>
  /\ LET i == QueueHead(cache)
     IN  /\ cache' = InsertHead(Unlink(cache, i), i)
         /\ Close(itemConn[i])
         /\ data' = [data EXCEPT ![itemConn[i]] = NULL, ![pcConn[p]] = i]
         /\ StoreIn(i, p)
  /\ UNCHANGED free

\* finalize with every item in use: the connection idle longest is closed.
FreePeerEvicting(p) ==
  /\ CanFree(p)
  /\ free = <<>>
  /\ LET i == QueueLast(cache)
     IN  /\ cache' = InsertHead(Unlink(cache, i), i)
         /\ Close(itemConn[i])
         /\ data' = [data EXCEPT ![itemConn[i]] = NULL, ![pcConn[p]] = i]
         /\ StoreIn(i, p)
  /\ UNCHANGED free

(***************************************************************************)
(* finalize when the pool does not take the connection: keepalive is off,  *)
(* the read event cannot be re-armed, or the socket was finalized before   *)
(* (pc->sockaddr is NULL).  The connection is closed, but pc->connection   *)
(* goes on pointing at its slot.                                           *)
(***************************************************************************)
CloseConnection(p) ==
  /\ pcConn[p] # NULL
  /\ pcAddr[p] = NULL => Careless
  /\ Close(pcConn[p])
  /\ data' = [data EXCEPT ![pcConn[p]] = NULL]
  /\ pcAddr' = [pcAddr EXCEPT ![p] = NULL]
  /\ UNCHANGED <<poolVars, pcConn>>

-----------------------------------------------------------------------------

\* The server closes the connection, or sends something nobody asked for.
ServerEof(c) ==
  /\ open[c]
  /\ ~edge[c]
  /\ eof' = [eof EXCEPT ![c] = TRUE]
  /\ edge' = [edge EXCEPT ![c] = TRUE]
  /\ UNCHANGED <<poolVars, open, data, remote, peerVars>>

\* The event of a connection that a socket uses: it runs the socket's handler.
SocketEvent(c) ==
  /\ open[c]
  /\ data[c] \in Peer
  /\ edge[c]
  /\ edge' = [edge EXCEPT ![c] = FALSE]
  /\ UNCHANGED <<poolVars, open, data, remote, eof, peerVars>>

\* Mutant of CloseHandler: the item of the closed connection stays cached.
CloseHandlerKeepingItem(c) ==
  /\ open[c]
  /\ data[c] \in Item
  /\ edge[c] /\ eof[c]
  /\ Close(c)
  /\ data' = [data EXCEPT ![c] = NULL]
  /\ UNCHANGED <<poolVars, peerVars>>

\* Mutant of CloseHandler: the event is re-armed whatever recv returned.
CloseHandlerRearming(c) ==
  /\ open[c]
  /\ data[c] \in Item
  /\ edge[c]
  /\ edge' = [edge EXCEPT ![c] = FALSE]
  /\ UNCHANGED <<poolVars, open, data, remote, eof, peerVars>>

(***************************************************************************)
(* The read handler of an idle connection, when the peeking recv returns   *)
(* anything but EAGAIN.  (On EAGAIN it only re-arms the event.)  Only an   *)
(* event calls it: what a socket was told of before it gave the connection *)
(* back is not told again.                                                 *)
(***************************************************************************)
CloseHandler(c) ==
  /\ open[c]
  /\ data[c] \in Item
  /\ edge[c] /\ eof[c]
  /\ Close(c)
  /\ data' = [data EXCEPT ![c] = NULL]
  /\ cache' = Unlink(cache, data[c])
  /\ free' = InsertHead(Unlink(free, data[c]), data[c])
  /\ UNCHANGED <<itemConn, itemAddr, peerVars>>

-----------------------------------------------------------------------------

Next ==
  \/ \E p \in Peer, a \in Addr : GetCachedPeer(p, a)
  \/ \E p \in Peer, a \in Addr, c \in Conn : OpenPeer(p, a, c)
  \/ \E p \in Peer, a \in Addr : ConnectFails(p, a)
  \/ \E p \in Peer : FreePeer(p)
  \/ \E p \in Peer : FreePeerEvicting(p)
  \/ \E p \in Peer : CloseConnection(p)
  \/ \E c \in Conn : ServerEof(c)
  \/ \E c \in Conn : SocketEvent(c)
  \/ \E c \in Conn : CloseHandler(c)

\* epoll delivers the events on its ready list sooner or later.
Fairness == \A c \in Conn : WF_vars(CloseHandler(c))

Spec == Init /\ [][Next]_vars /\ Fairness

-----------------------------------------------------------------------------

TypeOK ==
  /\ cache \in Seq(Item)
  /\ free \in Seq(Item)
  /\ itemConn \in [Item -> Conn \cup {NULL}]
  /\ itemAddr \in [Item -> Addr \cup {NULL}]
  /\ open \in [Conn -> BOOLEAN]
  /\ data \in [Conn -> Peer \cup Item \cup {NULL}]
  /\ remote \in [Conn -> Addr \cup {NULL}]
  /\ eof \in [Conn -> BOOLEAN]
  /\ edge \in [Conn -> BOOLEAN]
  /\ pcConn \in [Peer -> Conn \cup {NULL}]
  /\ pcAddr \in [Peer -> Addr \cup {NULL}]

(***************************************************************************)
(* Every item is linked into exactly one of the two queues, exactly once:  *)
(* no sequence of connects, closes, evictions and close events, failing    *)
(* ones included, loses a cache slot or links one twice.                   *)
(***************************************************************************)
Partition ==
  /\ Simple(cache)
  /\ Simple(free)
  /\ Linked(cache) \cap Linked(free) = {}
  /\ Linked(cache) \cup Linked(free) = Item

(***************************************************************************)
(* A connection belongs to one.  A cached item leads to an open connection *)
(* whose c->data leads back to it, and so does a socket that holds one: no *)
(* get_peer hands out a closed slot, no two requests share a connection,   *)
(* and none is idle in the pool meanwhile.                                 *)
(***************************************************************************)
Owned ==
  /\ \A i \in Cached : /\ itemConn[i] # NULL
                       /\ open[itemConn[i]]
                       /\ data[itemConn[i]] = i
  /\ \A p \in Peer : Holds(p) => open[pcConn[p]] /\ data[pcConn[p]] = p

(***************************************************************************)
(* A connection is filed under the address it leads to, so a script that   *)
(* connects to an address talks to that server.                            *)
(***************************************************************************)
AddrTrue ==
  /\ \A i \in Cached : itemConn[i] # NULL => remote[itemConn[i]] = itemAddr[i]
  /\ \A p \in Peer : Holds(p) => remote[pcConn[p]] = pcAddr[p]

(***************************************************************************)
(* Every open connection is reachable, from the cache or from the socket   *)
(* that holds it: none is left open with nobody to close it.               *)
(***************************************************************************)
NoLeak ==
  \A c \in Conn : open[c] =>
    \/ \E i \in Cached : itemConn[i] = c
    \/ \E p \in Peer : Holds(p) /\ pcConn[p] = c

(***************************************************************************)
(* What closes a connection a socket holds is that socket's own finalize,  *)
(* which forgets the address: no other socket's close and no pool eviction *)
(* reaches it.                                                             *)
(***************************************************************************)
LiveConnStaysOpen ==
  [][\A p \in Peer :
       (Holds(p) /\ open[pcConn[p]] /\ data[pcConn[p]] = p /\ ~open'[pcConn[p]])
         => pcAddr'[p] = NULL]_vars

Idle(c) == \E i \in Cached : itemConn[i] = c

(***************************************************************************)
(* A connection that its server closes while it is cached does not stay in *)
(* the cache: its close handler removes it, unless a script is given it    *)
(* first.  Nor does one whose end was still to be reported when its socket *)
(* gave it back.  (One whose socket was told of the end stays.)            *)
(***************************************************************************)
DeadConnLeaves ==
  \A c \in Conn : (Idle(c) /\ eof[c] /\ edge[c]) ~> ~(Idle(c) /\ eof[c])

(***************************************************************************)
(* The pool implements the abstract pool: the same connections in the same *)
(* order of last use.                                                      *)
(***************************************************************************)
Pool == INSTANCE ConnPool WITH
          Capacity <- MaxCached,
          pool <- [i \in DOMAIN cache |->
                     [conn |-> itemConn[cache[i]], addr |-> itemAddr[cache[i]]]]

ImplementsPool == Pool!Spec

=============================================================================
