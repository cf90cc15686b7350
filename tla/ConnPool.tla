------------------------------ MODULE ConnPool ------------------------------
(***************************************************************************)
(* What a pool of idle upstream connections promises, whatever its queues  *)
(* look like: at most Capacity connections, each once; a taker gets the    *)
(* one for its address that was returned last; a full pool gives up the    *)
(* one idle longest, and only when another is returned.                    *)
(***************************************************************************)
EXTENDS Integers, Sequences

CONSTANTS Conn, Addr, Capacity

VARIABLE pool  (* idle connections, the one returned last first *)

Entry == [conn : Conn, addr : Addr]

Idle == {pool[i].conn : i \in DOMAIN pool}

Init == pool = <<>>

\* The k-th entry leaves the pool.
RemoveEntry(k) ==
  pool' = [i \in 1 .. (Len(pool) - 1) |-> IF i < k THEN pool[i] ELSE pool[i + 1]]

Take(a) ==
  \E k \in DOMAIN pool :
    /\ pool[k].addr = a
    /\ \A j \in 1 .. (k - 1) : pool[j].addr # a
    /\ RemoveEntry(k)

Return(e) ==
  /\ e.conn \notin Idle
  /\ Len(pool) < Capacity
  /\ pool' = <<e>> \o pool

ReturnEvicting(e) ==
  /\ e.conn \notin Idle
  /\ Capacity > 0
  /\ Len(pool) = Capacity
  /\ pool' = <<e>> \o SubSeq(pool, 1, Capacity - 1)

\* A connection closed by its server is dropped.
Drop(k) == k \in DOMAIN pool /\ RemoveEntry(k)

Next ==
  \/ \E a \in Addr : Take(a)
  \/ \E e \in Entry : Return(e) \/ ReturnEvicting(e)
  \/ \E k \in DOMAIN pool : Drop(k)

Spec == Init /\ [][Next]_pool

=============================================================================
