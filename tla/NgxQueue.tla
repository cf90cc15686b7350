------------------------------ MODULE NgxQueue ------------------------------
(***************************************************************************)
(* nginx's intrusive doubly linked queue (ngx_queue_t), as ngx-php uses it *)
(* in src/ngx_http_php_keepalive.c: a queue is a sequence whose first      *)
(* element is ngx_queue_head and whose last one is ngx_queue_last.         *)
(***************************************************************************)
EXTENDS Integers, Sequences

\* The elements linked into queue q.
Linked(q) == {q[i] : i \in DOMAIN q}

\* No element is linked twice.
Simple(q) == \A i, j \in DOMAIN q : q[i] = q[j] => i = j

QueueHead(q) == q[1]

QueueLast(q) == q[Len(q)]

InsertHead(q, x) ==
  [i \in 1 .. (Len(q) + 1) |-> IF i = 1 THEN x ELSE q[i - 1]]

\* ngx_queue_remove(x): a no-op for a queue x is not linked into.
Unlink(q, x) ==
  IF x \in Linked(q)
  THEN LET k == CHOOSE i \in DOMAIN q : q[i] = x
       IN  [i \in 1 .. (Len(q) - 1) |-> IF i < k THEN q[i] ELSE q[i + 1]]
  ELSE q

=============================================================================
