------------------------------ MODULE MCSocket ------------------------------
(***************************************************************************)
(* Instances of Socket for TLC: the scripts its documentation and its      *)
(* tests write.                                                            *)
(***************************************************************************)
EXTENDS Socket, TLC

\* One exchange with a server: t/007-ngx_socket.t.
Exchange == <<"connect", "send", "recv", "close">>

\* With a server that is slow or closes, and whatever fails.
OneExchange ==
  [program : {Exchange}, byName : BOOLEAN, keepalive : BOOLEAN, greets : {FALSE},
   faults : {{"lost", "slow", "eof", "full"}, Fault}, pieces : {2}]

\* A second exchange, on the connection the first gave to the pool.
TwoExchanges ==
  [program : {Exchange \o Exchange, Exchange \o <<"sleep">> \o Exchange},
   byName : {FALSE}, keepalive : {TRUE}, greets : {FALSE},
   faults : {{"full", "eof"}}, pieces : {1}]

\* A script that ends itself in the middle of an exchange, whatever fails.
Exits ==
  [program : {<<"connect", "exit">>, <<"connect", "send", "exit">>,
              <<"connect", "recv", "exit">>,
              <<"connect", "send", "recv", "exit">>},
   byName : {TRUE}, keepalive : BOOLEAN, greets : {FALSE},
   faults : {Fault}, pieces : {2}]

\* As the client libraries do: a greeting first (t/lib/mysql.php).
Greeted ==
  [program : {<<"connect", "recv", "send", "recv", "close">>},
   byName : {FALSE}, keepalive : {FALSE}, greets : {TRUE},
   faults : {{}}, pieces : {1}]

(***************************************************************************)
(* Packets whose length is read first and whose rest is taken with         *)
(* recvsync, and answers that are read in pages (t/lib/mysql.php); the end *)
(* by ngx_socket_clear (t/lib/redis.php).                                  *)
(***************************************************************************)
Packets ==
  [program : {<<"connect", "recv", "recvsync", "send", "recvpage", "recvpage", "clear">>},
   byName : {FALSE}, keepalive : BOOLEAN, greets : {TRUE},
   faults : {{"full"}}, pieces : {2}]

\* The same end, of one exchange that waits with recvwait.
Waited ==
  [program : {<<"connect", "send", "recvwait", "clear">>,
              <<"connect", "send", "recvwait", "recvsync", "clear">>},
   byName : {FALSE}, keepalive : {FALSE}, greets : {FALSE},
   faults : {{"eof"}}, pieces : {2}]

\* Scripts that sleep while they are connected: an event cuts that short.
Sleepers ==
  [program : {<<"connect", "send", "sleep", "recv", "close">>,
              <<"connect", "send", "recv", "sleep", "close">>},
   byName : {FALSE}, keepalive : {FALSE}, greets : {FALSE},
   faults : {{"eof"}}, pieces : {2}]

Scripts == OneExchange \cup TwoExchanges \cup Exits \cup Greeted \cup Packets \cup Waited \cup Sleepers

\* A loop of receives, as in t/lib/redis.php and t/lib/mysql.php.
ReceiveLoop ==
  [program : {<<"connect", "send", "recv", "recv", "recv", "close">>},
   byName : {FALSE}, keepalive : {FALSE}, greets : {FALSE}, faults : {{}},
   pieces : {2}]

=============================================================================
