# ngx-php in TLA+

Specifications of ngx-php, the nginx module that runs PHP scripts in the
phases of a request (`src/src`, version of this repository), with the TLC
configurations that check them and TLAPS proofs of their main properties. Each
definition names the code it stands for in its comment, and `PROJECT.json`
("map") gives the lines.

## The system

An nginx worker is one thread with an event loop. Everything of ngx-php runs in
it: there are no locks, but each event runs for one request, PHP is shared by
all, and a script that yields is continued by a later event. The hard
behaviours come from that: what one event leaves in shared or per-request state
meets what another event expects.

| Component | State it keeps | Operations | What is hard | What makes it correct |
| --- | --- | --- | --- | --- |
| Phase handlers (`ngx_http_php_handler.c`) | `ngx_http_php_ctx_t` of a request: `phase_status`, output, closure; `r->main->count`; the globals `ngx_php_request`, `EG(exit_status)` | post-read; rewrite, access and content handlers, inline and from a file; the callback of the body; opcode and stack handlers; filters | re-entry after a suspension, status of another script, HEAD, internal redirects which clear the ctx, phases that run inside a handler | phases in order, no script twice; body before script; exact reference count; answered once; own output, own status |
| Uthreads (`ngx_http_php_zend_uthread.c`) | `ctx->generator_closure`, `phase_status` | create, resume, end, bail-out | bail-outs unwind past the code that goes on with the request | script code only for the live request PHP believes it runs for; whoever is parked is woken |
| Sleep timer (`ngx_http_php_sleep.c`) | `ctx->sleep` | set, expire, clean up | the timer lies in the memory of the request | never set for a freed request or one without ctx |
| Upstream socket (`ngx_http_php_socket.c`, `php_ngx_sockets.c`) | `ctx->upstream`: handlers, timers, buffer, `enabled_receive`, peer | connect (resolver), send, recv, recvpage, recvwait, recvsync, close, clear | every event resumes the script, whatever it waits for; edge-triggered events with two halves; time-outs | no call waits for ever; a receive returns with data; nothing leads to a request that has ended |
| Keepalive pool (`ngx_http_php_keepalive.c`) | two queues of items, `c->data`, `pc->connection` | get_peer, free_peer (with eviction), close_handler | a connection belongs to whom one pointer says; close event against reuse | items partitioned; owners right; LRU order; nothing leaks |
| Configuration (`ngx_http_php_directive.c`, `ngx_http_php_module.c`) | a handler and code per context and phase; `enabled_*`; compiled flags | directives, merge, first use | contexts inherit field by field, and merges write to the parent | a handler has code; the innermost script runs; compiled once |
| Block directives (`ngx_php_conf_file.c`) | nginx's 4096 byte buffer and its pointers | read, move and refill | a block straddles the buffer's end | the script is the text between its braces |
| Fields of a request (`php_ngx_core.c`, `php_ngx_cookie.c`) | none between calls | query_args, post_args, cookie_get | parsers in one pass with skipped characters; a body in several buffers | the fields that were sent |
| Output (`ngx_http_php_core.c`) | `ctx->rputs_chain`, `content_length_n` | `ub_write` | filed under a global; counted from -1 on, piece by piece | own output; announced length is the length sent |
| PHP glue, headers, variables, debugging | none that lasts | | | not modelled |

The handlers start scripts (create), scripts suspend in the sleep timer or the
socket, the timer's and the connection's events resume them (resume), the end
of a generator re-enters nginx's phase engine, which calls the handlers again.
The socket gets its connections from the pool and gives them back. The
configuration decides which handler a phase of a location has.

## Modules

| Module | Models | Correspondence |
| --- | --- | --- |
| `Uthread` | the phase handlers, uthreads, sleep timer and output of one worker | a variable per field of the request and its ctx, per PHP global, and for where the worker is in the event (`running`, `at`, `rc`); an action per return path of a handler (`SetOutputStatus`, `SetOutputSend`, ...), per thing a script does (`Echo`, `SetStatus`, `Yield`, `Exit`, ...) and per checker of nginx, which are external and modelled as far as the return values reach |
| `Turns` | what a worker promises its requests: an abstract specification | a request is new, running, asleep, left or over, and has an answer or none; `Uthread!Turn` is the refinement mapping |
| `Request` | one request with its body, its output and its internal redirects | `frames` is the C stack: the handlers and redirects inside which the phases run again; `ctx` is a record of the ctx's fields, NULL when there is none; `length` is `content_length_n`; `answer` what was sent. An action per return path, as in `Uthread`; `ReadBodyNow`, `ReadBodyLater`, `BodyArrives` are the three ways the callback is reached |
| `Socket` | one upstream socket of one request and its script | a script is a sequence of calls; `at` is where the worker is in an event; `edge`, `inbox`, `owed`, `eof`, `full`, `tcp` are the kernel and the server |
| `NgxQueue` | `ngx_queue_t` | sequences; external |
| `Keepalive` | the pool with the sockets that use it | queues of item numbers, `itemConn`/`itemAddr` the items' fields, `data` is `c->data`, `pcConn`/`pcAddr` a socket's peer, `edge` epoll's ready list: a read event is reported once |
| `ConnPool` | what a pool promises: an abstract specification | `Keepalive!Pool` is the refinement mapping |
| `Configuration` | directives, merge, first compilation | a script is known by the context that has its directive; `own` is history. Blocks are filed by the handlers of the blocks, which for the log phase take the text for the name of a file (`FileCode`) and not for inline code (`FileInline`) |
| `BlockParser` | the parser of block directives | `pos`, `last`, `start` are indices of the buffer, only braces are told apart |
| `Fields` | the parsers of arguments and cookies | `buf`, `p` are indices of the text, whose alphabet is the constant `Letter`, with its `Lower` case, and the four separators; the result is a function |
| `*Proofs` | theorems and their proofs | extend the module they are about |
| `Induction` | induction over the naturals as a lemma on sets | for ConfigurationProofs, FieldsProofs and SocketProofs |
| `MC*` | constants for TLC | |

Uthread abstracts the sockets to the sleep timer (both suspend a script by
phase_status `NGX_AGAIN` and end in `zend_uthread_resume`), and Socket abstracts
the phases to one script. Uthread has several requests without bodies, whose
globals get in each other's way; Request has one, whose body and redirects run
the phases inside each other. Whether a closure is destroyed is a matter of
Uthread, what is written and how long it is one of Request. Keepalive abstracts both to connect and close.

## Runs

| Run | Instance and what it shows |
| --- | --- |
| `UthreadInline` | Two requests: one with a rewrite script from a file and inline access and content scripts, and a HEAD request with an access script in front of a static file. Scripts set 200 and an error status, may die, and suspend once each; both requests may be redirected once. Two requests are what it takes for the globals to be confused; one suspension per phase gives every re-entry, and every pair of kinds that can follow each other without destroying a closure twice occurs. All properties of Uthread, the refinement of `Turns` and `Served` among them: every request is answered unless its script ended itself or another's status reached it. |
| `Request` | Every method (PUT stands for DELETE and PATCH too), every kind of script in each phase, bodies that are missing, in memory and in a file, with and without filters; one suspension per script, one redirect, two bytes of output. A redirect inside a body callback inside a handler is three runs of the phases deep, and no phase needs more to meet every other. All of its safety properties, that ngx_exit is final, and `Served`. |
| `RequestAccess` | Violation, see below. |
| `UthreadExit`, `UthreadForeign` | Violations, see below. |
| `SocketScripts` | The scripts of the documentation, the tests and the client libraries: one exchange, by name and by address, with and without the pool, under every fault at once and with a cooperative server that is slow, closes early or does not answer the connect; two exchanges over the pool, with a sleep between them; packets (`recv`, then `recvsync`) and pages (`recvpage`) after a greeting; `recvwait`; scripts that sleep while they are connected; scripts that exit in the middle under every fault. Its safety properties (`Wakes`, `TimersAttached`, `EndsClean`, `OwnReply`, `RecvReturnsData`), that a cooperative script comes to its end, and that the connection of a script that exited is given up. Replies have at most two pieces, enough for one to arrive on its own and for both to arrive together. |
| `SocketReceives` | Violation, see below. |
| `KeepalivePool` | Two sockets, two servers, three connection slots, a pool of two: the pool fills and evicts with a connection left to evict for. Any event may fail to be re-armed, any connect may fail after it got a slot. Servers close connections at any time, before or after the last event of their socket. Refinement of ConnPool included, and `DeadConnLeaves`: a connection that its server closes while it is cached leaves the cache. |
| `KeepaliveOff` | Violation, see below. |
| `Configuration` | http, a server and two locations; the log phase (files, inline scripts, and the block that is filed as a file), a filter (inline scripts and blocks only) and the opcode phase (merged upward). Every combination of directives and blocks. Three contexts deep with two siblings: a script may come from the context itself, the one around it or the one around that, and a sibling may inherit after another was merged. |
| `BlockParser` | Every file of up to seven of `{`, `}`, `x`, with a buffer of four and every place in the buffer where the block may begin: blocks that fit, that straddle, that are refilled twice and that are too long. |
| `Fields` | Every request of up to three fields, over names of which one begins like another and one is another's capital, values empty or not, bodies cut at every place, and both separators of cookies. |

`CHECK_DEADLOCK` is on everywhere: a worker without events waits in epoll (the
action `Wait`), and what ends has an action `Done`.

### Fairness

`Uthread`: the worker finishes the event it is handling, and a set timer fires;
that is the event loop. Clients promise nothing. `Request`: also, a body that is
being read arrives, or its client leaves or is timed out
(`client_body_timeout`). This takes for granted that nginx goes on reading a body
after the handler returned `NGX_AGAIN`; a version that replaces
`r->read_event_handler` when it finalizes the request does not. `Socket`: also, the kernel
gives a connect that is not lost an outcome and drains its buffers, a server
sends what it owes, and a server that closes connections at all closes an idle
one in the end. The last four are not nginx's, and are what "cooperative" means
for the peers. `Keepalive`: epoll delivers a read event that is
on its ready list. Events are edge-triggered: an end that a socket was told of before it gave the
connection back is not reported again, and nothing is promised for it.
The other modules have no liveness properties.

## What is proved

TLAPS checks these for every value of the constants. The proofs split the
next-state relation by action; each lemma `...Keeps` or `...Step` is one action.

* **Keepalive** (`KeepaliveProofs`), for any number of items, connections,
  addresses and sockets. `ItemsPartitioned` and `TypeCorrect` hold whatever
  fails. They rest on lemmas on sequences without repetition (`InsertHeadProps`,
  `UnlinkProps`, `MoveProps`). `ConnectionsOwned`, `AddressesTrue`,
  `NothingLeaks`, `LiveConnectionsStay` and `PoolImplemented` are proved for
  `Disciplined` sockets: a socket is closed once before it is connected
  again (`~Careless`), and a connect gets a slot (`~SlotFailures`); without the
  first they are false, as `KeepaliveOff` shows, and without the second a socket
  keeps a pointer to a slot it closed. Events may fail, and the pool may be off.
  The invariant `OwnInv` goes round the pointers: item to connection, connection
  to owner, socket to connection. None of the three is inductive alone, because
  an eviction closes what one of them leads to and changes what another one
  leads to. `PoolImplemented` is the refinement: each action of Keepalive is
  mapped to one of `ConnPool` or to a stutter, by lemmas on what unlinking,
  inserting and moving do to a sequence.
* **Uthread** (`UthreadProofs`), for any requests, any kinds of scripts in the
  phases, any number of suspensions and redirects: `TypeCorrect`, `OutputIsOwn`,
  `ScriptsRunForLiveRequests`, `CountIsExact`, `ParkedRequestsWake`,
  `NoTimerIsStray`, `TurnsImplemented`. The properties speak of moments (a parked
  request, a running script), the invariant `IInv` of what must hold in between:
  `RunningInv` says by how far the worker is with an event what its request looks
  like, `TimerInv` what it looks like while its timer is set, `ParkedInv` why
  it is parked. `OthersKeep` shows once that a step for one request leaves the
  others alone. `TurnsImplemented` is the refinement of `Turns`: with `IInv` before and
  after a step, a turn begins in the post-read handler or the timer's, and ends asleep only
  unanswered and with its timer set. A second layer, `PhasesInv`, adds which scripts ran
  (`OrderInv`), whose status the global holds (`StatusInv`) and which closures
  were destroyed (`ClosureInv`), for `PhasesInOrder`, `StatusIsOwn` and
  `ClosuresDestroyedOnce`. The last one assumes `FilesComeFirst`: no script from a
  file comes in a phase behind an inline one. Without it it is false, see below.
* **Request** (`RequestProofs`), for any set of requests, any statuses, any length of
  the output, any depth of redirects: `TypeCorrect`, `CountIsExact`,
  `BodyComesFirst`, `ScriptsStartOnce`, `LengthIsTrue`, `ParkedRequestsWake`,
  `ExitEnds`. All assume `PlainAccess`: no inline access script for a method with
  a body, which `RequestAccess` shows to be needed. The invariant `IInv` says what
  a handler that waits in `frames` will find when it goes on: that the request
  has been answered, ended or parked, so that its `NGX_OK` only gives back the
  reference it holds. The count is then exact by the length of `frames`.
* **Socket** (`SocketProofs`), in three layers. For any scripts, faults and lengths of
  replies: `TypeCorrect`, and for scripts that end each of their connections and do not sleep
  while they are connected (`Orderly`) `CallsFindConnection`, `TimersAreAttached` and `EndsAreClean`.
  All of Socket assumes scripts that use a connection only while they have one (`UsesOpen` in
  `SocketAssumption`); a script that sleeps while it is connected can nevertheless be resumed
  by its leftover sleep while the next name is resolved, and would then make its next call on the
  connection it closed. `Resume` ends a behaviour before that; `CallsFindConnection` shows that it never has to for
  an orderly script, whose calls all find the connection it has. The
  invariant `OrderInv` says who may resume an orderly script: between connections
  the sleep timer only, while a connection is open its events, its timers and the
  resolver only. So nothing can resume it twice, and the timers of a connection
  are deleted with it. For the script of one exchange, with
  a server that does not speak before the request, by name or by address, with or
  without the pool and under any faults: `ExchangesWake` and `ExchangesReceive`.
  Their invariant `ExchangeInv` has a part per call (`ConnectInv`, `SendInv`,
  `RecvInv`, ...): an attempt to connect has its timer or ends with an edge; a
  request that is sent is owed an answer, or an edge reports the answer or the end;
  a receive that found nothing has its timer; and whatever resumes a receive,
  the second half of an event included, leaves data, an end or a time-out
  behind it (`Got`). For conversations, any number of exchanges with sleeps between them, over the
  pool or not, with a server that answers each request it has received in time, whole and in
  one piece unless it closes the connection (`Conversation`): `RepliesAreOwn`,
  `ConversationsReceive` and `ConversationsWake`. A later exchange inherits what the pool kept of
  the connection: its `timedout` flags, an end, a full buffer, a lost handshake. `TalkInv` says
  after each call what of the reply is still due, so that nothing is when the script closes
  (`BetweenParts`): a conversation pools nothing with a reply still to come (`TalkPoolsEmpty`), and
  `RepliesAreOwn` follows. It holds for scripts without the pool, too, and for one exchange with it. `GotInv` and `WakeInv` add
  what resumes each call and what it then finds. `ConversationsWake` excludes lost handshakes, with
  which it is false (see below); `ConversationsReceive` and `RepliesAreOwn` do not.
* **Configuration** (`ConfigurationProofs`), for any tree of contexts and any order in
  which nginx merges them, the one around a context first: `TypeCorrect`, `HandlersHaveCode`, `FunctionsDefinedOnce`,
  `MergesLeaveParents`, `InnermostScriptRuns`. The invariant adds that nothing is compiled before
  all is merged. `HandlersHaveCode` speaks of merged contexts (`Settled`): until its merge a context with
  a log block has an inline handler and no inline code. In `InnermostScriptRuns` such a block does
  not count as a script, since it never runs. For the last one `InheritedScripts` says how far the merge has come: a context
  that is not merged is as it was parsed, a merged one has inherited. `Innermost` is a recursive
  function over the tree; `InnermostEquation` shows that it exists, and unfolds it by one context.
* **BlockParser** (`BlockParserProofs`), for any files and any size of the buffer:
  `TypeCorrect`, `WindowIsTrue`, `BlocksAreRead`, `BlocksAreRefused`. The
  invariant adds that `deep` is the number of braces open at the position.
  The lemmas count braces by cardinalities of finite sets.
* **Fields** (`FieldsProofs`), for any alphabet with any lower case of its letters, any names and values over it, any number of fields
  and any cut of the body into buffers: `ArgsCorrect` and `CookieCorrect`. The text is
  a fold of the fields, so the first lemmas say where in it each name and value lies (`Flattening`,
  by induction over the fields). The invariant then ties the indices `buf` and `p` to a field and a
  place in it, and the result to the fields before it.

The library's induction theorems take an operator as parameter, which the provers cannot
instantiate. `Induction` states induction for a set of naturals, from the pigeonhole principle,
which the library proves for sets and functions: a set with 0 that is closed under
successor has all naturals. It is used for the tree of contexts, the text of Fields and the calls of a conversation.

The assumptions are the `ASSUME`s of the modules, on types of the constants; TLC
evaluates them in the runs.

Every safety property of the runs is stated by a theorem, some of them for part of the
instances only. Only model-checked are the liveness properties (`Served`, `Finishes`, `ExitReleases`,
`DeadConnLeaves`), which are out of the prover's reach; and of Socket, `Wakes` and
`RecvReturnsData` for scripts that are neither one exchange nor a conversation (a server that
speaks first, `recvpage`, `recvsync`, `ngx_exit` in the middle), and `OwnReply` for such
scripts over the pool.

## Where the code and its documentation disagree

Runs show five:

* `KeepaliveOff`: without `php_keepalive`, `ngx_socket_close` leaves
  `peer.connection` at a slot it has closed (`ngx_http_php_socket.c:439`). A second
  close closes whoever has that slot by then.
* `UthreadExit`: a script that calls `ngx_exit` after it was resumed leaves its
  request unanswered (`ngx_http_php_zend_uthread.c:526`); README.md:513.
* `UthreadForeign`: a handler re-entered after a suspension takes the global exit
  status, which another request's script may have set
  (`ngx_http_php_handler.c:648`); README.md:513.
* `RequestAccess`: an access script of a request whose body it waits for runs inside
  the handler that reads the body; whatever it did, that handler returns `NGX_OK`
  and nginx goes on to the content phase (`ngx_http_php_handler.c:613`). A script
  that called `ngx_exit` to refuse the request is followed by the content script;
  README.md:513. Rewrite and content scripts are not affected: their checkers end
  at `NGX_OK`.
* `SocketReceives`: every event of the connection resumes the script, whatever it
  reports (`ngx_http_php_socket.c:93`). A receive that finds nothing adds its read event again
  (`ngx_http_php_socket.c:1107`); epoll answers with what is ready, which is the write direction only, and this event
  resumes the receive without data; README.md:916. This is why the client
  libraries receive in loops.

Others were met while modelling. The modules follow the code in them, and the
properties are stated around them:

* A complete send sets no timer and is reported by nothing: with a server that never
  answers, the script stays in `ngx_socket_send` (README.md:890). A name
  that is not resolved resumes nobody; a refused connection is taken for a
  connected one. Hence `Cooperative` in `Wakes` and `Finishes`.
* Any event of the socket resumes the script: it cuts `ngx_sleep` short, and
  `ngx_socket_send` returns before a request sent bit by bit is sent. Hence the
  `"partial"` in `RecvReturnsData`.
* A receive that finds its data at once is suspended all the same, with no timer,
  and goes on with the next event. When the server speaks first and closes early
  there may be none left, hence no server of that kind in `ExchangesWake`
  (`ngx_http_php_socket.c`, `ngx_http_php_socket_recv`).
* A script that sleeps while it is connected, is resumed by an event and then ends
  leaves its sleep timer set. After a content answer the request has no ctx, so that
  `ngx_http_php_sleep_cleanup` returns (`ngx_http_php_sleep.c:37`) and the timer stays in memory
  that is freed. `EndsClean` is false of such scripts, and stated for `Orderly` ones.
* A pooled connection may still owe data to its last user; `OwnReply` is checked and proved
  with replies of one piece, read whole.
* Nothing is asked of a connection before it is pooled: one whose connect timed out is given to the next
  request, whose `ngx_socket_connect` takes it for connected (`NGX_DONE`) and sets no
  timer, so that it waits for as long as the kernel says nothing (`ngx_http_php_keepalive.c`,
  `ngx_http_php_keepalive_free_peer`). Hence no lost handshakes in the run's two exchanges and in
  `ConversationsWake`.
* Nor is it asked whether the server has closed it: events are edge-triggered, re-arming an active
  one does nothing (`ngx_http_php_keepalive.c:116`), and `free_peer` does not look at `eof`. A connection
  whose end its socket was told of stays in the cache, and may be given to the next request.
  `DeadConnLeaves` therefore speaks of ends that are still to be reported.
* A socket that was closed without the pool has a `peer.connection` that is not NULL, and the functions of the
  socket test nothing else (`ngx_http_php_socket.c:983`, `1020`, `1074`, `1151`, `1225`, `1269`): a send or a receive
  after the close acts on a slot that may be another request's. Hence `UsesOpen`.
* The read event's `timedout` flag is never reset; a late answer is ignored, and the
  flag goes to the pool with the connection.
* `pc->cached` outlives the connection it was set for, so `ngx_socket_iskeepalive`
  may call a new connection reused.
* The access phase leaks the reference of each suspension (`Leaked` in
  `ParkedWakes`, `waits` in `CountExact`).
* A ctx allocated after an internal redirect has `phase_status` 0, which is
  `NGX_OK`: the content script after `try_files` or `index` is not run and an
  empty page is sent. The first half of `InOrder` is stated for requests that
  were not redirected.
* After a redirect the flag that the body was read is gone with the ctx. A body
  in memory is then read once more, its callback finds
  `request_body_more` unset, runs no phases, and the request hangs (`forgotten`
  in Request's `ParkedWakes` and `Served`).
* A redirect drops the output and not its length, a body filter script adds to
  the output after its length was sent (`lost` in `LengthTrue`), and what a
  header filter script writes is counted for nginx's own pages too.
* A content script from a file that sets the status 200 (`ngx_status` or `ngx_exit`)
  ends its request with nothing sent (`Silent` in `Served`,
  `ngx_http_php_handler.c:1008`); `ngx_exit(0)` or `ngx_exit(200)` in a rewrite or access
  script that wrote nothing goes on to the next phase.
* What opcode and stack scripts write is discarded, and so is their `ngx_exit`.
* `set_output` leaves a dangling closure, which is destroyed again when a rewrite script
  that is a generator is followed by a content script in a file
  (`FilesComeFirst`).
* A connect that gets no slot after an event failed leaves the socket with a
  pointer to a slot that was closed (`SlotFailures`).
* `ngx_exit(404)` in an inline content script that was not suspended sends the
  output with status 200, unless the status was set by `ngx_status`.
* The merge of a context whose parent has no handler drops a file directive;
  opcode and stack scripts are merged upward, into the parent; a second block
  directive of a phase is ignored without an error (the return value is dropped,
  `ngx_php_conf_file.c:525`).
* `log_by_php_block` files its text as `log_code`, the name of a file, with the handler for inline code
  (`ngx_http_php_directive.c:195`), and the merge then takes the handler of the parent for want of inline code
  (`ngx_http_php_module.c:689`). The block never runs: without a script around the location
  nothing does, an inline one around it runs in its stead, and the handler of a file around it opens the block's text as a file.
* `php_keepalive` has an effect in the server context only.
* A value of the query with a `=` in it comes out under another name
  (README.md:524 promises the arguments); a POST body that nginx wrote to a file gives an empty
  array; `ngx_cookie_get` compares only as far as the wanted name, whatever the case
  (`ngx_strncasecmp`, `php_ngx_cookie.c:102`): it takes a cookie whose name begins with the wanted one,
  and `A=1` for `a`, the only cookie there is or not (`CookieIsField` leaves those cases out: `Alike`).

## Not modelled, and why

* The log phase: its script runs when the request is freed, and not at all for
  a request whose ctx was given up with its answer. `error_page`, `satisfy any`,
  subrequests and HTTP/2.
* Two sockets in one request: a request has one `ctx->upstream` whatever it
  creates; Keepalive's `Careless` shows the part the pool sees.
* Calls on a socket after its close, other than connect (`UsesOpen` in Socket); the second close is in
  Keepalive (`Careless`).
* A client that leaves while a script runs or sleeps: nginx does not tell the module.
* Lengths of time-outs; sizes of buffers, except where they bite (BlockParser).
* A cookie header per header line: `Fields` has one. Characters that PHP would decode.
* The PHP glue (copies of `zend_call_function`, start-up), headers, variables,
  logging: no state of their own between calls. `ngx_http_php_output.c`,
  `ngx_http_php_fnthread.c` and `php_ngx_track.c` are not built; `ngx_php_error_cb`,
  `ngx_http_php_zend_uthread_exit`, `ngx_http_php_zend_uthread_file_routine`,
  `ngx_http_php_content_post_handler` and the functions of `ngx_http_php_request.c` that
  read a body are never called.
* Third-party code.

## What is left

In order of importance; each step ends with its runs, mutants and proofs.

1. *Late answers*: a run of Socket with the `timedout` flag across the pool, and
   two sockets on one upstream.
2. *Composition*: `Turns` implemented by Request, too, where a request also waits
   for its body, and by Socket, where more than a timer wakes it.
3. *Proofs* for the scripts of Socket that are not conversations: a server that speaks first, and
   `recvsync` and `recvpage` of replies in several pieces.
4. *Log phase* in Request; `php_set` and the init scripts in Configuration.
