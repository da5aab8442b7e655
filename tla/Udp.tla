-------------------------------- MODULE Udp ---------------------------------
(***************************************************************************)
(* The UDP protocol of one guest: applications with the library (udp_lib), *)
(* the slow path (udp_slow, appif), and the handlers that the fast-path    *)
(* cores run (udp_fast).  An application connects, each of its threads     *)
(* makes a context, and a thread then makes the calls of its script.       *)
(* Sockets and ports are made by the slow path and found by the cores in   *)
(* shared memory; payloads go through a ring per socket and direction, and *)
(* how far each side is goes in bumps through queues per thread and core.  *)
(*                                                                         *)
(* One action per call, per iteration of a loop, per message.  A core      *)
(* handles a datagram in two steps, and the room an application has freed; *)
(* for an unbound socket it picks a port in two more.  The slow path looks *)
(* at a port and joins it in two steps.  None of them has a lock: others   *)
(* run between, and of what was read before, the old or the new value is   *)
(* used.                                                                   *)
(* Bytes are numbers; headers are the two ports.                           *)
(***************************************************************************)
EXTENDS Integers, SequencesExt, FiniteSetsExt

CONSTANTS
  Apps,               \* application processes
  Threads,            \* threads, pairs of an application and 1, 2, ...
  Fds,                \* file descriptors of an application, 0, 1, ...:
                      \* MAX_SOCKETS of udp_lib.h
  NCores,             \* proto->n_fp_cores
  MAX_SOCKETS,        \* of udp.h
  MIN_PORT, MAX_PORT,
  MAX_REUSOCK_PORT,
  UDP_PORT_SCAN_MAX,
  UDP_MAX_PAYLOAD,
  SLOW_BATCH_SIZE,
  RingLen,            \* config.rxbuf_sz and txbuf_sz
  AppLen,             \* config.appq_len
  Loads               \* what is exercised; one is chosen at the start:
                      \*   script: per thread, the calls it makes
                      \*   nic: per core, datagrams that arrive
                      \*   echo: a peer answers every datagram
                      \*   steer: per port, the core its answers arrive at
                      \*   bump: config.bumpq_len
                      \*   dies: applications that may stop at any time
                      \*   ebpf: the cores run the eBPF handlers, not the
                      \*         handwritten ones
                      \*   again: threads that repeat their last call for ever
                      \*   ends: all calls are expected to return

Cores == 0 .. NCores - 1
Ids == 0 .. MAX_SOCKETS - 1
Ports == 0 .. MAX_PORT
Slots == 0 .. RingLen - 1

VARIABLES
  load,       \* a member of Loads
  lib,        \* per thread: where it is, and its udp_wait
  app,        \* per application: udp_lib and the Unix socket
  usock,      \* per application and fd: udp_socket_lib
  asq, saq,   \* per thread: app_slow_q, slow_app_q
  afq, faq,   \* per thread and core: app_fast_qs, fast_app_qs
  slow,       \* udp_slow_context, and where its loop is
  sock,       \* per socket id: udp_sock
  port,       \* per port: udp_port
  next_port,  \* udp_cfg.next_port
  ring,       \* per socket id: the rx and the tx buffer
  nic,        \* per core: datagrams that have arrived
  held,       \* per core: what it is in the middle of
  given, left,  \* history, per socket: payloads passed to udp_sendto, sent
  put, got,     \* history, per socket: datagrams accepted, bytes read
  spilled,    \* history: a bump did not fit into its queue
  raced,      \* history: ports that were joined after what had been read of
              \* them, or of the socket that joins, had changed
  torn        \* history: sockets whose receive side two cores had in hand

appVars == <<lib, app, usock>>
slowVars == <<slow, asq, saq>>
shmVars == <<sock, port, next_port, ring>>
bumpVars == <<afq, faq>>
coreVars == <<nic, held>>
txGhosts == <<given, left>>
rxGhosts == <<put, got, torn>>
ghosts == <<spilled, raced>>
vars == <<load, appVars, slowVars, shmVars, bumpVars, coreVars, txGhosts,
          rxGhosts, ghosts>>

Sum(s) == FoldLeft(LAMBDA x, y : x + y, 0, s)

\* A position of a ring, moved forward.
Forward(pos, n) == IF pos + n >= RingLen THEN pos + n - RingLen ELSE pos + n

\* The bytes of a ring from pos, and the ring after bytes were copied there.
Read(buf, pos, n) == [i \in 1 .. n |-> buf[Forward(pos, i - 1)]]
Write(buf, pos, data) ==
  [x \in Slots |-> LET i == ((x + RingLen - pos) % RingLen) + 1
                   IN  IF i <= Len(data) THEN data[i] ELSE buf[x]]

-----------------------------------------------------------------------------
(* Initial states *)

\* udp_wait_new.
udp_wait_new == [fds |-> <<>>, index |-> [f \in Fds |-> -1],
                 events |-> [f \in Fds |-> {}]]

\* udp_socket, before the slow path has answered.
NewSock(t) ==
  [ ctx |-> t, id |-> 0, tx_core |-> -1, rx_core |-> -1, rx_port |-> 0,
    len |-> 0, rx_avail |-> 0, rx_head |-> 0, tx_avail |-> 0, tx_head |-> 0,
    bind |-> -1, setopt |-> -1 ]

NoSock ==
  [ opaque |-> <<>>, ctx |-> <<>>, local_port |-> 0, reuport |-> 0,
    rx_avail |-> 0, rx_head |-> 0, tx_avail |-> 0, tx_head |-> 0 ]

\* init_udp_slow_context.
init_udp_slow_context ==
  /\ slow = [ at |-> "appif", apps |-> <<>>, next_app |-> 0, n_socks |-> 0,
              ctxs |-> [a \in Apps |-> <<>>], next_ctx |-> [a \in Apps |-> 0],
              msgs_i |-> 0, apps_polled |-> 0, ctxs_polled |-> 0,
              bind |-> [kind |-> "none"] ]
  /\ port = [p \in Ports |->
               [ nsocks |-> 0, next_sock |-> [c \in Cores |-> c],
                 sids |-> [i \in 0 .. MAX_REUSOCK_PORT - 1 |-> 0] ]]
  /\ next_port = MIN_PORT

Init ==
  /\ load \in Loads
  /\ lib = [t \in Threads |-> [at |-> "start", next |-> 1, fd |-> 0,
                               back |-> "idle", core |-> 0,
                               wait |-> udp_wait_new]]
  /\ app = [a \in Apps |-> [sock |-> "none", next_sockfd |-> 0]]
  /\ usock = [a \in Apps |-> [f \in Fds |-> NewSock(<<>>)]]
  /\ asq = [t \in Threads |-> <<>>]
  /\ saq = [t \in Threads |-> <<>>]
  /\ afq = [t \in Threads |-> [c \in Cores |-> <<>>]]
  /\ faq = [t \in Threads |-> [c \in Cores |-> <<>>]]
  /\ init_udp_slow_context
  /\ sock = [s \in Ids |-> NoSock]
  /\ ring = [s \in Ids |-> [rx |-> [x \in Slots |-> 0],
                            tx |-> [x \in Slots |-> 0]]]
  /\ nic = load.nic
  /\ held = [c \in Cores |-> [kind |-> "none"]]
  /\ given = [s \in Ids |-> <<>>] /\ left = [s \in Ids |-> <<>>]
  /\ put = [s \in Ids |-> <<>>] /\ got = [s \in Ids |-> <<>>]
  /\ spilled = FALSE /\ raced = {} /\ torn = {}

-----------------------------------------------------------------------------
(* The library: connecting *)

App(t) == t[1]
Alive(t) == app[App(t)].sock \notin {"dead", "closed"}
Siblings(t) == {u \in Threads : App(u) = App(t)}

\* udp_connect_slow, by the first thread of an application that has
\* something to do.
udp_connect_slow(a) ==
  /\ app[a].sock = "none"
  /\ \E t \in Threads : App(t) = a /\ load.script[t] # <<>>
  /\ app' = [app EXCEPT ![a].sock = "connect"]
  /\ UNCHANGED <<load, lib, usock, slowVars, shmVars, bumpVars, coreVars,
                 txGhosts, rxGhosts, ghosts>>

\* udp_ctx_new: the request, with udp->lock taken.
udp_ctx_new(t) ==
  /\ lib[t].at = "start" /\ load.script[t] # <<>>
  /\ app[App(t)].sock = "open"
  /\ \A u \in Siblings(t) : lib[u].at # "ctx"
  /\ lib' = [lib EXCEPT ![t].at = "ctx"]
  /\ app' = [app EXCEPT ![App(t)].sock = "request"]
  /\ UNCHANGED <<load, usock, slowVars, shmVars, bumpVars, coreVars,
                 txGhosts, rxGhosts, ghosts>>

\* ... and the answer.
CtxRead(t) ==
  /\ lib[t].at = "ctx" /\ app[App(t)].sock = "answer"
  /\ lib' = [lib EXCEPT ![t].at = "idle"]
  /\ app' = [app EXCEPT ![App(t)].sock = "open"]
  /\ UNCHANGED <<load, usock, slowVars, shmVars, bumpVars, coreVars,
                 txGhosts, rxGhosts, ghosts>>

\* An application stops.
Stop(a) ==
  /\ a \in load.dies
  /\ app[a].sock \in {"open", "request", "answer"}
  /\ app' = [app EXCEPT ![a].sock = "dead"]
  /\ UNCHANGED <<load, lib, usock, slowVars, shmVars, bumpVars, coreVars,
                 txGhosts, rxGhosts, ghosts>>

-----------------------------------------------------------------------------
(* The library: calls *)

Call(t) == load.script[t][lib[t].next]
Calls(t, op) ==
  /\ Alive(t) /\ lib[t].at = "idle"
  /\ lib[t].next <= Len(load.script[t]) /\ Call(t).op = op

\* The call returns.
Repeats(t) == t \in load.again /\ lib[t].next = Len(load.script[t])
Return(t) == [lib EXCEPT ![t].at = "idle",
                         ![t].next = IF Repeats(t) THEN @ ELSE @ + 1]

\* lookup_sock.
lookup_sock(t, fd) == usock[App(t)][fd].ctx = t

\* A request to the slow path, after which the call waits in udp_wait_until;
\* it fails if the queue is full.
Ask(t, fd, req) ==
  IF Len(asq[t]) < AppLen
  THEN /\ asq' = [asq EXCEPT ![t] = Append(@, req)]
       /\ lib' = [lib EXCEPT ![t].at = "until", ![t].fd = fd]
  ELSE lib' = Return(t) /\ UNCHANGED asq

udp_socket(t) ==
  LET a == App(t)
      fd == app[a].next_sockfd
  IN  /\ Calls(t, "socket")
      /\ app' = [app EXCEPT ![a].next_sockfd = @ + 1]
      /\ IF fd \notin Fds
         THEN lib' = Return(t) /\ UNCHANGED <<usock, asq>>
         ELSE /\ usock' = [usock EXCEPT ![a][fd] = NewSock(t)]
              /\ Ask(t, fd, [type |-> "new_sock", opaque |-> <<a, fd>>])
      /\ UNCHANGED <<load, slow, saq, shmVars, bumpVars, coreVars,
                     txGhosts, rxGhosts, ghosts>>

udp_bind(t) ==
  LET fd == Call(t).fd
  IN  /\ Calls(t, "bind")
      /\ IF ~lookup_sock(t, fd)
         THEN lib' = Return(t) /\ UNCHANGED asq
         ELSE Ask(t, fd, [type |-> "bind", opaque |-> <<App(t), fd>>,
                          sock_id |-> usock[App(t)][fd].id,
                          local_port |-> Call(t).port])
      /\ UNCHANGED <<load, app, usock, slow, saq, shmVars, bumpVars, coreVars,
                     txGhosts, rxGhosts, ghosts>>

\* The request has the file descriptor where the id of the socket belongs.
udp_setsockopt(t) ==
  LET fd == Call(t).fd
  IN  /\ Calls(t, "setopt")
      /\ IF ~lookup_sock(t, fd)
         THEN lib' = Return(t) /\ UNCHANGED asq
         ELSE Ask(t, fd, [type |-> "setopt", opaque |-> <<App(t), fd>>,
                          sock_id |-> fd])
      /\ UNCHANGED <<load, app, usock, slow, saq, shmVars, bumpVars, coreVars,
                     txGhosts, rxGhosts, ghosts>>

\* A mutant of TxTail: bytes not yet sent are forgotten.
Bug_tail(u) == u.tx_head
TxTail(u) == Forward(u.tx_head, u.tx_avail)

\* udp_sendto: nothing is sent while the ring or the queue is full.
udp_sendto(t) ==
  LET a == App(t)
      fd == Call(t).fd
      n == Call(t).len
      u == usock[a][fd]
      q == afq[t][u.tx_core]
      before == Sum([i \in 1 .. Len(given[u.id]) |-> Len(given[u.id][i])])
      data == [i \in 1 .. n |-> 100 * (u.id + 1) + before + i]
  IN  /\ Calls(t, "sendto")
      /\ lib' = Return(t)
      /\ IF ~lookup_sock(t, fd) \/ n = 0 \/ n > u.len - u.tx_avail
            \/ Len(q) >= load.bump
         THEN UNCHANGED <<usock, afq, ring, given>>
         ELSE /\ usock' = [usock EXCEPT ![a][fd].tx_avail = @ + n]
              /\ ring' = [ring EXCEPT ![u.id].tx = Write(@, TxTail(u), data)]
              /\ afq' = [afq EXCEPT ![t][u.tx_core] =
                           Append(@, [type |-> "tx", sock_id |-> u.id,
                                      to |-> Call(t).port, n |-> n])]
              /\ given' = [given EXCEPT ![u.id] = Append(@, data)]
      /\ UNCHANGED <<load, app, slowVars, sock, port, next_port, faq, coreVars,
                     left, rxGhosts, ghosts>>

udp_recvfrom(t) ==
  LET a == App(t)
      fd == Call(t).fd
      u == usock[a][fd]
      n == Min({Call(t).len, u.rx_avail})
  IN  /\ Calls(t, "recvfrom")
      /\ lib' = Return(t)
      /\ IF ~lookup_sock(t, fd) \/ n = 0 \/ Len(afq[t][u.rx_core]) >= load.bump
         THEN UNCHANGED <<usock, afq, got>>
         ELSE /\ usock' = [usock EXCEPT ![a][fd].rx_avail = @ - n,
                                        ![a][fd].rx_head = Forward(@, n)]
              /\ afq' = [afq EXCEPT ![t][u.rx_core] =
                           Append(@, [type |-> "rx", sock_id |-> u.id,
                                      n |-> n])]
              /\ got' = [got EXCEPT ![u.id] =
                           @ \o Read(ring[u.id].rx, u.rx_head, n)]
      /\ UNCHANGED <<load, app, slowVars, shmVars, faq, coreVars, txGhosts,
                     put, torn, ghosts>>

-----------------------------------------------------------------------------
(* The library: wait objects *)

\* udp_wait_add, udp_wait_mod, udp_wait_del: w is the object before the call.
Added(w, fd, events) ==
  [ fds |-> Append(w.fds, fd), index |-> [w.index EXCEPT ![fd] = Len(w.fds)],
    events |-> [w.events EXCEPT ![fd] = events] ]

Modified(w, fd, events) == [w EXCEPT !.events[fd] = events]

\* The last one takes the place of the one that goes.
Deleted(w, fd) ==
  LET idx == w.index[fd]
      last == Last(w.fds)
  IN  [ fds |-> Front([w.fds EXCEPT ![idx + 1] = last]),
        index |-> [[w.index EXCEPT ![last] = idx] EXCEPT ![fd] = -1],
        events |-> [w.events EXCEPT ![fd] = {}] ]

WaitCall(t, op, ok, w) ==
  /\ Calls(t, op)
  /\ lib' = [Return(t) EXCEPT ![t].wait = IF ok THEN w ELSE @]
  /\ UNCHANGED <<load, app, usock, slowVars, shmVars, bumpVars, coreVars,
                 txGhosts, rxGhosts, ghosts>>

udp_wait_add(t) ==
  LET w == lib[t].wait
      fd == Call(t).fd
  IN  WaitCall(t, "wait_add", lookup_sock(t, fd) /\ w.index[fd] = -1,
               Added(w, fd, Call(t).events))

udp_wait_mod(t) ==
  LET w == lib[t].wait
      fd == Call(t).fd
  IN  WaitCall(t, "wait_mod", lookup_sock(t, fd) /\ w.index[fd] # -1,
               Modified(w, fd, Call(t).events))

udp_wait_del(t) ==
  LET w == lib[t].wait
      fd == Call(t).fd
  IN  WaitCall(t, "wait_del", w.index[fd] # -1, Deleted(w, fd))

\* udp_sock_wait_events.
udp_sock_wait_events(u) ==
  { e \in {"socket", "in", "out", "bind", "setopt"} :
      CASE e = "socket" -> u.len # 0
        [] e = "in" -> u.rx_avail > 0
        [] e = "out" -> u.len # 0 /\ u.tx_avail < u.len
        [] e = "bind" -> u.bind # -1
        [] e = "setopt" -> u.setopt # -1 }

\* udp_wait_collect finds a socket with an event that is waited for.
udp_wait_collect(t) ==
  \E i \in 1 .. Len(lib[t].wait.fds) :
    LET fd == lib[t].wait.fds[i]
    IN  udp_sock_wait_events(usock[App(t)][fd]) \cap lib[t].wait.events[fd]
          # {}

\* One iteration of udp_wait_impl: it returns with events, or without if it
\* may not block, or polls and tries again.
udp_wait_impl(t) ==
  /\ Calls(t, "wait")
  /\ lib' = IF udp_wait_collect(t) \/ ~Call(t).block
            THEN Return(t)
            ELSE [lib EXCEPT ![t].at = IF Call(t).mode = "fast" THEN "fast"
                                       ELSE "slow",
                             ![t].core = 0, ![t].back = "idle"]
  /\ UNCHANGED <<load, app, usock, slowVars, shmVars, bumpVars, coreVars,
                 txGhosts, rxGhosts, ghosts>>

\* What the call asked for has come: udp_socket, udp_bind and udp_setsockopt
\* return.  A result is reset, but not a failure.
Reset(result) == IF result = 1 THEN -1 ELSE result

Answered(t) ==
  CASE Call(t).op = "socket" -> "socket"
    [] Call(t).op = "bind" -> "bind"
    [] Call(t).op = "setopt" -> "setopt"

\* One iteration of udp_wait_until.
udp_wait_until(t) ==
  LET a == App(t)
      fd == lib[t].fd
      done == Answered(t) \in udp_sock_wait_events(usock[a][fd])
  IN  /\ Alive(t) /\ lib[t].at = "until"
      /\ done \/ saq[t] # <<>>
      /\ lib' = IF done THEN Return(t)
                ELSE [lib EXCEPT ![t].at = "slow", ![t].back = "until"]
      /\ usock' = IF ~done THEN usock
                  ELSE CASE Call(t).op = "bind" ->
                              [usock EXCEPT ![a][fd].bind = Reset(@)]
                         [] Call(t).op = "setopt" ->
                              [usock EXCEPT ![a][fd].setopt = Reset(@)]
                         [] OTHER -> usock
      /\ UNCHANGED <<load, app, slowVars, shmVars, bumpVars, coreVars,
                     txGhosts, rxGhosts, ghosts>>

-----------------------------------------------------------------------------
(* The library: polling *)

\* handle_new_sock_res, handle_bind_res and handle_setopt_res: the socket
\* after an answer of the slow path.
handle_new_sock_res(u, m) ==
  [u EXCEPT !.id = m.sock_id, !.tx_core = m.core, !.len = RingLen]
handle_bind_res(u, m) == [u EXCEPT !.bind = m.success]
handle_setopt_res(u, m) == [u EXCEPT !.setopt = m.success]

\* One iteration of udp_poll_slow; on an empty queue it returns.
udp_poll_slow(t) ==
  /\ Alive(t) /\ lib[t].at = "slow"
  /\ IF saq[t] = <<>>
     THEN /\ lib' = [lib EXCEPT ![t].at =
                       IF lib[t].back = "until" \/ Call(t).mode = "slow"
                       THEN lib[t].back ELSE "fast"]
          /\ UNCHANGED <<usock, saq>>
     ELSE LET m == Head(saq[t])
              u == usock[m.opaque[1]][m.opaque[2]]
          IN  /\ usock' = [usock EXCEPT ![m.opaque[1]][m.opaque[2]] =
                             CASE m.type = "new_sock" ->
                                    handle_new_sock_res(u, m)
                               [] m.type = "bind" -> handle_bind_res(u, m)
                               [] m.type = "setopt" -> handle_setopt_res(u, m)]
              /\ saq' = [saq EXCEPT ![t] = Tail(@)]
              /\ UNCHANGED lib
  /\ UNCHANGED <<load, app, slow, asq, shmVars, bumpVars, coreVars,
                 txGhosts, rxGhosts, ghosts>>

handle_tx_bump(u, m) ==
  [u EXCEPT !.tx_head = Forward(@, m.n), !.tx_avail = @ - m.n]

\* A mutant of handle_rx_bump: what was announced before is forgotten.
Bug_handle_rx_bump(u, m, c) ==
  [u EXCEPT !.rx_avail = m.n, !.rx_port = m.from, !.rx_core = c]
handle_rx_bump(u, m, c) ==
  [u EXCEPT !.rx_avail = @ + m.n, !.rx_port = m.from, !.rx_core = c]

\* A call of udp_poll_fast.
PollFast(t) ==
  /\ Calls(t, "poll")
  /\ lib' = [lib EXCEPT ![t].at = "fast", ![t].core = 0, ![t].back = "polled"]
  /\ UNCHANGED <<load, app, usock, slowVars, shmVars, bumpVars, coreVars,
                 txGhosts, rxGhosts, ghosts>>

\* One iteration of udp_poll_fast: the next bump of the cores not yet done,
\* or there is none.
udp_poll_fast(t) ==
  LET todo == {c \in Cores : c >= lib[t].core /\ faq[t][c] # <<>>}
      c == Min(todo)
      m == Head(faq[t][c])
      u == usock[m.opaque[1]][m.opaque[2]]
  IN  /\ Alive(t) /\ lib[t].at = "fast"
      /\ IF todo = {}
         THEN /\ lib' = IF lib[t].back = "polled" THEN Return(t)
                        ELSE [lib EXCEPT ![t].at = lib[t].back]
              /\ UNCHANGED <<usock, faq>>
         ELSE /\ usock' = [usock EXCEPT ![m.opaque[1]][m.opaque[2]] =
                             IF m.type = "tx" THEN handle_tx_bump(u, m)
                             ELSE handle_rx_bump(u, m, c)]
              /\ faq' = [faq EXCEPT ![t][c] = Tail(@)]
              /\ lib' = [lib EXCEPT ![t].core = c]
      /\ UNCHANGED <<load, app, slowVars, shmVars, afq, coreVars, txGhosts,
                     rxGhosts, ghosts>>

-----------------------------------------------------------------------------
(* The slow path: applications and contexts *)

\* appif_poll: the events of sockets.
uxsocket_accept(a) ==
  /\ slow.at = "appif" /\ app[a].sock = "connect"
  /\ slow' = [slow EXCEPT !.apps = Append(@, a)]
  /\ app' = [app EXCEPT ![a].sock = "open"]
  /\ UNCHANGED <<load, lib, usock, asq, saq, shmVars, bumpVars, coreVars,
                 txGhosts, rxGhosts, ghosts>>

uxsocket_receive(a) ==
  /\ slow.at = "appif" /\ app[a].sock = "request"
  /\ LET t == CHOOSE u \in Threads : App(u) = a /\ lib[u].at = "ctx"
     IN  slow' = [slow EXCEPT !.ctxs[a] = Append(@, t)]
  /\ app' = [app EXCEPT ![a].sock = "answer"]
  /\ UNCHANGED <<load, lib, usock, asq, saq, shmVars, bumpVars, coreVars,
                 txGhosts, rxGhosts, ghosts>>

\* An application has stopped: its queues and sockets stay.
uxsocket_error(a) ==
  /\ slow.at = "appif" /\ app[a].sock = "dead"
  /\ app' = [app EXCEPT ![a].sock = "closed"]
  /\ UNCHANGED <<load, lib, usock, slowVars, shmVars, bumpVars, coreVars,
                 txGhosts, rxGhosts, ghosts>>

\* appif_poll has handled the events: on to poll_apps.
appif_poll ==
  /\ slow.at = "appif"
  /\ \A a \in Apps : app[a].sock \notin {"connect", "request", "dead"}
  /\ slow' = [slow EXCEPT !.at = "poll", !.msgs_i = 0, !.apps_polled = 0,
                          !.ctxs_polled = 0]
  /\ UNCHANGED <<load, appVars, asq, saq, shmVars, bumpVars, coreVars,
                 txGhosts, rxGhosts, ghosts>>

-----------------------------------------------------------------------------
(* The slow path: requests *)

\* find_free_port: 0 if none of the ports looked at is free.
Scanned(i) ==
  LET first == IF next_port \in MIN_PORT .. MAX_PORT THEN next_port
               ELSE MIN_PORT
      nr == first + i
  IN  IF nr > MAX_PORT THEN MIN_PORT + nr - MAX_PORT - 1 ELSE nr

find_free_port ==
  LET free == {i \in 0 .. UDP_PORT_SCAN_MAX - 1 :
                 port[Scanned(i)].nsocks = 0}
  IN  IF free = {} THEN 0 ELSE Scanned(Min(free))

AfterPort(p) == IF p + 1 > MAX_PORT THEN MIN_PORT ELSE p + 1

\* A socket is added to those of a port, of which n are known: what lies
\* behind the last place for one is the number of sockets of the next port.
Joined(p, s, n) ==
  IF n < MAX_REUSOCK_PORT
  THEN [port EXCEPT ![p].sids[n] = s, ![p].nsocks = n + 1]
  ELSE [q \in Ports |-> CASE q = p -> [port[q] EXCEPT !.nsocks = n + 1]
                          [] q = p + 1 -> [port[q] EXCEPT !.nsocks = s]
                          [] OTHER -> port[q]]

\* Socket s joins port p: if what was read has changed, p, the port that s is
\* in and the one that Joined may write to are not what they should be.
Raced(p, s, changed) ==
  LET more == IF port[p].nsocks < MAX_REUSOCK_PORT THEN p ELSE p + 1
  IN  raced' = IF changed THEN raced \cup {p, more, sock[s].local_port}
               ELSE raced

Answer(t, m) == saq' = [saq EXCEPT ![t] = Append(@, m)]

\* No answer when there is no room for a socket.
handle_new_sock(t, req) ==
  IF slow.n_socks >= MAX_SOCKETS
  THEN UNCHANGED <<saq, sock>>
  ELSE /\ sock' = [sock EXCEPT ![slow.n_socks] =
                     [NoSock EXCEPT !.opaque = req.opaque, !.ctx = t]]
       /\ Answer(t, [type |-> "new_sock", opaque |-> req.opaque,
                     sock_id |-> slow.n_socks,
                     core |-> slow.n_socks % NCores])

\* handle_sock_setopt, for SO_REUSEPORT.
handle_sock_setopt(t, req) ==
  /\ sock' = [sock EXCEPT ![req.sock_id].reuport = 1]
  /\ Answer(t, [type |-> "setopt", opaque |-> req.opaque, success |-> 1])

\* A mutant of BindPort: a socket that has a port gets another.
Bug_bind_port(req) == req.local_port
BindPort(req) ==
  IF sock[req.sock_id].local_port # 0 THEN sock[req.sock_id].local_port
  ELSE req.local_port

\* A mutant of Turn: the next application does not get its turn.
Bug_turn ==
  IF slow.ctxs_polled < Len(slow.ctxs[slow.apps[slow.next_app + 1]]) THEN slow
  ELSE [slow EXCEPT !.apps_polled = @ + 1]

\* The application whose turn it is.
Turn ==
  LET a0 == slow.apps[slow.next_app + 1]
      over == slow.ctxs_polled >= Len(slow.ctxs[a0])
  IN  IF ~over THEN slow
      ELSE [slow EXCEPT !.apps_polled = @ + 1,
                        !.next_app = (@ + 1) % Len(slow.apps)]

\* A request has been handled: the turn stays with its context.
Handled == [Turn EXCEPT !.msgs_i = @ + 1]

\* handle_bind, up to the check: a port that is refused is answered at once.
CheckBind(t, req) ==
  LET s == req.sock_id
      free == find_free_port
      p == IF BindPort(req) = 0 THEN free ELSE BindPort(req)
      ok == /\ BindPort(req) <= MAX_PORT
            /\ p # 0
            /\ port[p].nsocks = 0 \/ sock[s].reuport = 1
            /\ port[p].nsocks < MAX_REUSOCK_PORT
  IN  /\ next_port' = IF BindPort(req) = 0 /\ free # 0 THEN AfterPort(free)
                      ELSE next_port
      /\ IF ok
         THEN /\ slow' = [Turn EXCEPT !.at = "bind",
                            !.bind = [ kind |-> "checked", ctx |-> t, port |-> p,
                                       nsocks |-> port[p].nsocks,
                                       had |-> sock[s].local_port ]]
              /\ UNCHANGED <<asq, saq>>
         ELSE /\ slow' = Handled
              /\ asq' = [asq EXCEPT ![t] = Tail(@)]
              /\ Answer(t, [type |-> "bind", opaque |-> req.opaque,
                            success |-> 0])

\* ... and the rest: the socket joins the port.
handle_bind ==
  LET b == slow.bind
      req == Head(asq[b.ctx])
      s == req.sock_id
  IN  /\ slow.at = "bind"
      /\ sock' = [sock EXCEPT ![s].local_port = b.port]
      /\ \E n \in {b.nsocks, port[b.port].nsocks} :
           port' = Joined(b.port, s, n)
      /\ Raced(b.port, s, \/ port[b.port].nsocks # b.nsocks
                          \/ sock[s].local_port # b.had)
      /\ asq' = [asq EXCEPT ![b.ctx] = Tail(@)]
      /\ Answer(b.ctx, [type |-> "bind", opaque |-> req.opaque, success |-> 1])
      /\ slow' = [slow EXCEPT !.at = "poll", !.msgs_i = @ + 1,
                              !.bind = [kind |-> "none"]]
      /\ UNCHANGED <<load, appVars, next_port, ring, bumpVars, coreVars,
                     txGhosts, rxGhosts, spilled>>

\* poll_apps: the batch is used up, or there is nobody to poll ...
BatchEnds ==
  /\ slow.at = "poll"
  /\ slow.msgs_i >= SLOW_BATCH_SIZE \/ slow.apps = <<>>
  /\ slow' = [slow EXCEPT !.at = "appif"]
  /\ UNCHANGED <<load, appVars, asq, saq, shmVars, bumpVars, coreVars,
                 txGhosts, rxGhosts, ghosts>>

\* ... or everybody was, or the application has no context yet ...
TurnApp == slow.apps[Turn.next_app + 1]
Goes == slow.at = "poll" /\ slow.msgs_i < SLOW_BATCH_SIZE /\ slow.apps # <<>>
Over == Turn.apps_polled >= Len(slow.apps) \/ slow.ctxs[TurnApp] = <<>>

RoundEnds ==
  /\ Goes /\ Over
  /\ slow' = [Turn EXCEPT !.at = "appif"]
  /\ UNCHANGED <<load, appVars, asq, saq, shmVars, bumpVars, coreVars,
                 txGhosts, rxGhosts, ghosts>>

\* ... or the queue of context t is looked at.  Without a message t passes the
\* turn on; with one it does not.
Looks(t) ==
  /\ Goes /\ ~Over
  /\ t = slow.ctxs[TurnApp][slow.next_ctx[TurnApp] + 1]

FoundEmpty(t) ==
  /\ Looks(t) /\ asq[t] = <<>>
  /\ slow' = [Turn EXCEPT !.ctxs_polled = @ + 1,
                          !.next_ctx[TurnApp] =
                            (@ + 1) % Len(slow.ctxs[TurnApp])]
  /\ UNCHANGED <<load, appVars, asq, saq, shmVars, bumpVars, coreVars,
                 txGhosts, rxGhosts, ghosts>>

\* Without room for an answer a request is dropped.
FoundRequest(t) ==
  LET req == Head(asq[t])
      room == Len(saq[t]) < AppLen
  IN  /\ Looks(t) /\ asq[t] # <<>>
      /\ \/ /\ ~room
            /\ slow' = Handled
            /\ asq' = [asq EXCEPT ![t] = Tail(@)]
            /\ UNCHANGED <<saq, sock, next_port>>
         \/ /\ room /\ req.type = "new_sock"
            /\ handle_new_sock(t, req)
            /\ slow' = [Handled EXCEPT !.n_socks = Min({@ + 1, MAX_SOCKETS})]
            /\ asq' = [asq EXCEPT ![t] = Tail(@)]
            /\ UNCHANGED next_port
         \/ /\ room /\ req.type = "setopt"
            /\ handle_sock_setopt(t, req)
            /\ slow' = Handled
            /\ asq' = [asq EXCEPT ![t] = Tail(@)]
            /\ UNCHANGED next_port
         \/ /\ room /\ req.type = "bind"
            /\ CheckBind(t, req)
            /\ UNCHANGED sock
      /\ UNCHANGED <<load, appVars, port, ring, bumpVars, coreVars, txGhosts,
                     rxGhosts, ghosts>>

poll_apps ==
  \/ BatchEnds \/ RoundEnds \/ handle_bind
  \/ \E t \in Threads : FoundEmpty(t) \/ FoundRequest(t)

-----------------------------------------------------------------------------
(* The fast path *)

Free(c) == held[c].kind = "none"

\* A bump for the application of socket s, from core c.
BumpFits(s, c) == Len(faq[sock[s].ctx][c]) < load.bump
Bump(s, c, m) == faq' = [faq EXCEPT ![sock[s].ctx][c] = Append(@, m)]

\* udp_sock_find: the place of the socket for a datagram to p that arrives at
\* core c, or -1.  The place of a core may lie behind the sockets of the port;
\* the eBPF handler looks at that, the handwritten one does not.
HandPlace(p, c) ==
  LET idx == port[p].next_sock[c]
  IN  IF port[p].nsocks = 0 \/ idx >= MAX_REUSOCK_PORT THEN -1 ELSE idx

EbpfPlace(p, c) ==
  LET n == port[p].nsocks
      idx == IF n = 1 THEN 0 ELSE port[p].next_sock[c]
  IN  IF n = 0 \/ n > MAX_REUSOCK_PORT \/ idx >= n \/ idx >= MAX_REUSOCK_PORT
      THEN -1 ELSE idx

Place(p, c) ==
  IF p \notin MIN_PORT .. MAX_PORT THEN -1
  ELSE IF load.ebpf THEN EbpfPlace(p, c) ELSE HandPlace(p, c)

udp_sock_find(p, c) ==
  IF Place(p, c) = -1 THEN -1 ELSE port[p].sids[Place(p, c)]

\* ... and whose turn is next.
NextSock(p, c) ==
  LET next == Place(p, c) + NCores
  IN  IF port[p].nsocks <= 1 THEN port[p].next_sock[c]
      ELSE IF next >= port[p].nsocks THEN c ELSE next

\* Core c takes the receive side of s in hand; torn if another has it.
Takes(c, s) ==
  torn' = torn \cup {t \in {s} : \E k \in Cores \ {c} :
                        held[k].kind \in {"rx", "room"} /\ held[k].sock = s}

\* udp_event_rx, up to the copy: a datagram that does not fit is dropped.
\* Counts are unsigned: a rx_avail above the length leaves room for anything,
\* and a place outside the ring is somewhere in the memory of the guest.  What
\* the core does after it has written there is not modelled.
EventRx(c) ==
  LET d == Head(nic[c])
      s == udp_sock_find(d.to, c)
      avail == sock[s].rx_avail
      tail == Forward(sock[s].rx_head, avail)
      fits == s # -1 /\ (avail > RingLen \/ Len(d.data) <= RingLen - avail)
      stray == Place(d.to, c) >= port[d.to].nsocks
  IN  /\ Free(c) /\ nic[c] # <<>>
      /\ nic' = [nic EXCEPT ![c] = Tail(@)]
      /\ port' = IF s = -1 THEN port
                 ELSE [port EXCEPT ![d.to].next_sock[c] = NextSock(d.to, c)]
      /\ \/ /\ ~fits
            /\ UNCHANGED <<ring, held, torn>>
         \/ /\ fits /\ tail \in Slots
            /\ ring' = [ring EXCEPT ![s].rx = Write(@, tail, d.data)]
            /\ held' = [held EXCEPT ![c] = [kind |-> "rx", sock |-> s, d |-> d,
                                            avail |-> avail, stray |-> stray]]
            /\ Takes(c, s)
         \/ /\ fits /\ tail \notin Slots
            /\ held' = [held EXCEPT ![c] = [kind |-> "wild"]]
            /\ UNCHANGED <<ring, torn>>
      /\ UNCHANGED <<load, appVars, slowVars, sock, next_port, bumpVars,
                     txGhosts, put, got, ghosts>>

\* ... and the rest.  rx_avail is added to without a lock: what another core
\* has done to it since may be lost.
udp_event_rx(c) ==
  LET s == held[c].sock
      d == held[c].d
      n == Len(d.data)
  IN  /\ held[c].kind = "rx"
      /\ \E avail \in {held[c].avail, sock[s].rx_avail} :
           sock' = [sock EXCEPT ![s].rx_avail = avail + n]
      /\ put' = [put EXCEPT ![s] =
                   Append(@, [to |-> d.to, data |-> d.data,
                              stray |-> held[c].stray])]
      /\ IF BumpFits(s, c)
         THEN /\ Bump(s, c, [type |-> "rx", opaque |-> sock[s].opaque, n |-> n,
                             from |-> d.from])
              /\ UNCHANGED spilled
         ELSE spilled' = TRUE /\ UNCHANGED faq
      /\ held' = [held EXCEPT ![c] = [kind |-> "none"]]
      /\ UNCHANGED <<load, appVars, slowVars, port, next_port, ring, afq, nic,
                     txGhosts, got, torn, raced>>

\* handle_bump_tx for a socket without a port: a free one is found, and then
\* next_port moves on.  Until the socket joins the port the slow path and other
\* cores may find it too.
PickPort(c, t) ==
  LET p == find_free_port
  IN  /\ Free(c) /\ afq[t][c] # <<>>
      /\ Head(afq[t][c]).type = "tx"
      /\ sock[Head(afq[t][c]).sock_id].local_port = 0
      /\ p # 0
      /\ held' = [held EXCEPT ![c] = [kind |-> "found", ctx |-> t, port |-> p]]
      /\ UNCHANGED <<load, appVars, slowVars, shmVars, bumpVars, nic,
                     txGhosts, rxGhosts, ghosts>>

PortFound(c) ==
  /\ held[c].kind = "found"
  /\ held' = [held EXCEPT ![c].kind = "port"]
  /\ next_port' = AfterPort(held[c].port)
  /\ UNCHANGED <<load, appVars, slowVars, sock, port, ring, bumpVars, nic,
                 txGhosts, rxGhosts, ghosts>>

\* The socket joins the port that was picked, of whose sockets n are known.
PortPicked(p, s, n) == [p EXCEPT !.sids[0] = s, !.nsocks = n + 1]

\* A datagram leaves; a peer answers it.
Leave(s, from, to, data) ==
  /\ left' = [left EXCEPT ![s] = Append(@, data)]
  /\ nic' = IF ~load.echo THEN nic
            ELSE [nic EXCEPT ![load.steer[from]] =
                    Append(@, [to |-> from, from |-> to, data |-> data])]

\* handle_bump_tx: the payload is copied into a packet and the application is
\* told.  If it cannot be told the packet is not sent, and the same bump will
\* be handled again.
handle_bump_tx(c, t) ==
  LET m == Head(afq[t][c])
      s == m.sock_id
      n == Min({m.n, UDP_MAX_PAYLOAD})
      p == IF Free(c) THEN sock[s].local_port ELSE held[c].port
  IN  /\ afq[t][c] # <<>> /\ m.type = "tx"
      /\ \/ Free(c) /\ sock[s].local_port # 0
         \/ held[c].kind = "port" /\ held[c].ctx = t
      /\ held' = [held EXCEPT ![c] = [kind |-> "none"]]
      /\ IF Free(c) THEN UNCHANGED <<port, raced>>
         ELSE /\ \E known \in {0, port[p].nsocks} :
                   port' = [port EXCEPT ![p] = PortPicked(@, s, known)]
              /\ Raced(p, s, port[p].nsocks # 0 \/ sock[s].local_port # 0)
      /\ sock' = [sock EXCEPT ![s].local_port = p,
                              ![s].tx_avail = @ + m.n - n,
                              ![s].tx_head = Forward(@, n)]
      /\ IF BumpFits(s, c)
         THEN /\ Bump(s, c, [type |-> "tx", opaque |-> sock[s].opaque, n |-> n])
              /\ afq' = [afq EXCEPT ![t][c] = Tail(@)]
              /\ Leave(s, p, m.to, Read(ring[s].tx, sock[s].tx_head, n))
              /\ UNCHANGED spilled
         ELSE spilled' = TRUE /\ UNCHANGED <<bumpVars, nic, left>>
      /\ UNCHANGED <<load, appVars, slowVars, next_port, ring, given, rxGhosts>>

\* handle_bump_rx: the application has made room.  Again without a lock.
BumpRx(c, t) ==
  LET s == Head(afq[t][c]).sock_id
  IN  /\ Free(c) /\ afq[t][c] # <<>> /\ Head(afq[t][c]).type = "rx"
      /\ held' = [held EXCEPT ![c] =
                    [kind |-> "room", ctx |-> t, sock |-> s,
                     head |-> sock[s].rx_head, avail |-> sock[s].rx_avail]]
      /\ Takes(c, s)
      /\ UNCHANGED <<load, appVars, slowVars, shmVars, bumpVars, nic, txGhosts,
                     put, got, ghosts>>

handle_bump_rx(c, t) ==
  LET m == Head(afq[t][c])
      s == m.sock_id
  IN  /\ held[c].kind = "room" /\ held[c].ctx = t
      /\ afq' = [afq EXCEPT ![t][c] = Tail(@)]
      /\ held' = [held EXCEPT ![c] = [kind |-> "none"]]
      /\ \E head \in {held[c].head, sock[s].rx_head},
            avail \in {held[c].avail, sock[s].rx_avail} :
           sock' = [sock EXCEPT ![s].rx_head = Forward(head, m.n),
                                ![s].rx_avail = avail - m.n]
      /\ UNCHANGED <<load, appVars, slowVars, port, next_port, ring, faq,
                     nic, txGhosts, rxGhosts, ghosts>>

-----------------------------------------------------------------------------
(* The whole *)

AppNext(t) ==
  \/ udp_ctx_new(t) \/ CtxRead(t)
  \/ udp_socket(t) \/ udp_bind(t) \/ udp_setsockopt(t)
  \/ udp_sendto(t) \/ udp_recvfrom(t)
  \/ udp_wait_add(t) \/ udp_wait_mod(t) \/ udp_wait_del(t)
  \/ udp_wait_impl(t) \/ udp_wait_until(t)
  \/ udp_poll_slow(t) \/ udp_poll_fast(t) \/ PollFast(t)

SlowNext ==
  \/ \E a \in Apps : uxsocket_accept(a) \/ uxsocket_receive(a) \/ uxsocket_error(a)
  \/ appif_poll
  \/ poll_apps

udp_event_deq(c, t) ==
  \/ PickPort(c, t)
  \/ held[c].kind = "found" /\ held[c].ctx = t /\ PortFound(c)
  \/ handle_bump_tx(c, t)
  \/ BumpRx(c, t) \/ handle_bump_rx(c, t)

CoreNext(c) ==
  \/ EventRx(c)
  \/ udp_event_rx(c)
  \/ \E t \in Threads : udp_event_deq(c, t)

Next ==
  \/ \E a \in Apps : udp_connect_slow(a) \/ Stop(a)
  \/ \E t \in Threads : AppNext(t)
  \/ SlowNext
  \/ \E c \in Cores : CoreNext(c)

Spec == Init /\ [][Next]_vars

\* The slow path and the cores loop for ever, a core comes to every enabled
\* queue, and a thread goes on with its calls.
FairSpec ==
  /\ Spec
  /\ \A a \in Apps : WF_vars(udp_connect_slow(a))
  /\ \A t \in Threads : WF_vars(AppNext(t))
  /\ WF_vars(SlowNext)
  /\ \A c \in Cores :
       /\ WF_vars(EventRx(c) \/ udp_event_rx(c))
       /\ \A t \in Threads : WF_vars(udp_event_deq(c, t))

-----------------------------------------------------------------------------
(* Properties *)

\* Unless two add to a port, or give one socket a port, at the same time: the
\* port table and the sockets agree.  The sockets of a port have that port, and
\* all but the first asked to share it, so a socket is in the table twice only
\* if it shares; a port has no more than there is room for; and a socket with
\* a port is in the table.  (handle_bind and handle_bump_tx add, and neither
\* takes a lock; the cores read.)
PortsExact ==
  \A p \in Ports \ raced :
    /\ port[p].nsocks <= MAX_REUSOCK_PORT
    /\ \A i \in 0 .. port[p].nsocks - 1 :
         LET s == sock[port[p].sids[i]]
         IN  s.local_port = p /\ (i > 0 => s.reuport = 1)
    /\ p # 0 => \A s \in Ids : sock[s].local_port = p =>
                  \E i \in 0 .. port[p].nsocks - 1 : port[p].sids[i] = s

\* A core has written outside of a ring.
Wild == \E c \in Cores : held[c].kind = "wild"

\* Payloads are intact in both directions: what a socket has sent is what it
\* was given, datagram by datagram and in order; what it has read is what it
\* has accepted, in order, whichever cores accepted it, unless two had its
\* receive side in hand at the same time; and it has accepted only what was
\* sent to its port.  The last has two exceptions: a port that two joined at
\* the same time, and, with the handwritten handlers, a core whose place in
\* the port lies behind its sockets.  (udp_sendto and handle_bump_tx,
\* udp_event_rx and udp_recvfrom, at the two ends of a ring; udp_sock_find)
PayloadsIntact ==
  spilled \/ Wild \/ \A s \in Ids :
    /\ IsPrefix(left[s], given[s])
    /\ s \notin torn =>
         IsPrefix(got[s], FlattenSeq([i \in DOMAIN put[s] |-> put[s][i].data]))
    /\ \A i \in DOMAIN put[s] :
         \/ put[s][i].to = sock[s].local_port
         \/ put[s][i].to \in raced
         \/ put[s][i].stray /\ ~load.ebpf

\* The bytes that bumps of a type in q announce for a socket.
InFlight(q, type, who(_)) ==
  Sum([i \in DOMAIN q |-> IF q[i].type = type /\ who(q[i]) THEN q[i].n ELSE 0])

\* The two ends of a ring and the bumps between them agree, however bumps are
\* delayed and whichever cores they go through: no byte is free at both ends
\* or in use at both.  For the receive side this is so as long as two cores
\* do not have it in hand at the same time.
RingsAgree ==
  spilled \/ Wild \/ \A a \in Apps, f \in Fds :
    LET u == usock[a][f]
        s == sock[u.id]
        ToCore(type) ==
          MapThenSumSet(LAMBDA c : InFlight(afq[u.ctx][c], type,
                          LAMBDA m : m.sock_id = u.id), Cores)
        ToApp(type) ==
          MapThenSumSet(LAMBDA c : InFlight(faq[u.ctx][c], type,
                          LAMBDA m : m.opaque = <<a, f>>), Cores)
    IN  u.len # 0 =>
          /\ u.tx_avail = ToCore("tx") + s.tx_avail + ToApp("tx")
          /\ Forward(u.tx_head, ToApp("tx")) = s.tx_head
          /\ u.id \notin torn =>
               /\ s.rx_avail = u.rx_avail + ToApp("rx") + ToCore("rx")
               /\ Forward(s.rx_head, ToCore("rx")) = u.rx_head

\* Every call returns, of every application that has not stopped, and every
\* datagram accepted by udp_sendto leaves, whatever the others do, provided
\* that poll_apps finds the queue of a thread that never stops asking empty
\* again and again: as long as it does not, nobody else has a turn.  (The
\* slow path never rests, so there is always a step at which to ask.)
UdpCallsReturn ==
  (/\ load.ends
   /\ \A t \in Threads : []<><<FoundEmpty(t) \/ t \notin load.again>>_vars) =>
    <>[](/\ \A t \in Threads : Alive(t) /\ t \notin load.again =>
               lib[t].next = Len(load.script[t]) + 1
         /\ left = given)

=============================================================================
