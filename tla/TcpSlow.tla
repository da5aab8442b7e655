------------------------------- MODULE TcpSlow -------------------------------
(***************************************************************************)
(* The connection management of the TCP slow path, as operators on the     *)
(* state h of one slow-path process (struct tcp_slow_context).  A handler  *)
(* of the code is an operator that gives the state after the handler.      *)
(*                                                                         *)
(* Sockets are numbered from 1 in the order of their allocation; an id is  *)
(* never used again.  A host has one address, so that an endpoint is a     *)
(* pair <<host, port>>; windows, ECN and timestamps are left out.  All     *)
(* flows of a host hash to one bucket of the flow table.                   *)
(***************************************************************************)
EXTENDS Integers, SequencesExt, FiniteSetsExt

CONSTANTS
  MaxSocks,   \* the largest MAX_SOCKETS
  MaxReuse,   \* MAX_REUSOCK_PORT
  CtlLen      \* elements of the slow_fast control queues

VARIABLE
  load        \* what is exercised, and with which limits:
              \*   socks    MAX_SOCKETS
              \*   ports    ports are 1 .. ports (MIN_PORT .. MAX_PORT)
              \*   slots    TCP_FLOW_BUCKET_SLOTS
              \*   timers   TOMGR_SIZE
              \*   retries  TCP_RETX_RETRIES
              \*   appq     elements of the slow_app queue

Ports == 1 .. load.ports
Ids == 1 .. MaxSocks
NoId == 0               \* ID_INVALID
NoPort == 0
NoPeer == <<"none", NoPort>>

SYN == {"SYN"}
ACK == {"ACK"}
RST == {"RST"}
SYNACK == {"SYN", "ACK"}
FINACK == {"FIN", "ACK"}
RSTACK == {"RST", "ACK"}

Inactive ==
  [active |-> FALSE, backlog_len |-> 0, backlog_used |-> 0, ready_head |-> 0,
   ready_used |-> 0, ready_sids |-> <<>>]

\* The state after tcp_init.  keep says that tomgr_cancel fails in the
\* handler at hand (module Tomgr shows when it does); it is FALSE between
\* handlers.  met and again are history: the pairs of a port and a peer that
\* were connected, and those that were more than once.
SlowInit(host) ==
  [host   |-> host,
   socks  |-> <<>>,
   lst    |-> [i \in Ids |-> Inactive],
   port   |-> [p \in Ports |-> [sids |-> <<>>, next_sock |-> 0]],
   bound  |-> [p \in Ports |-> NoId],
   flows  |-> [k \in 1 .. load.slots |-> NoId],
   timers |-> [i \in Ids |-> 0],
   keep   |-> FALSE,
   met    |-> {},
   again  |-> {},
   ctlq   |-> <<>>,
   appq   |-> <<>>]

-----------------------------------------------------------------------------
(* Control packets to the fast path, messages to the application.  A full  *)
(* queue drops them.                                                       *)

CtlRoom(h) == Len(h.ctlq) < CtlLen

ctl_pkt_enqueue(h, port, remote, seq, ack, flags) ==
  IF CtlRoom(h)
  THEN [h EXCEPT !.ctlq = Append(@,
          [src |-> <<h.host, port>>, dst |-> remote, seq |-> seq, ack |-> ack,
           flags |-> flags])]
  ELSE h

tcp_ctl_tx(h, i, flags) ==
  LET s == h.socks[i]
  IN ctl_pkt_enqueue(h, s.local_port, s.remote, s.tx_seq, s.rx_seq, flags)

\* Only called for a SYN-ACK, whose number is one below tx_seq.
tcp_ctl_tx_resend(h, i, flags) ==
  LET s == h.socks[i]
  IN ctl_pkt_enqueue(h, s.local_port, s.remote, s.tx_seq - 1, s.rx_seq, flags)

\* The answer to a packet that is refused.
Refuse(h, p) ==
  ctl_pkt_enqueue(h, p.dst[2], p.src, 0, p.seq + 1, RSTACK)

ToApp(h, msg) ==
  IF Len(h.appq) < load.appq THEN [h EXCEPT !.appq = Append(@, msg)] ELSE h

tcp_app_connect_res(h, i, status) ==
  ToApp(h, [type |-> "CONNECT_RES", opaque |-> h.socks[i].opaque,
            port |-> h.socks[i].local_port, status |-> status])

tcp_app_listen_res(h, opaque, status) ==
  ToApp(h, [type |-> "LISTEN_RES", opaque |-> opaque, status |-> status])

tcp_app_listen_newconn(h, l) ==
  ToApp(h, [type |-> "LISTEN_NEWCONN", opaque |-> h.socks[l].opaque])

tcp_app_accept_res(h, opaque, l, i, status) ==
  ToApp(h, [type |-> "ACCEPT_RES", opaque |-> opaque,
            listen_opaque |-> h.socks[l].opaque, sid |-> i,
            port |-> IF i = NoId THEN NoPort ELSE h.socks[i].local_port,
            status |-> status])

-----------------------------------------------------------------------------
(* Retransmission timers.  timers[i] counts the entries of socket i in the *)
(* timeout manager: a cancellation that fails leaves one behind.           *)

TimerRoom(h) == MapThenSumSet(LAMBDA i : h.timers[i], Ids) < load.timers

tcp_timeout_cancel(h, i) ==
  [h EXCEPT
     !.timers[i] = IF h.socks[i].timer /\ ~h.keep THEN @ - 1 ELSE @,
     !.socks[i].timer = FALSE,
     !.socks[i].retx_kind = "NONE",
     !.socks[i].retx_left = 0]

sock_retx_sched(h, i) ==
  IF TimerRoom(h)
  THEN [h EXCEPT !.timers[i] = @ + 1, !.socks[i].timer = TRUE]
  ELSE [h EXCEPT !.socks[i].timer = FALSE,
                 !.socks[i].retx_kind = "NONE",
                 !.socks[i].retx_left = 0]

tcp_timeout_arm(h, i, kind) ==
  sock_retx_sched(
    [tcp_timeout_cancel(h, i) EXCEPT !.socks[i].retx_kind = kind,
                                     !.socks[i].retx_left = load.retries], i)

-----------------------------------------------------------------------------
(* The flow table, bound ports and listening ports *)

SlotsOf(h, i) == {k \in DOMAIN h.flows : h.flows[k] = i}
FlowRoom(h) == SlotsOf(h, NoId) # {}

tcp_flow_insert(h, i) == [h EXCEPT !.flows[Min(SlotsOf(h, NoId))] = i]

tcp_flow_remove(h, i) ==
  IF SlotsOf(h, i) = {} THEN h
  ELSE [h EXCEPT !.flows[Min(SlotsOf(h, i))] = NoId]

\* The socket a packet belongs to, NoId if there is none.
tcp_flow_lookup(h, p) ==
  LET match == {k \in DOMAIN h.flows :
                  /\ h.flows[k] # NoId
                  /\ h.socks[h.flows[k]].state # "CLOSED"
                  /\ h.socks[h.flows[k]].local_port = p.dst[2]
                  /\ h.socks[h.flows[k]].remote = p.src}
  IN IF match = {} THEN NoId ELSE h.flows[Min(match)]

FreePorts(h) == {p \in Ports : h.bound[p] = NoId}

tcp_bound_remove(h, port, i) ==
  IF port \in Ports /\ h.bound[port] = i
  THEN [h EXCEPT !.bound[port] = NoId] ELSE h

sock_autobind_port(h, i) ==
  LET port == Min(FreePorts(h))
  IN [h EXCEPT !.bound[port] = i,
               !.socks[i].auto_bound = TRUE,
               !.socks[i].local_port = port, !.socks[i].from = "picked"]

\* tcp_listener_insert succeeds.
PortOpen(h, i) ==
  LET sids == h.port[h.socks[i].local_port].sids
  IN \/ sids = <<>>
     \/ /\ h.socks[i].reuport
        /\ Len(sids) < MaxReuse
        /\ \A k \in DOMAIN sids : h.socks[sids[k]].reuport

tcp_listener_insert(h, i) ==
  [h EXCEPT !.port[h.socks[i].local_port] =
     [sids |-> Append(@.sids, i),
      next_sock |-> IF @.sids = <<>> THEN 0 ELSE @.next_sock]]

\* Mutant of tcp_listener_remove: the turn is left at a socket that is gone.
Bug_remove_keeps_turn(h, i) ==
  LET p == h.socks[i].local_port
      keep(j) == j # i
  IN IF p = NoPort THEN h
     ELSE [h EXCEPT !.port[p].sids = SelectSeq(@, keep)]

\* The first entry of the id is removed, and only that one.
tcp_listener_remove(h, i) ==
  LET p == h.socks[i].local_port
      sids == h.port[p].sids
      at == {k \in DOMAIN sids : sids[k] = i}
      rest == SubSeq(sids, 1, Min(at) - 1) \o SubSeq(sids, Min(at) + 1, Len(sids))
  IN IF p = NoPort \/ at = {} THEN h
     ELSE [h EXCEPT !.port[p] =
             [sids |-> rest,
              next_sock |-> IF @.next_sock >= Len(rest) THEN 0 ELSE @.next_sock]]

\* The index (from 0) of the listener that gets the next SYN for port p, -1
\* if none listens: the sockets of the port take turns.
tcp_listener_lookup(h, p) ==
  LET e == h.port[p]
      turn(k) == (e.next_sock + k) % Len(e.sids)
      ready == {k \in 0 .. Len(e.sids) - 1 :
                  h.socks[e.sids[turn(k) + 1]].state = "LISTEN"}
  IN IF ready = {} THEN -1 ELSE turn(Min(ready))

-----------------------------------------------------------------------------
(* Listeners and their children *)

listener_backlog_put(h, l) ==
  [h EXCEPT !.lst[l].backlog_used = IF @ > 0 THEN @ - 1 ELSE 0]

\* Mutant of tcp_listener_detach_child: the ring keeps its entry.
Bug_detach_keeps_entry(h, i) ==
  LET l == h.socks[i].listener_id
  IN IF l = NoId THEN h
     ELSE listener_backlog_put([h EXCEPT !.socks[i].listener_id = NoId], l)

tcp_listener_detach_child(h, i) ==
  LET l == h.socks[i].listener_id
      clear(r) == IF \E k \in DOMAIN r : r[k] = i
                  THEN [r EXCEPT ![CHOOSE k \in DOMAIN r : r[k] = i] = NoId]
                  ELSE r
  IN IF l = NoId THEN h
     ELSE listener_backlog_put(
            [h EXCEPT !.lst[l].ready_sids = IF h.lst[l].active THEN clear(@) ELSE @,
                      !.socks[i].listener_id = NoId], l)

ReadyRoom(h, l) ==
  h.lst[l].active /\ h.lst[l].ready_used < h.lst[l].backlog_len

tcp_listener_ready_push(h, l, i) ==
  LET r == h.lst[l]
      pos == r.ready_head + r.ready_used
      at == IF pos >= r.backlog_len THEN pos - r.backlog_len ELSE pos
  IN [h EXCEPT !.lst[l].ready_sids[at + 1] = i, !.lst[l].ready_used = @ + 1]

\* The ring is read from its head up to the first child that can be accepted,
\* NoId if there is none; everything before it leaves the ring.
ReadyAt(h, l, k) ==
  h.lst[l].ready_sids[((h.lst[l].ready_head + k) % h.lst[l].backlog_len) + 1]

Acceptable(h, l) ==
  {k \in 0 .. h.lst[l].ready_used - 1 :
     LET i == ReadyAt(h, l, k)
     IN /\ i # NoId
        /\ h.socks[i].listener_id = l
        /\ h.socks[i].state = "ACCEPT_PENDING"}

ReadyHead(h, l) ==
  IF Acceptable(h, l) = {} THEN NoId ELSE ReadyAt(h, l, Min(Acceptable(h, l)))

tcp_listener_ready_pop(h, l) ==
  LET r == h.lst[l]
      n == IF Acceptable(h, l) = {} THEN r.ready_used
           ELSE Min(Acceptable(h, l)) + 1
      read == {ReadyAt(h, l, k) : k \in 0 .. n - 1} \ {NoId}
      stale == {i \in read : /\ h.socks[i].listener_id = l
                             /\ h.socks[i].state # "ACCEPT_PENDING"}
      gone == {((r.ready_head + k) % r.backlog_len) + 1 : k \in 0 .. n - 1}
  IN [h EXCEPT
        !.lst[l] = [@ EXCEPT
          !.backlog_used = Max({0, @ - Cardinality(stale)}),
          !.ready_head = (@ + n) % r.backlog_len,
          !.ready_used = @ - n,
          !.ready_sids = [k \in DOMAIN @ |-> IF k \in gone THEN NoId ELSE @[k]]],
        !.socks = [i \in DOMAIN @ |->
          IF i \in stale THEN [@[i] EXCEPT !.listener_id = NoId] ELSE @[i]]]

-----------------------------------------------------------------------------
(* The life of a socket *)

\* from is history: how the socket got its port ("picked" by the slow path,
\* "asked" for with bind, or that of a "listener").
NewSock(opaque) ==
  [state |-> "INIT", opaque |-> opaque, reuport |-> FALSE,
   local_port |-> NoPort, remote |-> NoPeer, from |-> "none",
   tx_seq |-> 0, tx_pending |-> 0, rx_seq |-> 0,
   listener_id |-> NoId, auto_bound |-> FALSE,
   timer |-> FALSE, retx_kind |-> "NONE", retx_left |-> 0]

SockRoom(h) == Len(h.socks) < load.socks
tcp_sock_alloc(h, opaque) == [h EXCEPT !.socks = Append(@, NewSock(opaque))]

sock_conn_reset(s) ==
  [s EXCEPT !.remote = NoPeer, !.tx_seq = 0, !.tx_pending = 0, !.rx_seq = 0]

\* Mutant of tcp_sock_close_final: the flow table keeps the socket.
Bug_close_keeps_flow(h, i) ==
  LET d == tcp_listener_detach_child(tcp_timeout_cancel(h, i), i)
      b == tcp_bound_remove(d, d.socks[i].local_port, i)
  IN [b EXCEPT !.socks[i] = [sock_conn_reset(@) EXCEPT !.state = "CLOSED",
                                                       !.auto_bound = FALSE]]

tcp_sock_close_final(h, i) ==
  LET d == tcp_flow_remove(tcp_listener_detach_child(tcp_timeout_cancel(h, i), i), i)
      b == tcp_bound_remove(d, d.socks[i].local_port, i)
  IN [b EXCEPT !.socks[i] = [sock_conn_reset(@) EXCEPT !.state = "CLOSED",
                                                       !.auto_bound = FALSE]]

sock_autobind_drop(h, i) ==
  IF ~h.socks[i].auto_bound THEN h
  ELSE [tcp_bound_remove(h, h.socks[i].local_port, i) EXCEPT
          !.socks[i].local_port = NoPort, !.socks[i].auto_bound = FALSE]

\* Mutants of tcp_sock_connect_fail: the application is not told; the timer
\* goes on.
Bug_fail_silent(h, i, err) ==
  LET d == sock_autobind_drop(tcp_flow_remove(tcp_timeout_cancel(h, i), i), i)
  IN [d EXCEPT !.socks[i] = [sock_conn_reset(@) EXCEPT !.state = "INIT"]]

Bug_fail_keeps_timer(h, i, err) ==
  LET d == sock_autobind_drop(tcp_flow_remove(h, i), i)
  IN tcp_app_connect_res(
       [d EXCEPT !.socks[i] = [sock_conn_reset(@) EXCEPT !.state = "INIT"]], i, err)

tcp_sock_connect_fail(h, i, err) ==
  LET d == sock_autobind_drop(tcp_flow_remove(tcp_timeout_cancel(h, i), i), i)
  IN tcp_app_connect_res(
       [d EXCEPT !.socks[i] = [sock_conn_reset(@) EXCEPT !.state = "INIT"]], i, err)

sock_shutdown_start(h, i) ==
  LET f == [h EXCEPT !.socks[i].state = "FIN_WAIT1"]
      t == tcp_timeout_arm(tcp_ctl_tx(f, i, FINACK), i, "FIN")
  IN IF CtlRoom(f) /\ t.socks[i].timer THEN t
     ELSE tcp_sock_close_final(IF CtlRoom(f) THEN t ELSE f, i)

sock_abort_open(h, i) ==
  LET s == h.socks[i]
      r == IF s.remote[2] = NoPort THEN h
           ELSE tcp_ctl_tx(h, i, IF s.rx_seq = 0 THEN RST ELSE RSTACK)
  IN tcp_sock_close_final(r, i)

\* The children of listener l are reset one after the other.
tcp_listener_abort_children(h, l) ==
  FoldLeft(LAMBDA g, i :
             IF g.socks[i].listener_id = l /\ g.socks[i].state # "CLOSED"
             THEN tcp_sock_close_final(
                    IF g.socks[i].remote[2] = NoPort THEN g
                    ELSE tcp_ctl_tx(g, i, RSTACK), i)
             ELSE g,
           h, [i \in DOMAIN h.socks |-> i])

sock_close_listen(h, i) ==
  LET c == tcp_listener_abort_children(tcp_listener_remove(h, i), i)
  IN tcp_sock_close_final([c EXCEPT !.lst[i] = Inactive], i)

-----------------------------------------------------------------------------
(* Requests of the application.  A request names a socket the slow path    *)
(* has given out, so that sock_id < n_socks holds.                         *)

app_new_sock(h, q) ==
  IF SockRoom(h)
  THEN ToApp(tcp_sock_alloc(h, q.opaque),
             [type |-> "NEW_SOCK_RES", opaque |-> q.opaque,
              sid |-> Len(h.socks) + 1])
  ELSE h

app_setopt(h, q) ==
  IF Len(h.appq) < load.appq
  THEN ToApp([h EXCEPT !.socks[q.sid].reuport = TRUE],
             [type |-> "SETOPT_RES", opaque |-> q.opaque, success |-> "yes"])
  ELSE h

\* A socket without a port first takes a free one, and then the one asked for,
\* which others may have.
app_bind(h, q) ==
  LET auto == h.socks[q.sid].local_port = NoPort
      ok == auto => FreePorts(h) # {}
      b == IF auto /\ ok THEN sock_autobind_port(h, q.sid) ELSE h
      res == [type |-> "BIND_RES", opaque |-> q.opaque, success |-> IF ok THEN "yes" ELSE "no"]
  IN IF Len(h.appq) >= load.appq THEN h
     ELSE IF ok THEN ToApp([b EXCEPT !.socks[q.sid].local_port = q.port,
                                     !.socks[q.sid].from = "asked"], res)
     ELSE ToApp(b, res)

sock_connect_start(h, i, remote) ==
  LET pair == {<<h.socks[i].local_port, remote>>}
      c == [h EXCEPT
              !.socks[i] = [@ EXCEPT
                 !.remote = remote, !.tx_seq = 1, !.tx_pending = 1, !.rx_seq = 0,
                 !.state = "SYN_SENT"],
              !.met = @ \cup pair, !.again = @ \cup (h.met \cap pair)]
      f == tcp_flow_insert(c, i)
      t == tcp_timeout_arm(tcp_ctl_tx(f, i, SYN), i, "SYN")
  IN IF ~FlowRoom(c) THEN tcp_sock_connect_fail(c, i, "ENOBUFS")
     ELSE IF ~CtlRoom(f) THEN tcp_sock_connect_fail(f, i, "EAGAIN")
     ELSE IF ~t.socks[i].timer THEN tcp_sock_connect_fail(t, i, "ENOBUFS")
     ELSE t

app_connect(h, q) ==
  LET s == h.socks[q.sid]
  IN CASE q.remote[2] = NoPort -> tcp_app_connect_res(h, q.sid, "EINVAL")
       [] q.remote[2] # NoPort /\ s.state = "LISTEN" ->
            tcp_app_connect_res(h, q.sid, "EOPNOTSUPP")
       [] q.remote[2] # NoPort /\ s.state # "LISTEN" ->
            IF s.local_port # NoPort THEN sock_connect_start(h, q.sid, q.remote)
            ELSE IF FreePorts(h) = {}
            THEN tcp_app_connect_res(h, q.sid, "EADDRINUSE")
            ELSE sock_connect_start(sock_autobind_port(h, q.sid), q.sid, q.remote)

app_listen(h, q) ==
  LET i == q.sid
      ring == IF h.lst[i].active THEN h.lst[i].ready_sids
              ELSE [k \in 1 .. q.backlog |-> NoId]
  IN IF h.socks[i].local_port = NoPort
     THEN tcp_app_listen_res(h, q.opaque, "EINVAL")
     ELSE IF ~PortOpen(h, i) THEN tcp_app_listen_res(h, q.opaque, "EADDRINUSE")
     ELSE tcp_app_listen_res(
            [tcp_listener_insert(h, i) EXCEPT
               !.lst[i] = [active |-> TRUE, backlog_len |-> q.backlog,
                           backlog_used |-> 0, ready_head |-> 0,
                           ready_used |-> 0, ready_sids |-> ring],
               !.socks[i].state = "LISTEN"],
            q.opaque, "OK")

sock_accept_own(h, i, opaque) ==
  [h EXCEPT !.socks[i].opaque = opaque, !.socks[i].listener_id = NoId,
            !.socks[i].state = "ESTABLISHED"]

\* Mutant of app_accept: the response names the listening socket.
Bug_accept_names_listener(h, q) ==
  LET l == q.sid
      i == ReadyHead(h, l)
      p == tcp_listener_ready_pop(h, l)
  IN IF i = NoId THEN tcp_app_accept_res(p, q.opaque, l, NoId, "EAGAIN")
     ELSE tcp_app_accept_res(
            listener_backlog_put(sock_accept_own(p, i, q.opaque), l),
            q.opaque, l, l, "OK")

app_accept(h, q) ==
  LET l == q.sid
      i == ReadyHead(h, l)
      p == tcp_listener_ready_pop(h, l)
  IN IF h.socks[l].state # "LISTEN"
     THEN tcp_app_accept_res(h, q.opaque, l, NoId, "EINVAL")
     ELSE IF i = NoId THEN tcp_app_accept_res(p, q.opaque, l, NoId, "EAGAIN")
     ELSE tcp_app_accept_res(
            listener_backlog_put(sock_accept_own(p, i, q.opaque), l),
            q.opaque, l, i, "OK")

app_shutdown(h, q) ==
  IF h.socks[q.sid].state = "ESTABLISHED" THEN sock_shutdown_start(h, q.sid) ELSE h

app_close(h, q) ==
  LET st == h.socks[q.sid].state
  IN CASE st = "LISTEN" -> sock_close_listen(h, q.sid)
       [] st \in {"SYN_SENT", "SYN_RECV", "ACCEPT_PENDING"} ->
            sock_abort_open(h, q.sid)
       [] st = "ESTABLISHED" -> sock_shutdown_start(h, q.sid)
       [] OTHER -> tcp_sock_close_final(h, q.sid)

app_request(h, q) ==
  CASE q.type = "NEW_SOCK_REQ" -> app_new_sock(h, q)
    [] q.type = "SETOPT_REQ"   -> app_setopt(h, q)
    [] q.type = "BIND_REQ"     -> app_bind(h, q)
    [] q.type = "CONNECT_REQ"  -> app_connect(h, q)
    [] q.type = "LISTEN_REQ"   -> app_listen(h, q)
    [] q.type = "ACCEPT_REQ"   -> app_accept(h, q)
    [] q.type = "SHUTDOWN_REQ" -> app_shutdown(h, q)
    [] q.type = "CLOSE_REQ"    -> app_close(h, q)

-----------------------------------------------------------------------------
(* Segments the fast path passes up *)

sock_ack_valid(s, ack) == ack = s.tx_seq + s.tx_pending

sock_active_established(h, i, p) ==
  [tcp_timeout_cancel(h, i) EXCEPT !.socks[i] = [@ EXCEPT
     !.rx_seq = p.seq + 1, !.tx_seq = @ + 1, !.tx_pending = @ - 1,
     !.state = "ESTABLISHED"]]

tcp_rx_syn_sent(h, i, p) ==
  LET e == tcp_ctl_tx(sock_active_established(h, i, p), i, ACK)
  IN IF "RST" \in p.flags THEN tcp_sock_connect_fail(h, i, "ECONNREFUSED")
     ELSE IF SYNACK \subseteq p.flags /\ sock_ack_valid(h.socks[i], p.ack)
     THEN tcp_app_connect_res(e, i, "OK")
     ELSE h

\* Mutants of sock_passive_established: the number of the SYN is not counted;
\* the timer goes on.
Bug_passive_keeps_seq(h, i) ==
  LET l == h.socks[i].listener_id
      e == [tcp_timeout_cancel(h, i) EXCEPT !.socks[i] = [@ EXCEPT
              !.tx_pending = @ - 1, !.state = "ACCEPT_PENDING"]]
  IN IF ReadyRoom(e, l)
     THEN tcp_app_listen_newconn(tcp_listener_ready_push(e, l, i), l)
     ELSE tcp_sock_close_final(e, i)

Bug_passive_keeps_timer(h, i) ==
  LET l == h.socks[i].listener_id
      e == [h EXCEPT !.socks[i] = [@ EXCEPT
              !.tx_pending = @ - 1, !.tx_seq = @ + 1,
              !.state = "ACCEPT_PENDING"]]
  IN IF ReadyRoom(e, l)
     THEN tcp_app_listen_newconn(tcp_listener_ready_push(e, l, i), l)
     ELSE tcp_sock_close_final(e, i)

sock_passive_established(h, i) ==
  LET l == h.socks[i].listener_id
      e == [tcp_timeout_cancel(h, i) EXCEPT !.socks[i] = [@ EXCEPT
              !.tx_pending = @ - 1, !.tx_seq = @ + 1,
              !.state = "ACCEPT_PENDING"]]
  IN IF ReadyRoom(e, l)
     THEN tcp_app_listen_newconn(tcp_listener_ready_push(e, l, i), l)
     ELSE tcp_sock_close_final(e, i)

tcp_rx_syn_recv(h, i, p) ==
  CASE "RST" \in p.flags -> tcp_sock_close_final(h, i)
    [] "RST" \notin p.flags /\ "SYN" \in p.flags /\ "ACK" \notin p.flags ->
         tcp_ctl_tx_resend(h, i, SYNACK)
    [] "RST" \notin p.flags /\ "ACK" \in p.flags ->
         IF sock_ack_valid(h.socks[i], p.ack)
         THEN sock_passive_established(h, i) ELSE h
    [] OTHER -> h

tcp_rx_listen_syn(h, l, p) ==
  LET i == Len(h.socks) + 1
      a == [tcp_sock_alloc(h, 0) EXCEPT !.socks[i] = [@ EXCEPT
              !.local_port = p.dst[2], !.from = "listener", !.remote = p.src,
              !.tx_seq = 1, !.tx_pending = 1, !.rx_seq = p.seq + 1, !.state = "SYN_RECV",
              !.listener_id = l]]
      b == [tcp_flow_insert(a, i) EXCEPT !.lst[l].backlog_used = @ + 1]
      t == tcp_timeout_arm(tcp_ctl_tx(b, i, SYNACK), i, "SYNACK")
  IN IF ~h.lst[l].active \/ h.lst[l].backlog_used >= h.lst[l].backlog_len
     THEN Refuse(h, p)
     ELSE IF tcp_flow_lookup(h, p) # NoId \/ ~SockRoom(h) THEN h
     ELSE IF ~FlowRoom(a) THEN Refuse([a EXCEPT !.socks[i].state = "CLOSED"], p)
     ELSE IF ~CtlRoom(b) THEN Refuse(tcp_sock_close_final(b, i), p)
     ELSE IF ~t.socks[i].timer
     THEN tcp_sock_close_final(tcp_ctl_tx(t, i, RSTACK), i)
     ELSE t

tcp_rx_established(h, i, p) ==
  LET f == [h EXCEPT !.socks[i].rx_seq = p.seq + 1]
  IN CASE "RST" \in p.flags -> tcp_sock_close_final(h, i)
       [] "RST" \notin p.flags /\ "FIN" \in p.flags ->
            tcp_sock_close_final(tcp_ctl_tx(f, i, ACK), i)
       [] OTHER -> h

tcp_rx_fin_wait1(h, i, p) ==
  LET fin == "FIN" \in p.flags
      f == IF fin THEN tcp_ctl_tx([h EXCEPT !.socks[i].rx_seq = p.seq + 1], i, ACK)
           ELSE h
  IN IF fin \/ ("ACK" \in p.flags /\ p.ack = h.socks[i].tx_seq)
     THEN tcp_sock_close_final(tcp_timeout_cancel(f, i), i)
     ELSE f

sock_ctl_rx(h, i, p) ==
  LET st == h.socks[i].state
  IN CASE st = "SYN_SENT" -> tcp_rx_syn_sent(h, i, p)
       [] st = "SYN_RECV" -> tcp_rx_syn_recv(h, i, p)
       [] st \in {"ACCEPT_PENDING", "ESTABLISHED"} -> tcp_rx_established(h, i, p)
       [] st = "FIN_WAIT1" -> tcp_rx_fin_wait1(h, i, p)
       [] OTHER -> h

ctl_rx(h, p) ==
  LET i == tcp_flow_lookup(h, p)
      port == p.dst[2]
      k == tcp_listener_lookup(h, port)
  IN IF i # NoId THEN sock_ctl_rx(h, i, p)
     ELSE IF "SYN" \notin p.flags \/ "ACK" \in p.flags THEN h
     ELSE IF k = -1 THEN Refuse(h, p)
     ELSE tcp_rx_listen_syn(
            [h EXCEPT !.port[port].next_sock = (k + 1) % Len(h.port[port].sids)],
            h.port[port].sids[k + 1], p)

-----------------------------------------------------------------------------
(* Expiry of a timer of socket i *)

sock_retx_tx(h, i) ==
  LET s == h.socks[i]
      flags == [SYN |-> SYN, SYNACK |-> SYNACK, FIN |-> FINACK][s.retx_kind]
  IN ctl_pkt_enqueue(h, s.local_port, s.remote, s.tx_seq + s.tx_pending - 1,
                     s.rx_seq, flags)

sock_retx_expire(h, i) ==
  CASE h.socks[i].retx_kind = "SYN" -> tcp_sock_connect_fail(h, i, "ETIMEDOUT")
    [] h.socks[i].retx_kind \in {"SYNACK", "FIN"} ->
         tcp_sock_close_final(tcp_ctl_tx(h, i, RSTACK), i)
    [] OTHER -> h

\* Mutant of sock_on_timeout: the timer is not set again.
Bug_timeout_once(h, i) ==
  IF h.socks[i].retx_left = 0 \/ ~CtlRoom(h) THEN sock_retx_expire(h, i)
  ELSE [sock_retx_tx(h, i) EXCEPT !.socks[i].retx_left = @ - 1]

sock_on_timeout(h, i) ==
  LET t == [sock_retx_tx(h, i) EXCEPT !.socks[i].retx_left = @ - 1]
  IN IF h.socks[i].retx_left = 0 \/ ~CtlRoom(h) THEN sock_retx_expire(h, i)
     ELSE IF TimerRoom(t) THEN sock_retx_sched(t, i)
     ELSE sock_retx_expire(sock_retx_sched(t, i), i)

tcp_timeout_poll(h, i) ==
  LET t == [h EXCEPT !.timers[i] = @ - 1, !.socks[i].timer = FALSE]
  IN IF h.socks[i].retx_kind = "NONE" THEN t ELSE sock_on_timeout(t, i)
=============================================================================
