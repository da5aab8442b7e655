------------------------------- MODULE TcpConn -------------------------------
(***************************************************************************)
(* Opening and closing TCP connections.  On every host an application      *)
(* thread in the TCP library, the slow path and the fast path interact     *)
(* through the shared-memory queues; the hosts interact through a network  *)
(* that loses, duplicates and reorders a bounded number of segments.  The  *)
(* other peers are not running this stack: they send any of the segments    *)
(* load.segs, load.env of them in all.                                     *)
(*                                                                         *)
(* A handler of the slow path is one step.  A retransmission timer that is *)
(* set may expire at any time.                                             *)
(***************************************************************************)
EXTENDS TcpSlow, TcpLib

CONSTANTS
  Hosts,      \* hosts that run the stack
  Loads,      \* what applications, peers and network do; one is chosen
  BindTo,     \* BindTo[x]: the ports an application binds to
  Targets,    \* Targets[x]: the endpoints it connects to
  Keep,       \* the outcomes of tomgr_cancel: TRUE is a failure
  ReqLen,     \* elements of the app_slow queue
  PuntLen     \* elements of the fast_slow control queues

(* A load has also the fields
     block      block[x]: SOCK_NONBLOCK clear, set, or both
     listening  hosts that listen on port 1 from the start
     calls      calls[x]: the calls the application of host x makes
     max        max[x]: bound on the calls it makes
     fds        fds[x]: MAX_SOCKETS of the library
     backlog    the backlog it asks for
     segs, env  the segments of other peers, and a bound on how many they send
     net        bound on the segments under way to a host
     faults     bound on lost, duplicated and delayed segments
     data       bound on segments with data                                 *)

VARIABLES
  slow,       \* slow[x]: the slow path of host x
  lib,        \* lib[x]: the library of its application
  req,        \* req[x]: the app_slow queue
  punt,       \* punt[x]: the fast_slow control queues
  net,        \* net[x]: segments under way to x
  calls,      \* calls[x]: calls made so far
  faults, env, data

vars == <<slow, lib, req, punt, net, calls, faults, env, data, load>>

\* The state after tcp_socket, tcp_bind to port 1 and tcp_listen.
ListenSlow(x) ==
  LET polled(h) == [h EXCEPT !.appq = <<>>]
      s == polled(app_new_sock(SlowInit(x), [opaque |-> 1]))
      b == polled(app_bind(s, [sid |-> 1, opaque |-> 1, port |-> 1]))
  IN polled(app_listen(b, [sid |-> 1, opaque |-> 1, backlog |-> load.backlog]))

ListenLib ==
  [LibInit EXCEPT !.socks = <<[NewLibSock EXCEPT
     !.sid = 1, !.local_port = 1, !.state = "LISTEN", !.op_status = "OK"]>>]

Init ==
  /\ load \in Loads
  /\ slow = [x \in Hosts |-> IF x \in load.listening THEN ListenSlow(x) ELSE SlowInit(x)]
  /\ lib = [x \in Hosts |-> IF x \in load.listening THEN ListenLib ELSE LibInit]
  /\ req = [x \in Hosts |-> <<>>]
  /\ punt = [x \in Hosts |-> <<>>]
  /\ net = [x \in Hosts |-> <<>>]
  /\ calls = [x \in Hosts |-> 0]
  /\ faults = 0 /\ env = 0 /\ data = 0

-----------------------------------------------------------------------------
(* The application *)

ReqRoom(x) == Len(req[x]) < ReqLen
Ask(x, q) == req' = [req EXCEPT ![x] = Append(@, q)]
Lib(x, L) == lib' = [lib EXCEPT ![x] = L]
AppOnly == UNCHANGED <<slow, punt, net, faults, env, data, load>>

May(x, call) ==
  /\ lib[x].call = Idle /\ call \in load.calls[x]
  /\ calls[x] < load.max[x] /\ calls' = [calls EXCEPT ![x] = @ + 1]
Sock(x, fd) == lib[x].socks[fd]
Req(x, type, fd) == [type |-> type, sid |-> Sock(x, fd).sid, opaque |-> fd]

\* What the library leaves to the application: it binds a socket before it
\* uses it, and does not open one again that it has shut down.
Orderly(x, call, fd) ==
  /\ call = "bind" => Sock(x, fd).state = "INIT"
  /\ call \in {"connect", "listen"} => Sock(x, fd).state # "CLOSING"

\* With a full request queue the descriptor is lost.
AppSocket(x) ==
  /\ May(x, "socket") /\ FdRoom(lib[x], load.fds[x])
  /\ IF ReqRoom(x)
     THEN /\ Lib(x, tcp_socket(lib[x]))
          /\ Ask(x, [type |-> "NEW_SOCK_REQ", opaque |-> Len(lib[x].socks) + 1])
     ELSE /\ Lib(x, [lib[x] EXCEPT !.socks = Append(@, [NewLibSock EXCEPT !.active = FALSE])])
          /\ UNCHANGED req
  /\ AppOnly

AppBind(x, fd) ==
  /\ May(x, "bind") /\ fd \in Usable(lib[x]) /\ ReqRoom(x)
  /\ Orderly(x, "bind", fd)
  /\ \E port \in BindTo[x] :
       /\ Lib(x, tcp_bind(lib[x], fd, port))
       /\ Ask(x, [type |-> "BIND_REQ", sid |-> Sock(x, fd).sid, opaque |-> fd,
                  port |-> port])
  /\ AppOnly

AppSetsockopt(x, fd) ==
  /\ May(x, "setsockopt") /\ fd \in Usable(lib[x]) /\ ReqRoom(x)
  /\ Lib(x, tcp_setsockopt(lib[x], fd))
  /\ Ask(x, Req(x, "SETOPT_REQ", fd))
  /\ AppOnly

AppConnect(x, fd) ==
  /\ May(x, "connect") /\ fd \in Usable(lib[x]) /\ ReqRoom(x)
  /\ CanConnect(Sock(x, fd)) /\ Orderly(x, "connect", fd)
  /\ \E block \in load.block[x], remote \in Targets[x] :
       /\ Lib(x, tcp_connect(lib[x], fd, block))
       /\ Ask(x, [type |-> "CONNECT_REQ", sid |-> Sock(x, fd).sid,
                  opaque |-> fd, remote |-> remote])
  /\ AppOnly

AppConnectJoin(x, fd) ==
  /\ May(x, "connect") /\ TRUE \in load.block[x] /\ fd \in Usable(lib[x])
  /\ Sock(x, fd).state = "CONNECTING"
  /\ Lib(x, tcp_connect_join(lib[x], fd))
  /\ UNCHANGED req /\ AppOnly

AppListen(x, fd) ==
  /\ May(x, "listen") /\ fd \in Usable(lib[x]) /\ ReqRoom(x)
  /\ CanListen(Sock(x, fd)) /\ Orderly(x, "listen", fd)
  /\ Lib(x, tcp_listen(lib[x], fd))
  /\ Ask(x, [type |-> "LISTEN_REQ", sid |-> Sock(x, fd).sid, opaque |-> fd,
             backlog |-> load.backlog])
  /\ AppOnly

AppListenErr(x, fd) ==
  /\ May(x, "listen") /\ fd \in Usable(lib[x]) /\ ListenFails(Sock(x, fd))
  /\ Lib(x, tcp_listen_err(lib[x], fd))
  /\ UNCHANGED req /\ AppOnly

AppAccept(x, fd) ==
  /\ May(x, "accept") /\ fd \in Usable(lib[x])
  /\ \E block \in load.block[x] : CanAccept(Sock(x, fd), block)
  /\ Lib(x, tcp_accept(lib[x], fd))
  /\ UNCHANGED req /\ AppOnly

\* tcp_accept goes on: it fails without a free descriptor, and loses one
\* when the request queue is full.
AppAccepting(x) ==
  /\ lib[x].call.op = "accept" /\ Ready(lib[x])
  /\ IF FdRoom(lib[x], load.fds[x]) /\ ReqRoom(x)
     THEN /\ Lib(x, Accepting(lib[x]))
          /\ Ask(x, [type |-> "ACCEPT_REQ", sid |-> Sock(x, lib[x].call.fd).sid,
                     opaque |-> Len(lib[x].socks) + 1])
     ELSE /\ Lib(x, [lib[x] EXCEPT
               !.call = Idle,
               !.socks = IF FdRoom(lib[x], load.fds[x])
                         THEN Append(@, [NewLibSock EXCEPT !.active = FALSE]) ELSE @])
          /\ UNCHANGED req
  /\ UNCHANGED calls /\ AppOnly

AppShutdown(x, fd) ==
  /\ May(x, "shutdown") /\ fd \in Usable(lib[x]) /\ ReqRoom(x)
  /\ CanShutdown(Sock(x, fd))
  /\ Lib(x, tcp_shutdown(lib[x], fd))
  /\ Ask(x, Req(x, "SHUTDOWN_REQ", fd))
  /\ AppOnly

\* With a full request queue the slow path never hears of it.
AppClose(x, fd) ==
  /\ May(x, "close") /\ fd \in Usable(lib[x])
  /\ Lib(x, tcp_close(lib[x], fd))
  /\ IF ReqRoom(x) THEN Ask(x, Req(x, "CLOSE_REQ", fd)) ELSE UNCHANGED req
  /\ AppOnly

\* A message is handled, and a call whose event it brings comes back.
tcp_poll_slow(x) ==
  /\ slow[x].appq # <<>>
  /\ \E L \in {handle_res(lib[x], Head(slow[x].appq))} :
       Lib(x, IF L.call.op \notin {"none", "accept"} /\ Ready(L) THEN Finish(L) ELSE L)
  /\ slow' = [slow EXCEPT ![x].appq = Tail(@)]
  /\ UNCHANGED <<req, punt, net, calls, faults, env, data, load>>

App(x) ==
  \/ AppSocket(x) \/ AppAccepting(x) \/ tcp_poll_slow(x)
  \/ \E fd \in DOMAIN lib[x].socks :
       \/ AppBind(x, fd) \/ AppSetsockopt(x, fd)
       \/ AppConnect(x, fd) \/ AppConnectJoin(x, fd)
       \/ AppListen(x, fd) \/ AppListenErr(x, fd)
       \/ AppAccept(x, fd) \/ AppShutdown(x, fd) \/ AppClose(x, fd)

-----------------------------------------------------------------------------
(* The slow path *)

Slow(x, Handle(_)) ==
  \E k \in Keep :
    slow' = [slow EXCEPT ![x] = [Handle([@ EXCEPT !.keep = k]) EXCEPT !.keep = FALSE]]

tcp_app_poll(x) ==
  /\ req[x] # <<>>
  /\ Slow(x, LAMBDA h : app_request(h, Head(req[x])))
  /\ req' = [req EXCEPT ![x] = Tail(@)]
  /\ UNCHANGED <<lib, punt, net, calls, faults, env, data, load>>

tcp_fast_poll(x) ==
  /\ punt[x] # <<>>
  /\ Slow(x, LAMBDA h : ctl_rx(h, Head(punt[x])))
  /\ punt' = [punt EXCEPT ![x] = Tail(@)]
  /\ UNCHANGED <<lib, req, net, calls, faults, env, data, load>>

Expire(x) ==
  /\ \E i \in DOMAIN slow[x].socks :
       /\ slow[x].timers[i] > 0
       /\ Slow(x, LAMBDA h : tcp_timeout_poll(h, i))
  /\ UNCHANGED <<lib, req, punt, net, calls, faults, env, data, load>>

-----------------------------------------------------------------------------
(* The fast path *)

\* Segments to a peer outside Hosts leave the model.
Send(n, p) == IF p.dst[1] \in Hosts THEN [n EXCEPT ![p.dst[1]] = Append(@, p)] ELSE n
NetRoom(p) == p.dst[1] \in Hosts => Len(net[p.dst[1]]) < load.net

deq_handle_ctl_tx(x) ==
  /\ slow[x].ctlq # <<>> /\ NetRoom(Head(slow[x].ctlq))
  /\ net' = Send(net, Head(slow[x].ctlq))
  /\ slow' = [slow EXCEPT ![x].ctlq = Tail(@)]
  /\ UNCHANGED <<lib, req, punt, calls, faults, env, data, load>>

\* A segment with data, or one that acknowledges data.
tcp_event_sched(x) ==
  /\ data < load.data
  /\ \E i \in DOMAIN slow[x].socks :
       LET s == slow[x].socks[i]
       IN /\ s.state = "ESTABLISHED"
          /\ NetRoom([dst |-> s.remote])
          /\ net' = Send(net, [src |-> <<x, s.local_port>>, dst |-> s.remote,
                               seq |-> s.tx_seq, ack |-> s.rx_seq, flags |-> ACK])
  /\ data' = data + 1
  /\ UNCHANGED <<slow, lib, req, punt, calls, faults, env, load>>

\* What an established connection does with data is module TcpData's.
rx_is_flags_ctl(p) == p.flags \cap {"SYN", "FIN", "RST"} # {}
Punted(h, p) ==
  LET i == tcp_flow_lookup(h, p)
  IN rx_is_flags_ctl(p) \/ (i # NoId /\ h.socks[i].state # "ESTABLISHED")

tcp_event_rx(x) ==
  /\ net[x] # <<>>
  /\ punt' = IF Punted(slow[x], Head(net[x])) /\ Len(punt[x]) < PuntLen
             THEN [punt EXCEPT ![x] = Append(@, Head(net[x]))] ELSE punt
  /\ net' = [net EXCEPT ![x] = Tail(@)]
  /\ UNCHANGED <<slow, lib, req, calls, faults, env, data, load>>

-----------------------------------------------------------------------------
(* The network and the other peers *)

Disturb(x) ==
  /\ faults < load.faults /\ net[x] # <<>>
  /\ net' \in {[net EXCEPT ![x] = Tail(@)],
               [net EXCEPT ![x] = Append(@, Head(@))],
               [net EXCEPT ![x] = Append(Tail(@), Head(@))]}
  /\ net' # net /\ Len(net'[x]) <= load.net
  /\ faults' = faults + 1
  /\ UNCHANGED <<slow, lib, req, punt, calls, env, data, load>>

\* One segment at a time: what these peers send next is open anyway.
EnvSend ==
  /\ env < load.env
  /\ \E p \in load.segs : net[p.dst[1]] = <<>> /\ net' = Send(net, p)
  /\ env' = env + 1
  /\ UNCHANGED <<slow, lib, req, punt, calls, faults, data, load>>

SlowStep(x) == tcp_app_poll(x) \/ tcp_fast_poll(x) \/ Expire(x)
FastStep(x) == deq_handle_ctl_tx(x) \/ tcp_event_rx(x)

Next ==
  \/ EnvSend
  \/ \E x \in Hosts : App(x) \/ SlowStep(x) \/ FastStep(x) \/ tcp_event_sched(x)
                      \/ Disturb(x)

Spec == Init /\ [][Next]_vars

\* The slow path and the fast path are loops that serve each of their queues
\* and the timers in every round, and an application that waits polls: weak
\* fairness of each, with its enabling condition written out.
Fairness ==
  \A x \in Hosts :
    /\ <>[](req[x] # <<>>) => []<><<tcp_app_poll(x)>>_vars
    /\ <>[](punt[x] # <<>>) => []<><<tcp_fast_poll(x)>>_vars
    /\ <>[](\E i \in Ids : slow[x].timers[i] > 0) => []<><<Expire(x)>>_vars
    /\ <>[](slow[x].ctlq # <<>> /\ NetRoom(Head(slow[x].ctlq)))
         => []<><<deq_handle_ctl_tx(x)>>_vars
    /\ <>[](net[x] # <<>>) => []<><<tcp_event_rx(x)>>_vars
    /\ <>[](slow[x].appq # <<>>) => []<><<tcp_poll_slow(x)>>_vars
    /\ <>[](lib[x].call.op = "accept" /\ Ready(lib[x])) => []<><<AppAccepting(x)>>_vars

LiveSpec == Spec /\ Fairness

-----------------------------------------------------------------------------
Children(h, l, states) ==
  {i \in DOMAIN h.socks : h.socks[i].listener_id = l /\ h.socks[i].state \in states}

\* A listener's backlog counts its children that are half open or wait to be
\* accepted, whatever ended the others (a reset, a FIN, an expired timer, a
\* full queue, an accept): it never drifts, so that the listener neither
\* refuses connections for ever nor takes more than its backlog.  Its ring
\* holds each child that waits to be accepted exactly once, inside the window
\* of ready_used slots from ready_head, and nothing else.
BacklogExact ==
  \A x \in Hosts : \A l \in DOMAIN slow[x].socks :
    LET r == slow[x].lst[l]
        window == {((r.ready_head + k) % r.backlog_len) + 1 : k \in 0 .. r.ready_used - 1}
    IN r.active =>
         /\ r.backlog_used =
              Cardinality(Children(slow[x], l, {"SYN_RECV", "ACCEPT_PENDING"}))
         /\ r.backlog_used <= r.backlog_len
         /\ \A i \in Children(slow[x], l, {"ACCEPT_PENDING"}) :
              Cardinality({k \in window : r.ready_sids[k] = i}) = 1
         /\ \A k \in DOMAIN r.ready_sids :
              r.ready_sids[k] # NoId =>
                /\ k \in window
                /\ r.ready_sids[k] \in Children(slow[x], l, {"ACCEPT_PENDING"})

\* A port lists exactly the sockets that listen on it, each once, and several
\* only if all of them asked to share it; the turn is that of one of them.
ListenersExact ==
  \A x \in Hosts : \A p \in Ports :
    LET h == slow[x]
        sids == h.port[p].sids
    IN /\ IsInjective(sids)
       /\ ToSet(sids) = {i \in DOMAIN h.socks : /\ h.socks[i].state = "LISTEN"
                                                /\ h.socks[i].local_port = p}
       /\ Len(sids) > 1 => \A k \in DOMAIN sids : h.socks[sids[k]].reuport
       /\ h.port[p].next_sock < Max({1, Len(sids)})

TimerOf == [SYN_SENT |-> "SYN", SYN_RECV |-> "SYNACK", FIN_WAIT1 |-> "FIN"]

\* A connection that waits for its peer has a timer that will retransmit what
\* the state calls for, or give up; no other socket retransmits anything.
HalfOpenTimed ==
  \A x \in Hosts : \A i \in DOMAIN slow[x].socks :
    LET s == slow[x].socks[i]
    IN IF s.state \in DOMAIN TimerOf
       THEN s.retx_kind = TimerOf[s.state] /\ slow[x].timers[i] > 0
       ELSE s.retx_kind = "NONE"

Connected == {"SYN_SENT", "SYN_RECV", "ACCEPT_PENDING", "ESTABLISHED", "FIN_WAIT1"}

\* The flow table has exactly the sockets with a connection, each in one
\* slot, and a closed socket gives its slot back.  A segment finds the one
\* socket it is for: two of them have the same endpoints only if one, or the
\* listener it comes from, has a port that was asked for with bind, and not
\* both come from listeners.  app_bind does not reserve the port asked for.
\* (tcp_flow.c, tcp_app_req.c, tcp_rx_open.c)
FlowsExact ==
  \A x \in Hosts : LET h == slow[x] IN
    /\ \A i \in DOMAIN h.socks :
         Cardinality(SlotsOf(h, i)) = IF h.socks[i].state \in Connected THEN 1 ELSE 0
    /\ \A i, j \in DOMAIN h.socks :
         /\ i # j
         /\ {h.socks[i].state, h.socks[j].state} \subseteq Connected
         /\ h.socks[i].local_port = h.socks[j].local_port
         /\ h.socks[i].remote = h.socks[j].remote
         => {h.socks[i].from, h.socks[j].from} \notin {{"picked"}, {"listener"}}

\* What the library believes of a socket has happened in the slow path, and
\* no two descriptors stand for one socket: a connection is handed to one
\* accept only.
LibAgrees ==
  \A x \in Hosts :
    /\ \A f \in Usable(lib[x]) :
         LET l == lib[x].socks[f]
             st == slow[x].socks[l.sid].state
         IN /\ l.state = "LISTEN" => st = "LISTEN"
            /\ l.state = "ESTABLISHED" => st \in {"ESTABLISHED", "CLOSED"}
            /\ l.state = "CONNECTING" =>
                 st \in {"INIT", "SYN_SENT", "ESTABLISHED", "CLOSED"}
    /\ \A f, g \in DOMAIN lib[x].socks :
         f # g /\ lib[x].socks[f].sid # 0 => lib[x].socks[f].sid # lib[x].socks[g].sid

\* The socket pairs of two hosts that are the ends of one connection.
Ends ==
  {<<x, i, y, j>> \in Hosts \X Ids \X Hosts \X Ids :
     /\ x # y /\ i \in DOMAIN slow[x].socks /\ j \in DOMAIN slow[y].socks
     /\ slow[x].socks[i].state \in Connected /\ slow[y].socks[j].state \in Connected
     /\ slow[x].socks[i].remote = <<y, slow[y].socks[j].local_port>>
     /\ slow[y].socks[j].remote = <<x, slow[x].socks[i].local_port>>}

\* When both ends are open each expects the number the other sends next, the
\* first time they are connected: every connection starts at number 1 and
\* ports are used again at once, so that a second one between the same
\* endpoints can be opened by an answer to the first. (tcp_rx_open.c,
\* sock_connect_start)
NumbersAgree ==
  \A e \in Ends :
    LET a == slow[e[1]].socks[e[2]]
        b == slow[e[3]].socks[e[4]]
    IN /\ a.state = "ESTABLISHED"
       /\ b.state \in {"ACCEPT_PENDING", "ESTABLISHED"}
       /\ <<a.local_port, a.remote>> \notin slow[e[1]].again
       /\ <<b.local_port, b.remote>> \notin slow[e[3]].again
       => a.tx_seq = b.rx_seq /\ a.rx_seq = b.tx_seq

\* An end that is open expects the number its peer sends after its SYN.
RxSeqIsNext ==
  \A e \in Ends :
    LET a == slow[e[1]].socks[e[2]]
        b == slow[e[3]].socks[e[4]]
    IN a.state = "ESTABLISHED" /\ b.state = "SYN_RECV"
       => a.rx_seq = b.tx_seq + b.tx_pending

-----------------------------------------------------------------------------
\* A call of tcp_socket that found all sockets of the slow path taken.
TurnedAway(x) ==
  /\ lib[x].call.op = "socket" /\ req[x] = <<>> /\ ~SockRoom(slow[x])
  /\ \A i \in DOMAIN slow[x].socks : slow[x].socks[i].opaque # lib[x].call.fd

\* With room for answers in the queue to the library every call but accept
\* comes back, unless it is a tcp_socket that finds no socket left, which the
\* slow path does not answer; and a connection attempt ends, whatever is lost:
\* the library learns of success or of an error. (tcp_app_req.c, tcp_timeout.c)
CallsReturn ==
  \A x \in Hosts :
    /\ []<>(lib[x].call.op \in {"none", "accept"} \/ TurnedAway(x))
    /\ []<>(\A f \in DOMAIN lib[x].socks : lib[x].socks[f].state # "CONNECTING")

\* No socket stays half open or half closed.
HalfOpenEnds ==
  \A x \in Hosts : \A i \in Ids :
    []<>(i \in DOMAIN slow[x].socks => slow[x].socks[i].state \notin DOMAIN TimerOf)
=============================================================================
