-------------------------------- MODULE TcpLib --------------------------------
(***************************************************************************)
(* The socket calls of the TCP library, as operators on the state L of one *)
(* application context.  L.socks are the library's sockets (file           *)
(* descriptors from 1, never used again) and L.call is the call the        *)
(* application thread is in.  A call that fails on a check and changes     *)
(* nothing is no step.  The part of a call before it waits gives the state *)
(* in which it waits and the request it sends; Finish is what it does      *)
(* after the wait.                                                         *)
(***************************************************************************)
EXTENDS Integers, Sequences

NoFd == 0
Idle == [op |-> "none", fd |-> NoFd]

NewLibSock ==
  [active |-> TRUE, state |-> "INIT", sid |-> 0, local_port |-> 0,
   bind_success |-> "none", setopt_success |-> "none",
   op_status |-> "IDLE", pending_conn |-> 0]

LibInit == [socks |-> <<>>, call |-> Idle]

\* The descriptors lookup_sock accepts.
Usable(L) == {fd \in DOMAIN L.socks :
                L.socks[fd].active /\ L.socks[fd].state # "CLOSED"}

FdRoom(L, max) == Len(L.socks) < max
alloc_lib_sock(L) == [L EXCEPT !.socks = Append(@, NewLibSock)]
Waiting(L, op, fd) == [L EXCEPT !.call = [op |-> op, fd |-> fd]]

\* What wait_until waits for: the events of sock_wait_events.
Ready(L) ==
  LET s == L.socks[L.call.fd]
  IN /\ s.active
     /\ CASE L.call.op = "socket"     -> s.sid # 0
          [] L.call.op = "bind"       -> s.bind_success # "none"
          [] L.call.op = "setsockopt" -> s.setopt_success # "none"
          [] L.call.op = "accept"     -> s.state = "LISTEN" /\ s.pending_conn > 0
          [] L.call.op \in {"connect", "accepting"} ->
               s.op_status \notin {"IDLE", "PENDING"}

-----------------------------------------------------------------------------
(* Calls: whether they pass their checks, and the state in which they wait *)
(* or return                                                               *)

tcp_socket(L) == Waiting(alloc_lib_sock(L), "socket", Len(L.socks) + 1)

tcp_bind(L, fd, port) ==
  [L EXCEPT !.call = [op |-> "bind", fd |-> fd, port |-> port]]

tcp_setsockopt(L, fd) == Waiting(L, "setsockopt", fd)

CanConnect(s) == s.state \notin {"LISTEN", "ESTABLISHED", "CONNECTING"}
tcp_connect(L, fd, block) ==
  LET c == [L EXCEPT !.socks[fd].state = "CONNECTING",
                     !.socks[fd].op_status = "PENDING"]
  IN IF block THEN Waiting(c, "connect", fd) ELSE c

\* A blocking tcp_connect while an earlier one is under way.
tcp_connect_join(L, fd) == Waiting(L, "connect", fd)

CanListen(s) ==
  /\ s.local_port # 0
  /\ s.state \notin {"CONNECTING", "ESTABLISHED", "LISTEN"}
  /\ s.op_status \in {"IDLE", "OK"}
tcp_listen(L, fd) == [L EXCEPT !.socks[fd].op_status = "PENDING"]

\* tcp_listen reports, once, the failure of the operation before it.
ListenFails(s) ==
  /\ s.local_port # 0
  /\ s.state \notin {"CONNECTING", "ESTABLISHED", "LISTEN"}
  /\ s.op_status \notin {"IDLE", "OK", "PENDING"}
tcp_listen_err(L, fd) == [L EXCEPT !.socks[fd].op_status = "IDLE"]

CanAccept(s, block) == s.state = "LISTEN" /\ (block \/ s.pending_conn > 0)
tcp_accept(L, fd) == Waiting(L, "accept", fd)

\* tcp_accept once a connection is announced.
Accepting(L) ==
  LET fd == Len(L.socks) + 1
  IN [Waiting(alloc_lib_sock(L), "accepting", fd) EXCEPT
        !.socks[fd].op_status = "PENDING"]

CanShutdown(s) == s.state \in {"ESTABLISHED", "CLOSING"}
tcp_shutdown(L, fd) == [L EXCEPT !.socks[fd].state = "CLOSING"]

tcp_close(L, fd) ==
  [L EXCEPT !.socks[fd].state = "CLOSED", !.socks[fd].active = FALSE]

\* The end of a call whose event has come.
Finish(L) ==
  LET fd == L.call.fd
      s == L.socks[fd]
      done(r) == [socks |-> [L.socks EXCEPT ![fd] = r], call |-> Idle]
  IN CASE L.call.op = "socket" -> done(s)
       [] L.call.op = "setsockopt" -> done([s EXCEPT !.setopt_success = "none"])
       [] L.call.op = "bind" /\ s.bind_success = "yes" ->
            done([s EXCEPT !.bind_success = "none", !.local_port = L.call.port,
                           !.state = "BOUND"])
       [] L.call.op = "bind" /\ s.bind_success = "no" ->
            done([s EXCEPT !.bind_success = "none"])
       [] L.call.op = "connect" ->
            done(IF s.op_status = "OK" THEN s ELSE [s EXCEPT !.op_status = "IDLE"])
       [] L.call.op = "accepting" ->
            done(IF s.op_status = "OK" THEN s
                 ELSE [s EXCEPT !.active = FALSE, !.state = "CLOSED"])

-----------------------------------------------------------------------------
(* Messages of the slow path: tcp_poll_slow *)

Failed(s) == IF s.local_port # 0 THEN "BOUND" ELSE "INIT"

handle_connect_res(L, m) ==
  LET s == L.socks[m.opaque]
  IN IF m.opaque \notin Usable(L) THEN L
     ELSE [L EXCEPT !.socks[m.opaque] =
             IF m.status = "OK"
             THEN [s EXCEPT !.op_status = "OK", !.state = "ESTABLISHED",
                            !.local_port = m.port]
             ELSE [s EXCEPT !.op_status = m.status, !.state = Failed(s)]]

handle_listen_res(L, m) ==
  LET s == L.socks[m.opaque]
  IN IF m.opaque \notin Usable(L) THEN L
     ELSE [L EXCEPT !.socks[m.opaque] =
             [s EXCEPT !.op_status = m.status,
                       !.state = IF m.status = "OK" THEN "LISTEN" ELSE Failed(s)]]

handle_listen_newconn(L, m) ==
  IF L.socks[m.opaque].state = "LISTEN"
  THEN [L EXCEPT !.socks[m.opaque].pending_conn = @ + 1] ELSE L

handle_accept_res(L, m) ==
  LET s == L.socks[m.opaque]
      d == [L EXCEPT !.socks[m.listen_opaque].pending_conn =
                       IF @ > 0 THEN @ - 1 ELSE 0]
  IN IF ~s.active /\ s.state = "CLOSED" THEN L
     ELSE [d EXCEPT !.socks[m.opaque] =
             IF m.status = "OK"
             THEN [s EXCEPT !.op_status = "OK", !.sid = m.sid,
                            !.local_port = m.port, !.state = "ESTABLISHED"]
             ELSE [s EXCEPT !.op_status = m.status]]

handle_res(L, m) ==
  CASE m.type = "NEW_SOCK_RES" -> [L EXCEPT !.socks[m.opaque].sid = m.sid]
    [] m.type = "BIND_RES" -> [L EXCEPT !.socks[m.opaque].bind_success = m.success]
    [] m.type = "SETOPT_RES" ->
         [L EXCEPT !.socks[m.opaque].setopt_success = m.success]
    [] m.type = "CONNECT_RES" -> handle_connect_res(L, m)
    [] m.type = "LISTEN_RES" -> handle_listen_res(L, m)
    [] m.type = "LISTEN_NEWCONN" -> handle_listen_newconn(L, m)
    [] m.type = "ACCEPT_RES" -> handle_accept_res(L, m)
=============================================================================
