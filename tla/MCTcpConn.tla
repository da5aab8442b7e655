------------------------------ MODULE MCTcpConn ------------------------------
(* Instances of TcpConn.  Host "c" connects to port 1 of host "s".          *)
EXTENDS TcpConn

Client == {"c"}
Server == {"s"}
Both == {"c", "s"}

OnAll(v) == [x \in Hosts |-> v]
At(h, v, w) == [x \in Hosts |-> IF x = h THEN v ELSE w]
Port1 == OnAll({1})
AtServer == OnAll({<<"s", 1>>})

OnlyFalse == {FALSE}
AnyOutcome == BOOLEAN

\* What a client at endpoint e sends to the server.
From(e, flags, seq, ack) ==
  [src |-> e, dst |-> <<"s", 1>>, seq |-> seq, ack |-> ack, flags |-> flags]
Opens(e) == From(e, SYN, 1, 0)
Completes(e) == From(e, ACK, 2, 2)
Resets(e) == From(e, RSTACK, 2, 2)
Closes(e) == From(e, FINACK, 2, 2)
E == [n \in 1 .. 3 |-> <<"e", n>>]

\* The server listens and accepts: two clients complete, one of them may reset
\* and the other close, in any order; a third finds the backlog full.
Accepting2 ==
  [listening |-> Server, calls |-> At("s", {"accept"}, {}), max |-> OnAll(9),
   fds |-> OnAll(3), backlog |-> 2, block |-> OnAll({TRUE}),
   socks |-> 4, ports |-> 3, slots |-> 3, timers |-> 4, retries |-> 0, appq |-> 1,
   segs |-> {Opens(E[1]), Completes(E[1]), Resets(E[1]),
             Opens(E[2]), Completes(E[2]), Closes(E[2]), Opens(E[3])},
   env |-> 5, net |-> 2, faults |-> 0, data |-> 0]

\* The server is built up call by call while one client connects.
Building ==
  [Accepting2 EXCEPT !.listening = {}, !.backlog = 1, !.max = OnAll(6), !.env = 2,
     !.calls = At("s", {"socket", "bind", "setsockopt", "listen", "accept", "close"}, {}),
     !.segs = {Opens(E[1]), Completes(E[1]), Resets(E[1]), Closes(E[1])}]

\* Two sockets share a port, or fail to; one SYN arrives.
Sharing ==
  [Building EXCEPT !.max = OnAll(9), !.fds = OnAll(2), !.env = 1,
     !.calls = At("s", {"socket", "bind", "setsockopt", "listen", "close"}, {}),
     !.segs = {Opens(E[1])}]

\* Two sockets connect, shut down and close; the server answers anything.
Connecting(n) ==
  [listening |-> {}, calls |-> OnAll({"socket", "connect", "shutdown", "close"}),
   max |-> OnAll(n), fds |-> OnAll(2), backlog |-> 1, block |-> OnAll(BOOLEAN),
   socks |-> 2, ports |-> 2, slots |-> 1, timers |-> 2, retries |-> 1, appq |-> 3,
   segs |-> {[src |-> <<"s", 1>>, dst |-> <<"c", 1>>,
              seq |-> t[1], ack |-> t[2], flags |-> t[3]] :
               t \in {<<1, 2, SYNACK>>, <<0, 2, RSTACK>>, <<2, 2, ACK>>, <<2, 2, FINACK>>}},
   env |-> 2, net |-> 2, faults |-> 0, data |-> 0]

\* The library has more descriptors than the slow path has sockets.
TooMany == [Connecting(4) EXCEPT !.socks = 1]

ClientLoads == {Connecting(5), TooMany}

\* Both ends, with n segments at most under way to each, f faults and d
\* segments of data.
Talking(n, f, d, server) ==
  [listening |-> Server,
   calls |-> [x \in Hosts |-> IF x = "c" THEN {"socket", "connect", "shutdown", "close"}
                                         ELSE {"accept", "close"}],
   max |-> [x \in Hosts |-> IF x = "c" THEN 3 ELSE server],
   fds |-> [x \in Hosts |-> IF x = "c" THEN 1 ELSE 2], backlog |-> 1,
   block |-> OnAll({FALSE}),
   socks |-> 2, ports |-> 2, slots |-> 2, timers |-> 2, retries |-> 1, appq |-> 2,
   segs |-> {}, env |-> 0, net |-> n, faults |-> f, data |-> d]

\* The client leaves its socket to the library when it has shut it down.
ShuttingDown(l) == [l EXCEPT !.calls["c"] = @ \ {"close"}]

\* The client has two sockets that it may bind to the same port, connected to
\* one server.
Doubling ==
  [Talking(1, 0, 0, 0) EXCEPT
     !.calls["c"] = {"socket", "bind", "connect"}, !.max["c"] = 6,
     !.fds["c"] = 2, !.retries = 0]

ServerLoads ==
  { Accepting2, Building, Sharing,
    ShuttingDown(Talking(1, 1, 1, 2)), ShuttingDown(Talking(2, 1, 0, 1)),
    [Talking(2, 1, 0, 1) EXCEPT !.retries = 0], Doubling }
ResendLoads == {Talking(1, 1, 1, 2)}
=============================================================================
