------------------------------- MODULE MCUdp --------------------------------
(* Loads for UDP: two applications, one of them with two threads. *)
EXTENDS Udp

MCApps == {1, 2}
MCThreads == {<<1, 1>>, <<1, 2>>, <<2, 1>>}
MCFds == 0 .. 1

Socket == [op |-> "socket"]
Bind(f, p) == [op |-> "bind", fd |-> f, port |-> p]
Share(f) == [op |-> "setopt", fd |-> f]
Send(f, n) == [op |-> "sendto", fd |-> f, len |-> n, port |-> 9]
Recv(f, n) == [op |-> "recvfrom", fd |-> f, len |-> n]
Poll == [op |-> "poll"]
Add(f, e) == [op |-> "wait_add", fd |-> f, events |-> e]
Mod(f, e) == [op |-> "wait_mod", fd |-> f, events |-> e]
Del(f) == [op |-> "wait_del", fd |-> f]
Wait == [op |-> "wait", block |-> TRUE, mode |-> "both"]
WaitFast == [Wait EXCEPT !.mode = "fast"]
WaitSlow == [Wait EXCEPT !.mode = "slow"]
Try == [Wait EXCEPT !.block = FALSE]

\* A datagram to a port.
D(p, data) == [to |-> p, from |-> 8, data |-> data]

\* Threads 1 and 2 of application 1 and the thread of application 2.
Script(one, two, other) ==
  (<<1, 1>> :> one) @@ (<<1, 2>> :> two) @@ (<<2, 1>> :> other)

Plain(one, two, other) ==
  [ script |-> Script(one, two, other), nic |-> [c \in Cores |-> <<>>],
    echo |-> FALSE, steer |-> [p \in Ports |-> 0], bump |-> 8, dies |-> {},
    ebpf |-> FALSE, again |-> {}, ends |-> TRUE ]

MCLoads ==
  { \* a client without a port, its answers, and a ring that wraps around
    [Plain(<<Socket, Send(0, 2), Add(0, {"in"}), Wait, Recv(0, 1), Recv(0, 2),
             Mod(0, {"out"}), Wait, Send(0, 1), Mod(0, {"in"}), WaitFast,
             Recv(0, 2), Del(0)>>, <<>>, <<>>)
       EXCEPT !.echo = TRUE, !.steer = [p \in Ports |-> 1]],
    \* the ring is full
    Plain(<<Socket, Bind(0, 2), Send(0, 2), Send(0, 1), Send(0, 1), Poll,
            Send(0, 2), Poll, Send(0, 1)>>, <<>>, <<>>),
    \* datagrams for a bound socket, some do not fit
    [Plain(<<Socket, Bind(0, 2), Add(0, {"in"}), WaitFast, Recv(0, 2), Poll,
             Recv(0, 3), Poll, Recv(0, 3)>>, <<>>, <<>>)
       EXCEPT !.nic[0] = <<D(2, <<1, 2>>), D(2, <<3>>), D(2, <<4, 5>>),
                           D(3, <<6>>), D(1, <<7>>)>>, !.ends = FALSE],
    \* two sockets share a port, each core has one of them
    [Plain(<<Socket, Socket, Share(0), Share(1), Bind(0, 3), Bind(1, 3), Poll,
             Recv(0, 2), Recv(1, 2)>>, <<>>, <<>>)
       EXCEPT !.nic[0] = <<D(3, <<1>>), D(3, <<2>>)>>,
              !.nic[1] = <<D(3, <<3>>)>>],
    \* the first of them is bound twice, so there is no room for the second
    [Plain(<<Socket, Socket, Share(0), Share(1), Bind(0, 3), Bind(0, 3),
             Bind(1, 3), Poll, Recv(0, 2)>>, <<>>, <<>>)
       EXCEPT !.nic[0] = <<D(3, <<1>>)>>, !.nic[1] = <<D(3, <<2>>)>>],
    \* two cores receive for one socket: one after the other, or both at once
    [Plain(<<Socket, Bind(0, 3), Poll, Recv(0, 1), Poll, Recv(0, 2)>>, <<>>,
           <<>>)
       EXCEPT !.nic[0] = <<D(3, <<1, 2>>)>>, !.ebpf = TRUE,
              !.nic[1] = <<D(3, <<3, 4>>), D(3, <<5>>)>>],
    [Plain(<<Socket, Bind(0, 3), Poll, Recv(0, 2), Poll, Recv(0, 2)>>, <<>>,
           <<>>)
       EXCEPT !.nic[0] = <<D(3, <<1, 2, 3>>), D(3, <<4>>)>>,
              !.nic[1] = <<D(3, <<5, 6, 7>>)>>],
    \* a core without a socket of its own, with either kind of handlers
    [Plain(<<Socket, Socket, Bind(0, 2), Bind(1, 3), Poll, Recv(0, 2),
             Recv(1, 2)>>, <<>>, <<>>)
       EXCEPT !.nic[1] = <<D(3, <<1>>), D(2, <<2>>)>>],
    [Plain(<<Socket, Socket, Bind(0, 2), Bind(1, 3), Poll, Recv(0, 2),
             Recv(1, 2)>>, <<>>, <<>>)
       EXCEPT !.nic[1] = <<D(3, <<1>>), D(2, <<2>>)>>, !.ebpf = TRUE],
    \* ports: taken, out of range, picked
    Plain(<<Socket, Bind(0, 2)>>, <<>>,
          <<Socket, Bind(0, 5), Bind(0, 2), Bind(0, 3)>>),
    Plain(<<Socket, Bind(0, 0), Socket, Bind(1, 0)>>, <<>>,
          <<Socket, Bind(0, 0)>>),
    \* a port is picked by a core, another asked for
    [Plain(<<Socket, Send(0, 2), Add(0, {"in"}), WaitFast, Bind(0, 4)>>, <<>>,
           <<>>)
       EXCEPT !.echo = TRUE],
    \* two cores and the slow path after one port
    Plain(<<Socket, Send(0, 1)>>, <<>>, <<Socket, Send(0, 1)>>),
    [Plain(<<Socket, Send(0, 1)>>, <<>>, <<Socket, Bind(0, 2)>>)
       EXCEPT !.echo = TRUE],
    \* a socket that is to have two ports
    Plain(<<Socket, Send(0, 1), Bind(0, 3), Send(0, 1)>>, <<>>, <<>>),
    \* two threads of an application
    Plain(<<Socket, Bind(0, 4)>>, <<Socket, Bind(1, 3)>>, <<>>),
    \* a thread that does not stop asking for a port it cannot have
    [Plain(<<Socket, Bind(0, 5)>>, <<>>, <<Socket, Bind(0, 4)>>)
       EXCEPT !.again = {<<1, 1>>}],
    \* an application stops
    [Plain(<<Socket, Bind(0, 2), Send(0, 1)>>, <<>>,
           <<Socket, Bind(0, 3)>>)
       EXCEPT !.dies = {1}],
    \* wait objects
    Plain(<<Socket, Socket, Add(0, {"in"}), Add(1, {"out"}), Add(1, {"in"}),
            Wait, Del(0), Del(0), Mod(0, {"in"}), Try, Mod(1, {"socket"}),
            WaitSlow, Add(0, {"in"}), Del(1), Del(0), Try, Socket>>,
          <<Add(0, {"in"})>>, <<>>),
    \* too many sockets
    [Plain(<<Socket, Socket>>, <<>>, <<Socket, Socket>>) EXCEPT !.ends = FALSE],
    \* bumps that do not fit
    [Plain(<<Socket, Bind(0, 2), Send(0, 1), Send(0, 1), Poll, Send(0, 1),
             Poll, Recv(0, 1)>>, <<>>, <<>>)
       EXCEPT !.bump = 1, !.echo = TRUE, !.ends = FALSE] }

=============================================================================
