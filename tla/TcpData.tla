------------------------------- MODULE TcpData -------------------------------
(***************************************************************************)
(* The data path of one established TCP connection between two hosts.      *)
(* Each end has an application that uses the TCP library, a fast-path core *)
(* and a slow path; they share the socket, the two rings and the queues:   *)
(*                                                                         *)
(*   application  -- app_fast (CHAM_TX, CHAM_RX bumps) -->  fast path      *)
(*   application  <-- fast_app (APP_TX, APP_RX bumps) ----  fast path      *)
(*   slow path    -- slow_fast (retransmission commands) --> fast path     *)
(*                                                                         *)
(* The bytes an application writes are numbered 1, 2, ... so that the      *)
(* contents of rings and segments tell which byte of the stream is where.  *)
(* A fast-path event is one step: it runs on one core under the socket's   *)
(* lock.  The library and the slow path run beside it without that lock.   *)
(* Queues are FIFOs of bounded length (module SpscQueue).  Pacing, ECN and *)
(* timestamps only decide when the next segment is sent; a scheduled       *)
(* socket may be served at any later time.                                 *)
(***************************************************************************)
EXTENDS TcpSock

CONSTANTS
  Iss,            \* the first sequence number of each end
  Loads,          \* what a run is made of, one of these each:
                  \*   bytes   what each application writes at most
                  \*   kinds   what the network does: "lose", "copy", "overtake"
                  \*   faults  how often it does so
                  \*   early   the retransmission timeouts of each end while
                  \*           segments are still in flight (the timeout is
                  \*           then below the round trip)
                  \*   paylen  the payload room of a packet
                  \*   net     segments in flight in one direction; more are lost
                  \*   bumps   elements of the fast_app bump queue
                  \*   live    the load is one for AllDelivered
  AppFastLen,     \* elements of the app_fast bump queue
  SlowFastLen,    \* elements of the slow_fast command queue
  TCP_TX_BUMP_THRESH

Ends == {"client", "server"}
Peer(e) == IF e = "client" THEN "server" ELSE "client"

\* A packet has room for payload, and a stream is shorter than half of the
\* sequence space: a segment may be any age, so that of a longer stream an old
\* one could be taken for a new one.
ASSUME DataAssumption ==
  /\ Iss \in [Ends -> 0 .. SeqModulus - 1]
  /\ AppFastLen \in Nat /\ SlowFastLen \in Nat /\ TCP_TX_BUMP_THRESH \in Nat
  /\ \A l \in Loads :
       /\ l.bytes \in [Ends -> Nat]
       /\ \A e \in Ends : 2 * l.bytes[e] < SeqModulus
       /\ l.paylen \in Nat \ {0} /\ l.net \in Nat /\ l.bumps \in Nat

VARIABLES
  sock,       \* struct tcp_sock of each end
  sched,      \* ends whose socket has a scheduler entry
  txbuf,      \* transmit ring of each end
  rxbuf,      \* receive ring of each end
  app_fast,   \* bumps from the library to the fast path
  fast_app,   \* bumps from the fast path to the library
  lib,        \* struct tcp_socket_lib of each end
  polling,    \* where the application of each end is in tcp_poll_fast
  wrote,      \* bytes each application has written
  got,        \* bytes each application has read
  slow,       \* the retransmission each slow path is asking for, if any
  slow_fast,  \* retransmission commands to the fast path
  net,        \* segments on their way to each end
  load,       \* the load of this run
  faults,     \* faults of the network so far
  dropped     \* ends whose fast path found fast_app full (history)

fastVars == <<sock, sched>>
bufVars == <<txbuf, rxbuf>>
libVars == <<lib, polling, wrote, got>>
slowVars == <<slow, slow_fast>>
history == <<load, faults, dropped>>
vars == <<sock, sched, txbuf, rxbuf, app_fast, fast_app, lib, polling,
          wrote, got, slow, slow_fast, net, load, faults, dropped>>

NoByte == 0
NoSeq == -1

-----------------------------------------------------------------------------

\* A connection both ends have just established: empty rings, the windows
\* exchanged in the handshake (clamped to the width of the field).
Init ==
  /\ sock = [e \in Ends |->
       [tx_avail |-> 0, tx_head |-> 0, tx_seq |-> Iss[e], tx_pending |-> 0,
        rx_seq |-> Iss[Peer(e)], rx_avail |-> 0, rx_head |-> 0,
        tx_remote_avail |-> MinOf(RxLen, WndModulus - 1), rx_dupack_cnt |-> 0,
        recovery_active |-> FALSE, recovery_end_seq |-> 0]]
  /\ sched = {}
  /\ txbuf = [e \in Ends |-> [k \in 0 .. TxLen - 1 |-> NoByte]]
  /\ rxbuf = [e \in Ends |-> [k \in 0 .. RxLen - 1 |-> NoByte]]
  /\ app_fast = [e \in Ends |-> <<>>]
  /\ fast_app = [e \in Ends |-> <<>>]
  /\ lib = [e \in Ends |->
       [tx_head |-> 0, tx_avail |-> 0, tx_bump_pending |-> 0,
        rx_head |-> 0, rx_avail |-> 0, rx_bump_pending |-> 0]]
  /\ polling = [e \in Ends |-> "out"]
  /\ wrote = [e \in Ends |-> 0]
  /\ got = [e \in Ends |-> <<>>]
  /\ slow = [e \in Ends |->
       [pc |-> "idle", tx_seq |-> NoSeq, tx_pending |-> NoSeq, early |-> 0]]
  /\ slow_fast = [e \in Ends |-> <<>>]
  /\ net = [e \in Ends |-> <<>>]
  /\ load \in Loads
  /\ faults = 0
  /\ dropped = {}

-----------------------------------------------------------------------------
(* Rings *)

\* n bytes from position pos of a ring of length len, and the ring after
\* writing bytes at pos; both wrap at the end of the ring.
RingRead(buf, pos, n, len) ==
  [i \in 1 .. n |-> buf[WrapOnce(pos + i - 1, len)]]

RingWrite(buf, pos, bytes, len) ==
  [k \in DOMAIN buf |->
     LET i == WrapOnce(k - pos + len, len) + 1
     IN IF i <= Len(bytes) THEN bytes[i] ELSE buf[k]]

-----------------------------------------------------------------------------
(* The network *)

\* The ends' NICs: segments beyond load.net are lost.
Sent(e, segs) ==
  IF Len(net[Peer(e)]) + Len(segs) <= load.net
  THEN [net EXCEPT ![Peer(e)] = @ \o segs]
  ELSE net

\* The network after end e took its next segment and sent a reply.
TakenAndSent(e, segs) == [Sent(e, segs) EXCEPT ![e] = Tail(@)]

\* The segments q without the i-th.
Without(q, i) == SubSeq(q, 1, i - 1) \o SubSeq(q, i + 1, Len(q))

Fault(kind) ==
  /\ kind \in load.kinds
  /\ faults < load.faults
  /\ faults' = faults + 1
  /\ UNCHANGED <<fastVars, bufVars, app_fast, fast_app, libVars, slowVars,
                 load, dropped>>

Lose(e) ==
  /\ Fault("lose")
  /\ \E i \in DOMAIN net[e] : net' = [net EXCEPT ![e] = Without(@, i)]

\* A segment arrives a second time, after those behind it.
Copy(e) ==
  /\ Fault("copy")
  /\ \E i \in DOMAIN net[e] : net' = [net EXCEPT ![e] = Append(@, @[i])]

\* A segment overtakes those before it.
Overtake(e) ==
  /\ Fault("overtake")
  /\ \E i \in DOMAIN net[e] \ {1} :
       net' = [net EXCEPT ![e] = <<@[i]>> \o Without(@, i)]

-----------------------------------------------------------------------------
(* The TCP library *)

\* Mutant of sock_flush_bumps: pending bumps are forgotten when the queue is
\* full.
Bug_flush_forgets(l, q) ==
  LET tx == [kind |-> "CHAM_TX", n |-> l.tx_bump_pending]
      rx == [kind |-> "CHAM_RX", n |-> l.rx_bump_pending]
      bumps == SelectSeq(<<tx, rx>>, LAMBDA b : b.n # 0)
  IN [l |-> [l EXCEPT !.tx_bump_pending = 0, !.rx_bump_pending = 0],
      q |-> IF Len(q \o bumps) <= AppFastLen THEN q \o bumps ELSE q]

\* sock_flush_bumps: announce written bytes, then consumed bytes; a bump
\* that finds the queue full stays pending.  Gives the library socket and
\* the queue after the call.
sock_flush_bumps(l, q) ==
  LET tx == l.tx_bump_pending # 0 /\ Len(q) < AppFastLen
      q1 == IF tx THEN Append(q, [kind |-> "CHAM_TX", n |-> l.tx_bump_pending])
            ELSE q
      \* a full queue at the first bump ends the function
      rx == /\ l.rx_bump_pending # 0
            /\ Len(q1) < AppFastLen
            /\ l.tx_bump_pending = 0 \/ tx
      q2 == IF rx THEN Append(q1, [kind |-> "CHAM_RX", n |-> l.rx_bump_pending])
            ELSE q1
  IN [l |-> [l EXCEPT !.tx_bump_pending = IF tx THEN 0 ELSE @,
                      !.rx_bump_pending = IF rx THEN 0 ELSE @],
      q |-> q2]

\* The library socket l of e, flushed when the condition holds.
SetLib(e, l, flush) ==
  LET f == IF flush THEN sock_flush_bumps(l, app_fast[e])
           ELSE [l |-> l, q |-> app_fast[e]]
  IN /\ lib' = [lib EXCEPT ![e] = f.l]
     /\ app_fast' = [app_fast EXCEPT ![e] = f.q]

\* The application writes up to len bytes.
tcp_sendto(e, len) ==
  LET l == lib[e]
      n == MinOf(len, TxLen - l.tx_avail)
      bytes == [i \in 1 .. n |-> wrote[e] + i]
      l1 == [l EXCEPT !.tx_avail = @ + n, !.tx_bump_pending = @ + n]
      announced == l.tx_avail - l.tx_bump_pending      \* tx_inflight
  IN /\ polling[e] = "out"
     /\ wrote[e] + len <= load.bytes[e]
     /\ n > 0                                          \* otherwise EAGAIN
     /\ txbuf' = [txbuf EXCEPT ![e] =
          RingWrite(@, WrapOnce(l.tx_head + l.tx_avail, TxLen), bytes, TxLen)]
     /\ SetLib(e, l1, announced = 0
                      \/ l1.tx_bump_pending >= TCP_TX_BUMP_THRESH)
     /\ wrote' = [wrote EXCEPT ![e] = @ + n]
     /\ UNCHANGED <<fastVars, rxbuf, fast_app, polling, got, slowVars, net,
                    history>>

\* The application reads up to len bytes.
tcp_recvfrom(e, len) ==
  LET l == lib[e]
      n == MinOf(len, l.rx_avail)
      thresh == IF RxLen \div 4 = 0 THEN 1 ELSE RxLen \div 4
      l1 == [l EXCEPT !.rx_avail = @ - n,
                      !.rx_head = WrapOnce(@ + n, RxLen),
                      !.rx_bump_pending = @ + n]
  IN /\ polling[e] = "out"
     /\ n > 0                                          \* otherwise EAGAIN
     /\ got' = [got EXCEPT ![e] =
          @ \o RingRead(rxbuf[e], l.rx_head, n, RxLen)]
     /\ SetLib(e, l1, l.rx_avail = RxLen \/ l1.rx_bump_pending >= thresh)
     /\ UNCHANGED <<fastVars, bufVars, fast_app, polling, wrote, slowVars, net,
                    history>>

\* tcp_poll_fast begins with tcp_flush_bumps (a call that finds nothing to
\* flush and no bump changes nothing) ...
tcp_poll_fast(e) ==
  /\ polling[e] = "out"
  /\ \/ lib[e].tx_bump_pending # 0
     \/ lib[e].rx_bump_pending # 0
     \/ fast_app[e] # <<>>
  /\ SetLib(e, lib[e], TRUE)
  /\ polling' = [polling EXCEPT ![e] = "poll"]
  /\ UNCHANGED <<fastVars, bufVars, fast_app, wrote, got, slowVars, net,
                 history>>

\* ... and handles the bumps of the fast path one by one, releasing each
\* entry after its handler, until the queue is empty.
Handle(e, kind) ==
  /\ polling[e] = "poll"
  /\ fast_app[e] # <<>>
  /\ Head(fast_app[e]).kind = kind
  /\ polling' = [polling EXCEPT ![e] = "handled"]
  /\ UNCHANGED <<fastVars, bufVars, fast_app, wrote, got, slowVars, net,
                 history>>

handle_tx_bump(e) ==
  /\ Handle(e, "APP_TX")
  /\ LET l == lib[e]
         n == MinOf(Head(fast_app[e]).n, l.tx_avail)
         l1 == [l EXCEPT !.tx_head = WrapOnce(@ + n, TxLen), !.tx_avail = @ - n]
     IN SetLib(e, l1, /\ n # 0
                      /\ l1.tx_bump_pending # 0
                      /\ l1.tx_avail = l1.tx_bump_pending)

handle_rx_bump(e) ==
  /\ Handle(e, "APP_RX")
  /\ LET n == MinOf(Head(fast_app[e]).n, RxLen - lib[e].rx_avail)
     IN SetLib(e, [lib[e] EXCEPT !.rx_avail = @ + n], FALSE)

PollRelease(e) ==
  /\ polling[e] = "handled"
  /\ fast_app' = [fast_app EXCEPT ![e] = Tail(@)]
  /\ polling' = [polling EXCEPT ![e] = "poll"]
  /\ UNCHANGED <<fastVars, bufVars, app_fast, lib, wrote, got, slowVars, net,
                 history>>

PollDone(e) ==
  /\ polling[e] = "poll"
  /\ fast_app[e] = <<>>
  /\ polling' = [polling EXCEPT ![e] = "out"]
  /\ UNCHANGED <<fastVars, bufVars, app_fast, fast_app, lib, wrote, got,
                 slowVars, net, history>>

-----------------------------------------------------------------------------
(* The fast path *)

\* The part of tcp_event_rx that processes the acknowledgement p carries:
\* the socket, what the application is told, and whether the socket is
\* scheduled, once the segment's window and ackno are taken in.
RxAck(e, p) ==
  LET before == sock_sched_avail(sock[e])
      s1 == [sock[e] EXCEPT !.tx_remote_avail = p.wnd]
      bump == rx_get_ack_bump(s1, p)
      s2 == rx_sock_bump_ack(s1, bump)
      after == sock_sched_avail(s2)
      isDup == sock[e].tx_seq = p.ack
      counted == /\ p.data = <<>>
                 /\ bump = 0
                 /\ s2.tx_pending # 0
                 /\ ~s2.recovery_active
      remit == counted /\ s2.rx_dupack_cnt + 1 >= FAST_REMIT_THRESH
      s3 == IF remit THEN [Rewind(s2) EXCEPT !.rx_dupack_cnt = 0]
            ELSE IF counted THEN [s2 EXCEPT !.rx_dupack_cnt = @ + 1]
            ELSE s2
  IN [acked |-> s2,
      sock  |-> s3,
      bumps |-> IF isDup THEN <<>> ELSE <<[kind |-> "APP_TX", n |-> bump]>>,
      sched |-> remit \/ after > before]

\* tcp_event_rx, the early return: the application must be told that bytes
\* were acknowledged and its queue is full.  The socket has moved on, the
\* bump is gone, and neither rx_sched_tx nor the payload is reached.
RxTxBumpDropped(e) ==
  /\ net[e] # <<>>
  /\ Len(fast_app[e]) >= load.bumps
  /\ \E r \in {RxAck(e, Head(net[e]))} :
       /\ r.bumps # <<>>
       /\ sock' = [sock EXCEPT ![e] = r.acked]
  /\ net' = TakenAndSent(e, <<>>)
  /\ dropped' = dropped \cup {e}
  /\ UNCHANGED <<sched, bufVars, app_fast, fast_app, libVars, slowVars, load, faults>>

\* tcp_event_rx once the acknowledgement is processed and announced: r is
\* RxAck of the segment.
Acked(e, r) ==
  /\ r.bumps # <<>> => Len(fast_app[e]) < load.bumps
  /\ sched' = IF r.sched THEN sched \cup {e} ELSE sched
  /\ UNCHANGED <<txbuf, app_fast, libVars, slowVars, load, faults>>

\* For a segment without payload, a duplicate or one that is out of order:
\* nothing enters the receive ring; all but the first are answered by an ACK.
RxNoPayload(e) ==
  LET p == Head(net[e])
  IN /\ net[e] # <<>>
     /\ rx_is_payload_dup(sock[e], p) \/ rx_is_out_of_order(sock[e], p)
     /\ \E r \in {RxAck(e, p)} :
          /\ Acked(e, r)
          /\ sock' = [sock EXCEPT ![e] = r.sock]
          /\ fast_app' = [fast_app EXCEPT ![e] = @ \o r.bumps]
          /\ net' = TakenAndSent(e, IF p.data = <<>> THEN <<>>
                                    ELSE <<tx_fill_hdr(r.sock, <<>>)>>)
     /\ UNCHANGED <<rxbuf, dropped>>

\* For a segment with new payload: what fits is copied to the ring and
\* announced, and the segment is answered by an ACK.  A full bump queue
\* loses the announcement and the ACK but not the bytes.
RxPayload(e) ==
  LET p == Head(net[e])
      fresh == SubSeq(p.data, rx_get_payload_overlap(sock[e], p) + 1, Len(p.data))
      n == rx_get_rx_bump(sock[e], Len(fresh))
  IN /\ net[e] # <<>>
     /\ ~rx_is_payload_dup(sock[e], p)
     /\ ~rx_is_out_of_order(sock[e], p)
     /\ \E r \in {RxAck(e, p)} :
          LET s == rx_sock_bump_rx(r.sock, n)
              q == fast_app[e] \o r.bumps
              told == n = 0 \/ Len(q) < load.bumps
          IN /\ Acked(e, r)
             /\ sock' = [sock EXCEPT ![e] = s]
             /\ fast_app' = [fast_app EXCEPT ![e] =
                  IF n > 0 /\ told THEN Append(q, [kind |-> "APP_RX", n |-> n])
                  ELSE q]
             /\ net' = TakenAndSent(e, IF told THEN <<tx_fill_hdr(s, <<>>)>>
                                       ELSE <<>>)
             /\ dropped' = IF told THEN dropped ELSE dropped \cup {e}
     /\ rxbuf' = [rxbuf EXCEPT ![e] =
          RingWrite(@, RxTail(sock[e]), SubSeq(fresh, 1, n), RxLen)]

tcp_event_rx(e) == RxTxBumpDropped(e) \/ RxNoPayload(e) \/ RxPayload(e)

\* The scheduler's head entry is due: send what the windows allow (nothing
\* but an ACK when they allow nothing) and schedule the rest.
tcp_event_sched(e) ==
  LET s == sock[e]
      n == tx_get_tx_bump(s, load.paylen)
      payload == RingRead(txbuf[e], TxPos(s), n, TxLen)
      s1 == tx_sock_tx_bump(s, n)
  IN /\ e \in sched
     /\ sock' = [sock EXCEPT ![e] = s1]
     /\ sched' = IF n > 0 /\ sock_sched_avail(s1) > 0 THEN sched
                 ELSE sched \ {e}
     /\ net' = Sent(e, <<tx_fill_hdr(s, payload)>>)
     /\ UNCHANGED <<bufVars, app_fast, fast_app, libVars, slowVars, history>>

\* The application appended bytes to the transmit ring.
deq_handle_bump_tx(e) ==
  /\ app_fast[e] # <<>>
  /\ Head(app_fast[e]).kind = "CHAM_TX"
  /\ sock' = [sock EXCEPT ![e] = deq_sock_bump_tx(@, Head(app_fast[e]).n)]
  /\ sched' = sched \cup {e}
  /\ app_fast' = [app_fast EXCEPT ![e] = Tail(@)]
  /\ UNCHANGED <<bufVars, fast_app, libVars, slowVars, net, history>>

\* Mutant of deq_handle_bump_rx: no ACK announces the opened window.
Bug_no_window_update(e) ==
  /\ app_fast[e] # <<>>
  /\ Head(app_fast[e]).kind = "CHAM_RX"
  /\ sock' = [sock EXCEPT ![e] = deq_sock_bump_rx(@, Head(app_fast[e]).n)]
  /\ app_fast' = [app_fast EXCEPT ![e] = Tail(@)]
  /\ UNCHANGED <<sched, bufVars, fast_app, libVars, slowVars, net, history>>

\* The application consumed bytes of the receive ring; if the ring was full
\* the peer is told that the window opened.
deq_handle_bump_rx(e) ==
  LET s == deq_sock_bump_rx(sock[e], Head(app_fast[e]).n)
  IN /\ app_fast[e] # <<>>
     /\ Head(app_fast[e]).kind = "CHAM_RX"
     /\ sock' = [sock EXCEPT ![e] = s]
     /\ net' = Sent(e, IF sock[e].rx_avail = RxLen
                       THEN <<tx_fill_hdr(s, <<>>)>> ELSE <<>>)
     /\ app_fast' = [app_fast EXCEPT ![e] = Tail(@)]
     /\ UNCHANGED <<sched, bufVars, fast_app, libVars, slowVars, history>>

\* Mutant of deq_handle_retransmit: rewound but not scheduled.
Bug_rewind_unscheduled(e) ==
  /\ slow_fast[e] # <<>>
  /\ sock' = [sock EXCEPT ![e] =
       IF deq_is_retransmit_stale(@, Head(slow_fast[e])) THEN @ ELSE Rewind(@)]
  /\ slow_fast' = [slow_fast EXCEPT ![e] = Tail(@)]
  /\ UNCHANGED <<sched, bufVars, app_fast, fast_app, libVars, slow, net, history>>

\* A retransmission command of the slow path.
deq_handle_retransmit(e) ==
  LET stale == deq_is_retransmit_stale(sock[e], Head(slow_fast[e]))
  IN /\ slow_fast[e] # <<>>
     /\ sock' = [sock EXCEPT ![e] = IF stale THEN @ ELSE Rewind(@)]
     /\ sched' = IF stale THEN sched ELSE sched \cup {e}
     /\ slow_fast' = [slow_fast EXCEPT ![e] = Tail(@)]
     /\ UNCHANGED <<bufVars, app_fast, fast_app, libVars, slow, net, history>>

-----------------------------------------------------------------------------
(* The slow path.  tcp_cc_poll samples the socket, without its lock, and   *)
(* asks for a retransmission when a flight made no progress for some       *)
(* intervals and two round trips.  Time is left open: that may happen      *)
(* whenever bytes are in flight; while segments still are on their way it  *)
(* is a timeout below the round trip, and those are bounded.               *)

Quiet == \A e \in Ends : net[e] = <<>>

sock_on_tx_stall(e) ==
  /\ slow[e].pc = "idle"
  /\ sock[e].tx_pending # 0
  /\ Quiet \/ slow[e].early < load.early
  /\ slow' = [slow EXCEPT ![e].pc = "remit",
                          ![e].early = IF Quiet THEN @ ELSE @ + 1]
  /\ UNCHANGED <<fastVars, bufVars, app_fast, fast_app, libVars, slow_fast,
                 net, history>>

\* tcp_tx_retransmit without room for a command; the next interval tries
\* again.
RetransmitFull(e) ==
  /\ slow[e].pc = "remit"
  /\ Len(slow_fast[e]) >= SlowFastLen
  /\ slow' = [slow EXCEPT ![e].pc = "idle"]
  /\ UNCHANGED <<fastVars, bufVars, app_fast, fast_app, libVars, slow_fast,
                 net, history>>

\* tcp_tx_retransmit reads tx_seq and tx_pending of a socket the fast path
\* may be changing: between the two reads any number of events fit, and
\* an event changes the two fields one after the other, so that either
\* field may be the newer one.
RetransmitRead(e) ==
  /\ slow[e].pc = "remit"
  /\ Len(slow_fast[e]) < SlowFastLen
  /\ slow' \in {[slow EXCEPT ![e].pc = "fill", ![e].tx_seq = sock[e].tx_seq],
               [slow EXCEPT ![e].pc = "fill", ![e].tx_pending = sock[e].tx_pending]}
  /\ UNCHANGED <<fastVars, bufVars, app_fast, fast_app, libVars, slow_fast,
                 net, history>>

\* The second read and the publication of the command.
tcp_tx_retransmit(e) ==
  LET m == slow[e]
      cmd == [tx_seq |-> IF m.tx_seq = NoSeq THEN sock[e].tx_seq ELSE m.tx_seq,
              tx_pending |-> IF m.tx_pending = NoSeq THEN sock[e].tx_pending
                             ELSE m.tx_pending]
  IN /\ m.pc = "fill"
     /\ slow_fast' = [slow_fast EXCEPT ![e] = Append(@, cmd)]
     /\ slow' = [slow EXCEPT ![e] =
          [@ EXCEPT !.pc = "idle", !.tx_seq = NoSeq, !.tx_pending = NoSeq]]
     /\ UNCHANGED <<fastVars, bufVars, app_fast, fast_app, libVars, net, history>>

-----------------------------------------------------------------------------

App(e) == \E n \in 1 .. load.bytes[e] : tcp_sendto(e, n)
Reader(e) == \E n \in 1 .. RxLen : tcp_recvfrom(e, n)
Poll(e) == tcp_poll_fast(e) \/ handle_tx_bump(e) \/ handle_rx_bump(e)
           \/ PollRelease(e) \/ PollDone(e)
Fast(e) ==
  \/ tcp_event_rx(e)
  \/ tcp_event_sched(e)
  \/ deq_handle_bump_tx(e)
  \/ deq_handle_bump_rx(e)
  \/ deq_handle_retransmit(e)
Slow(e) ==
  \/ sock_on_tx_stall(e)
  \/ RetransmitFull(e)
  \/ RetransmitRead(e)
  \/ tcp_tx_retransmit(e)
Net(e) == Lose(e) \/ Copy(e) \/ Overtake(e)

Next ==
  \E e \in Ends : App(e) \/ Reader(e) \/ Poll(e) \/ Fast(e) \/ Slow(e) \/ Net(e)

Spec == Init /\ [][Next]_vars

\* Every thread keeps running its loop: the applications, which poll and
\* read whenever there is something to do, the fast-path cores and the slow
\* paths.  That an application writes is not assumed, and a core may serve
\* its receive queue, its bump queues and its scheduler in any order.  Only
\* the loads AllDelivered is about need it.
FairSpec ==
  /\ Spec
  /\ \A e \in Ends : WF_vars(load.live /\ (Reader(e) \/ Poll(e)))
  /\ \A e \in Ends : WF_vars(load.live /\ Fast(e))
  /\ \A e \in Ends : WF_vars(load.live /\ Slow(e))

-----------------------------------------------------------------------------
(* Properties *)

\* Sums of the bumps of one kind in a queue.
BumpSum(q, kind) ==
  LET first[i \in 0 .. Len(q)] ==
        IF i = 0 THEN 0
        ELSE first[i - 1] + (IF q[i].kind = kind THEN q[i].n ELSE 0)
  IN first[Len(q)]

\* The bumps the library has not taken into account: not the head entry
\* while it is being released.
Unhandled(e) ==
  IF polling[e] = "handled" THEN Tail(fast_app[e]) ELSE fast_app[e]

\* What an application reads is a prefix of what the other one wrote, byte
\* for byte: whatever the network loses, reorders or duplicates, however the
\* rings wrap, and even when bumps are dropped.
StreamIntact ==
  \A e \in Ends :
    /\ Len(got[e]) <= wrote[Peer(e)]
    /\ \A i \in DOMAIN got[e] : got[e][i] = i

\* What the library has written and not yet got back, as the other places
\* that hold it see it; what the fast path has received and not yet freed.
TxHeld(e) ==
  lib[e].tx_bump_pending + BumpSum(app_fast[e], "CHAM_TX")
  + sock[e].tx_avail + sock[e].tx_pending + BumpSum(Unhandled(e), "APP_TX")
RxHeld(e) ==
  lib[e].rx_avail + lib[e].rx_bump_pending
  + BumpSum(app_fast[e], "CHAM_RX") + BumpSum(Unhandled(e), "APP_RX")

\* Every byte of the rings is accounted for exactly once, between the library,
\* the queues and the fast path, until a bump is dropped; then the library
\* only sees less room to write than there is, and the fast path never
\* believes in room that the application has not freed.  What a socket holds is
\* within its rings.
RingsAccounted ==
  \A e \in Ends :
    /\ lib[e].tx_avail >= TxHeld(e)
    /\ sock[e].rx_avail >= RxHeld(e)
    /\ InRings(sock[e])
    /\ e \notin dropped => /\ lib[e].tx_avail = TxHeld(e)
                           /\ sock[e].rx_avail = RxHeld(e)

\* No lost wakeup: a socket that may send is scheduled, unless the event
\* that opened the window was cut short by a full bump queue.
SendableIsScheduled ==
  \A e \in Ends \ dropped : sock_sched_avail(sock[e]) > 0 => e \in sched

\* Sender and receiver agree on the stream however ACKs are lost, late or
\* repeated and flights are rewound: as positions in the stream,
\* acknowledged <= received <= what the sender still owns <= written; and the
\* bytes the sender still owns are in the ring where the fast path will take
\* them from, so that nothing an application writes overwrites bytes that may
\* have to be sent again.
PositionsOrdered ==
  \A e \in Ends :
    LET acked == SeqSub(sock[e].tx_seq, Iss[e])
        received == SeqSub(sock[Peer(e)].rx_seq, Iss[e])
        owned == sock[e].tx_pending + sock[e].tx_avail
    IN /\ acked <= received
       /\ received <= acked + owned
       /\ acked + owned <= wrote[e]
       /\ \A i \in 1 .. owned :
            txbuf[e][WrapOnce(sock[e].tx_head + i - 1, TxLen)] = acked + i

\* Every byte written is eventually read by the other application: applications
\* write finitely many bytes, so to catch up again and again is to read all.
\* Stated of the loads in which no bump queue can be full: a dropped bump is
\* not repeated, and what it announced is only read with a later one.
CaughtUp == \A e \in Ends : Len(got[Peer(e)]) = wrote[e]
AllDelivered == load.live => []<>CaughtUp
=============================================================================
