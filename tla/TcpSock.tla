------------------------------- MODULE TcpSock -------------------------------
(***************************************************************************)
(* The arithmetic of struct tcp_sock: what the helpers of the TCP fast     *)
(* path compute from a socket and a packet.  A socket is a record with the *)
(* fields of struct tcp_sock the data path uses; a segment has a sequence  *)
(* number, an acknowledgement number, a window and the payload, a sequence *)
(* of bytes.  Sequence numbers are __u32 in the code and wrap; here they   *)
(* are modulo SeqModulus; the casts to __s32 are Negative and Positive.    *)
(***************************************************************************)
EXTENDS Integers, Sequences

CONSTANTS
  SeqModulus, \* 2^32: the width of sequence numbers
  WndModulus, \* 2^16: the width of the window field of a segment
  TxLen,      \* tx_len, bytes of the transmit ring
  RxLen,      \* rx_len, bytes of the receive ring
  FAST_REMIT_THRESH

ASSUME SockAssumption ==
  /\ TxLen \in Nat \ {0}
  /\ RxLen \in Nat \ {0}
  /\ FAST_REMIT_THRESH \in Nat \ {0}
  /\ SeqModulus \in Nat
  /\ SeqModulus > 2 * TxLen
  /\ WndModulus \in Nat \ {0}

MinOf(a, b) == IF a < b THEN a ELSE b

SeqAdd(a, b) == (a + b) % SeqModulus
SeqSub(a, b) == (a - b) % SeqModulus
Negative(d) == 2 * d >= SeqModulus          \* (__s32) d < 0
Positive(d) == d # 0 /\ ~Negative(d)        \* (__s32) d > 0

\* Positions in a ring are corrected by one subtraction, not by a modulo.
WrapOnce(x, len) == IF x >= len THEN x - len ELSE x

\* What the fast path relies on: the bytes of a socket are in its rings.
InRings(s) ==
  /\ s.tx_pending + s.tx_avail <= TxLen
  /\ s.tx_head < TxLen
  /\ s.rx_avail <= RxLen
  /\ s.rx_head < RxLen

-----------------------------------------------------------------------------
(* Recovery: after a rewind, new sends are limited to the original flight. *)

tcp_sock_recovery_enter(s) ==
  IF s.recovery_active THEN s
  ELSE [s EXCEPT !.recovery_active = TRUE,
                 !.recovery_end_seq = SeqAdd(s.tx_seq, s.tx_pending)]

tcp_sock_recovery_ack(s) ==
  IF s.recovery_active /\ ~Negative(SeqSub(s.tx_seq, s.recovery_end_seq))
  THEN [s EXCEPT !.recovery_active = FALSE, !.recovery_end_seq = 0]
  ELSE s

tcp_sock_recovery_avail(s) ==
  LET left == SeqSub(s.recovery_end_seq, SeqAdd(s.tx_seq, s.tx_pending))
  IN IF ~s.recovery_active THEN SeqModulus - 1
     ELSE IF Positive(left) THEN left ELSE 0

-----------------------------------------------------------------------------
(* Transmission *)

\* Bytes the socket may send now: queued, allowed by the peer's window and
\* by recovery.
sock_sched_avail(s) ==
  IF s.tx_pending >= s.tx_remote_avail THEN 0
  ELSE MinOf(MinOf(s.tx_remote_avail - s.tx_pending, s.tx_avail),
             tcp_sock_recovery_avail(s))

\* paylen is the payload room of a packet, tx_get_max_paylen.
tx_get_tx_bump(s, paylen) == MinOf(sock_sched_avail(s), paylen)

tx_sock_tx_bump(s, n) ==
  [s EXCEPT !.tx_avail = @ - n, !.tx_pending = @ + n]

\* The header of every segment the fast path sends; wnd is truncated to the
\* width of the field.
tx_fill_hdr(s, payload) ==
  [seq  |-> SeqAdd(s.tx_seq, s.tx_pending),
   ack  |-> s.rx_seq,
   wnd  |-> (RxLen - s.rx_avail) % WndModulus,
   data |-> payload]

\* Rewind: everything in flight becomes unsent again.
Rewind(s) ==
  [tcp_sock_recovery_enter(s) EXCEPT
     !.tx_avail = @ + s.tx_pending, !.tx_pending = 0]

-----------------------------------------------------------------------------
(* Reception of acknowledgements *)

\* Unsigned comparison around the wrap of the sequence space.  Bytes beyond
\* tx_pending are acceptable because a rewind may have put acknowledged
\* bytes back into tx_avail.
rx_is_ack_valid(seqno, pending, avail, ackno) ==
  LET max_ack == SeqAdd(seqno, pending + avail)
  IN IF seqno <= max_ack
     THEN seqno <= ackno /\ ackno <= max_ack
     ELSE ~(seqno > ackno /\ ackno > max_ack)

rx_get_ack_bump(s, p) ==
  IF rx_is_ack_valid(s.tx_seq, s.tx_pending, s.tx_avail, p.ack)
  THEN SeqSub(p.ack, s.tx_seq)
  ELSE 0

\* Mutant of rx_sock_bump_ack: bytes acknowledged beyond tx_pending stay in
\* tx_avail.
Bug_ack_beyond_pending(s, bump) ==
  [s EXCEPT !.tx_seq = SeqAdd(@, bump),
            !.tx_pending = IF bump <= @ THEN @ - bump ELSE 0,
            !.tx_head = (@ + bump) % TxLen]

rx_sock_bump_ack(s, bump) ==
  LET extra == IF bump > s.tx_pending
               THEN MinOf(bump - s.tx_pending, s.tx_avail) ELSE 0
      moved == [s EXCEPT
                 !.tx_seq = SeqAdd(@, bump),
                 !.tx_pending = IF bump <= @ THEN @ - bump ELSE 0,
                 !.tx_avail = @ - extra,
                 !.tx_head = (@ + bump) % TxLen]
  IN IF bump = 0 THEN moved
     ELSE tcp_sock_recovery_ack([moved EXCEPT !.rx_dupack_cnt = 0])

-----------------------------------------------------------------------------
(* Reception of payload *)

\* Mutant of rx_get_payload_overlap: a plain unsigned comparison.
Bug_overlap_unsigned(s, p) ==
  IF p.seq < s.rx_seq THEN MinOf(s.rx_seq - p.seq, Len(p.data)) ELSE 0

\* Bytes at the front of the payload that were received before.
rx_get_payload_overlap(s, p) ==
  LET behind == SeqSub(p.seq, s.rx_seq)
  IN IF Negative(behind)
     THEN MinOf(SeqSub(s.rx_seq, p.seq), Len(p.data))
     ELSE 0

rx_is_payload_dup(s, p) == Len(p.data) <= rx_get_payload_overlap(s, p)

rx_is_out_of_order(s, p) == Positive(SeqSub(p.seq, s.rx_seq))

\* What of n new bytes fits into the receive ring.
rx_get_rx_bump(s, n) == MinOf(n, RxLen - s.rx_avail)

rx_sock_bump_rx(s, n) ==
  [s EXCEPT !.rx_seq = SeqAdd(@, n), !.rx_avail = @ + n]

\* Where the next received byte goes in the receive ring, and where the
\* next unsent byte is in the transmit ring.
RxTail(s) == WrapOnce(s.rx_head + s.rx_avail, RxLen)
TxPos(s) == WrapOnce(s.tx_head + s.tx_pending, TxLen)

-----------------------------------------------------------------------------
(* Bumps from the application *)

deq_sock_bump_tx(s, n) == [s EXCEPT !.tx_avail = @ + n]

deq_sock_bump_rx(s, n) ==
  [s EXCEPT !.rx_head = WrapOnce(@ + n, RxLen), !.rx_avail = @ - n]

\* A retransmission command is ignored unless it describes the flight that
\* is still outstanding.
deq_is_retransmit_stale(s, cmd) ==
  \/ s.tx_pending = 0
  \/ s.tx_seq # cmd.tx_seq
  \/ s.tx_pending # cmd.tx_pending
=============================================================================
