--------------------------- MODULE TcpDataLemmas ----------------------------
(***************************************************************************)
(* The inductive invariant of the TCP data path, and what the operations on*)
(* rings, bumps and sequence numbers do to it.                             *)
(*                                                                         *)
(* Sequence numbers are turned into positions in a stream, which do not    *)
(* wrap; a ring has the byte at position i of the stream in its slot       *)
(* (i - 1) % length.                                                       *)
(***************************************************************************)
EXTENDS TcpData, TLAPS, WellFoundedInduction

\* Leaves that need arithmetic, or updates of records, say SMTT.
USE ZenonT(40)

-----------------------------------------------------------------------------
(* Sockets: wrapping sequence numbers and the bounds of the rings *)

SeqNos == 0 .. SeqModulus - 1

\* A sum of two sequence numbers wraps at most once.
LEMMA AddWraps ==
  ASSUME NEW a \in SeqNos, NEW b \in SeqNos
  PROVE  /\ SeqAdd(a, b) \in SeqNos
         /\ SeqAdd(a, b) = IF a + b < SeqModulus THEN a + b
                           ELSE a + b - SeqModulus
BY SockAssumption, SMTT(40) DEF SeqAdd, SeqNos

\* And so does a difference.
LEMMA SubWraps ==
  ASSUME NEW a \in SeqNos, NEW b \in SeqNos
  PROVE  /\ SeqSub(a, b) \in SeqNos
         /\ SeqSub(a, b) = IF a >= b THEN a - b ELSE a - b + SeqModulus
BY SockAssumption, SMTT(40) DEF SeqSub, SeqNos

-----------------------------------------------------------------------------
(* Sockets *)

Sock ==
  [ tx_seq : SeqNos, tx_pending : Nat, tx_avail : Nat, tx_head : Nat,
    tx_remote_avail : Nat, rx_seq : SeqNos, rx_avail : Nat, rx_head : Nat,
    rx_dupack_cnt : Nat, recovery_active : BOOLEAN,
    recovery_end_seq : SeqNos ]

\* rx_get_ack_bump compares unsigned numbers that wrap; it takes an
\* acknowledgement if and only if the bytes it covers are in the transmit
\* ring, at every place of the sequence space.
THEOREM AckBumpExact ==
  ASSUME NEW s \in Sock, InRings(s), NEW p, p.ack \in SeqNos
  PROVE  LET d == SeqSub(p.ack, s.tx_seq)
         IN  rx_get_ack_bump(s, p) =
               IF d <= s.tx_pending + s.tx_avail THEN d ELSE 0
<1> DEFINE held == s.tx_pending + s.tx_avail
<1>1. s.tx_seq \in SeqNos /\ held \in SeqNos
  BY SockAssumption, SMTT(40) DEF Sock, InRings, SeqNos
<1>2. /\ SeqAdd(s.tx_seq, held) \in SeqNos
      /\ SeqAdd(s.tx_seq, held) = IF s.tx_seq + held < SeqModulus
                                  THEN s.tx_seq + held
                                  ELSE s.tx_seq + held - SeqModulus
  BY <1>1, AddWraps
<1>3. /\ SeqSub(p.ack, s.tx_seq) \in SeqNos
      /\ SeqSub(p.ack, s.tx_seq) = IF p.ack >= s.tx_seq THEN p.ack - s.tx_seq
                                   ELSE p.ack - s.tx_seq + SeqModulus
  BY <1>1, SubWraps
<1> QED
  BY <1>1, <1>2, <1>3, SockAssumption, SMTT(40)
  DEF rx_get_ack_bump, rx_is_ack_valid, SeqNos

\* An acknowledgement takes no more bytes than the socket holds.
LEMMA AckBumpHeld ==
  ASSUME NEW s \in Sock, InRings(s), NEW p, p.ack \in SeqNos
  PROVE  rx_get_ack_bump(s, p) \in 0 .. s.tx_pending + s.tx_avail
<1>1. s.tx_seq \in SeqNos /\ s.tx_pending + s.tx_avail \in Nat
  BY SMTT(40) DEF Sock
<1>2. SeqSub(p.ack, s.tx_seq) \in SeqNos
  BY <1>1, SubWraps
<1> QED
  BY <1>1, <1>2, AckBumpExact, SMTT(40) DEF SeqNos

\* Where the bytes a socket holds for sending end in the stream.
TxEnd(s) == SeqAdd(s.tx_seq, s.tx_pending + s.tx_avail)

\* Leaving recovery changes nothing but the two fields of recovery.
LEMMA RecoveryAckOnly ==
  ASSUME NEW s \in Sock
  PROVE  LET r == tcp_sock_recovery_ack(s)
         IN  /\ r \in Sock
             /\ r.tx_seq = s.tx_seq /\ r.tx_pending = s.tx_pending
             /\ r.tx_avail = s.tx_avail /\ r.tx_head = s.tx_head
             /\ r.rx_seq = s.rx_seq
             /\ r.rx_avail = s.rx_avail /\ r.rx_head = s.rx_head
<1>1. CASE s.recovery_active /\ ~Negative(SeqSub(s.tx_seq, s.recovery_end_seq))
  <2> DEFINE r == [s EXCEPT !.recovery_active = FALSE, !.recovery_end_seq = 0]
  <2>1. tcp_sock_recovery_ack(s) = r
    BY <1>1 DEF tcp_sock_recovery_ack
  <2>2. 0 \in SeqNos
    BY SockAssumption, SMTT(40) DEF SeqNos
  <2>3. r \in Sock
    BY <2>2 DEF Sock
  <2>4. /\ r.tx_seq = s.tx_seq /\ r.tx_pending = s.tx_pending
        /\ r.tx_avail = s.tx_avail /\ r.tx_head = s.tx_head
        /\ r.rx_seq = s.rx_seq
        /\ r.rx_avail = s.rx_avail /\ r.rx_head = s.rx_head
    BY DEF Sock
  <2> QED
    BY <2>1, <2>3, <2>4
<1>2. CASE ~(s.recovery_active
             /\ ~Negative(SeqSub(s.tx_seq, s.recovery_end_seq)))
  BY <1>2 DEF tcp_sock_recovery_ack
<1> QED
  BY <1>1, <1>2

\* rx_sock_bump_ack: bytes acknowledged beyond tx_pending, which a rewind had
\* put back into tx_avail, leave tx_avail.  So what is left is what was held
\* less what was acknowledged, it is in the ring, it starts behind what was
\* acknowledged and ends where it did.  What was received is as before.
THEOREM AckTakesItsBytes ==
  ASSUME NEW s \in Sock, InRings(s),
         NEW bump \in 0 .. s.tx_pending + s.tx_avail
  PROVE  LET r == rx_sock_bump_ack(s, bump)
         IN  /\ r \in Sock
             /\ InRings(r)
             /\ r.tx_pending + r.tx_avail = s.tx_pending + s.tx_avail - bump
             /\ TxEnd(r) = TxEnd(s)
             /\ r.tx_seq = SeqAdd(s.tx_seq, bump)
             /\ r.tx_head = (s.tx_head + bump) % TxLen
             /\ r.rx_seq = s.rx_seq
             /\ r.rx_avail = s.rx_avail /\ r.rx_head = s.rx_head
<1> DEFINE extra == IF bump > s.tx_pending
                    THEN MinOf(bump - s.tx_pending, s.tx_avail) ELSE 0
           moved == [s EXCEPT
                      !.tx_seq = SeqAdd(@, bump),
                      !.tx_pending = IF bump <= @ THEN @ - bump ELSE 0,
                      !.tx_avail = @ - extra,
                      !.tx_head = (@ + bump) % TxLen]
           counted == [moved EXCEPT !.rx_dupack_cnt = 0]
           r == rx_sock_bump_ack(s, bump)
<1>1. /\ s.tx_seq \in SeqNos /\ s.tx_pending \in Nat /\ s.tx_avail \in Nat
      /\ s.tx_head \in Nat /\ bump \in SeqNos
      /\ s.tx_pending + s.tx_avail \in SeqNos
  BY SockAssumption, SMTT(40) DEF Sock, InRings, SeqNos
<1>2. /\ SeqAdd(s.tx_seq, bump) \in SeqNos
      /\ SeqAdd(s.tx_seq, bump) = IF s.tx_seq + bump < SeqModulus
                                  THEN s.tx_seq + bump
                                  ELSE s.tx_seq + bump - SeqModulus
  BY <1>1, AddWraps
<1>3. extra \in Nat /\ extra <= s.tx_avail
  BY <1>1, SMTT(40) DEF MinOf
<1>4. (s.tx_head + bump) % TxLen \in 0 .. TxLen - 1
  BY <1>1, SockAssumption, SMTT(40) DEF SeqNos
<1>5. moved \in Sock
  <2>1. \A a \in SeqNos, b, c, d \in Nat :
          [s EXCEPT !.tx_seq = a, !.tx_pending = b, !.tx_avail = c,
                    !.tx_head = d] \in Sock
    BY DEF Sock
  <2>2. /\ (IF bump <= s.tx_pending THEN s.tx_pending - bump ELSE 0) \in Nat
        /\ s.tx_avail - extra \in Nat
        /\ (s.tx_head + bump) % TxLen \in Nat
    BY <1>1, <1>3, <1>4, SockAssumption, SMTT(40) DEF SeqNos
  <2> QED
    BY <2>1, <2>2, <1>2
<1>6. counted \in Sock
  BY <1>5 DEF Sock
<1>7. /\ r \in Sock
      /\ r.tx_seq = moved.tx_seq /\ r.tx_pending = moved.tx_pending
      /\ r.tx_avail = moved.tx_avail /\ r.tx_head = moved.tx_head
      /\ r.rx_seq = moved.rx_seq
      /\ r.rx_avail = moved.rx_avail /\ r.rx_head = moved.rx_head
  <2>1. CASE bump = 0
    <3>1. r = moved
      BY <2>1 DEF rx_sock_bump_ack
    <3> QED
      BY <3>1, <1>5
  <2>2. CASE bump # 0
    <3>1. r = tcp_sock_recovery_ack(counted)
      BY <2>2 DEF rx_sock_bump_ack
    <3>2. /\ counted.tx_seq = moved.tx_seq
          /\ counted.tx_pending = moved.tx_pending
          /\ counted.tx_avail = moved.tx_avail
          /\ counted.tx_head = moved.tx_head
          /\ counted.rx_seq = moved.rx_seq
          /\ counted.rx_avail = moved.rx_avail
          /\ counted.rx_head = moved.rx_head
      BY <1>5 DEF Sock
    <3> HIDE DEF counted
    <3> QED
      BY <3>1, <3>2, <1>6, RecoveryAckOnly
  <2> QED
    BY <2>1, <2>2
<1>8. /\ moved.tx_seq = SeqAdd(s.tx_seq, bump)
      /\ moved.tx_pending = IF bump <= s.tx_pending THEN s.tx_pending - bump
                            ELSE 0
      /\ moved.tx_avail = s.tx_avail - extra
      /\ moved.tx_head = (s.tx_head + bump) % TxLen
      /\ moved.rx_seq = s.rx_seq
      /\ moved.rx_avail = s.rx_avail /\ moved.rx_head = s.rx_head
  BY DEF Sock
<1> HIDE DEF moved, counted, r
<1>9. r.tx_pending + r.tx_avail = s.tx_pending + s.tx_avail - bump
  BY <1>1, <1>7, <1>8, SMTT(40) DEF MinOf
<1>10. InRings(r)
  BY <1>1, <1>4, <1>7, <1>8, <1>9, SockAssumption, SMTT(40) DEF InRings
<1>11. TxEnd(r) = TxEnd(s)
  <2> DEFINE held == s.tx_pending + s.tx_avail
             start == SeqAdd(s.tx_seq, bump)
  <2>1. held - bump \in SeqNos
    BY <1>1, SockAssumption, SMTT(40) DEF SeqNos
  <2>2. SeqAdd(start, held - bump) =
          IF start + (held - bump) < SeqModulus THEN start + (held - bump)
          ELSE start + (held - bump) - SeqModulus
    BY <1>2, <2>1, AddWraps
  <2>3. SeqAdd(s.tx_seq, held) =
          IF s.tx_seq + held < SeqModulus THEN s.tx_seq + held
          ELSE s.tx_seq + held - SeqModulus
    BY <1>1, AddWraps
  <2>4. SeqAdd(start, held - bump) = SeqAdd(s.tx_seq, held)
    BY <1>1, <1>2, <2>2, <2>3, SockAssumption, SMTT(40) DEF SeqNos
  <2>5. r.tx_seq = start
    BY <1>7, <1>8
  <2>6. r.tx_pending + r.tx_avail = held - bump
    BY <1>1, <1>9, SMTT(40)
  <2> QED
    BY <2>4, <2>5, <2>6 DEF TxEnd
<1> QED
  BY <1>7, <1>8, <1>9, <1>10, <1>11 DEF r

-----------------------------------------------------------------------------
(* Sending *)

\* What recovery allows is a number of bytes.
LEMMA RecoveryAvailType ==
  ASSUME NEW s \in Sock, InRings(s)
  PROVE  tcp_sock_recovery_avail(s) \in Nat
<1>1. s.tx_seq \in SeqNos /\ s.tx_pending \in SeqNos
      /\ s.recovery_end_seq \in SeqNos
  BY SockAssumption, SMTT(40) DEF Sock, InRings, SeqNos
<1>2. SeqAdd(s.tx_seq, s.tx_pending) \in SeqNos
  BY <1>1, AddWraps
<1>3. SeqSub(s.recovery_end_seq, SeqAdd(s.tx_seq, s.tx_pending)) \in SeqNos
  BY <1>1, <1>2, SubWraps
<1> QED
  BY <1>3, SockAssumption, SMTT(40) DEF tcp_sock_recovery_avail, SeqNos

\* tx_get_tx_bump and tx_sock_tx_bump: a packet takes bytes that are queued;
\* the flight stays within the window of the peer unless the peer has shrunk
\* it, in which case nothing is sent; after a rewind the flight does not grow
\* beyond the one before, as far as that is ahead.
THEOREM SendsWithinLimits ==
  ASSUME NEW s \in Sock, InRings(s), NEW paylen \in Nat
  PROVE  LET n == tx_get_tx_bump(s, paylen)
             r == tx_sock_tx_bump(s, n)
         IN  /\ r \in Sock
             /\ InRings(r)
             /\ TxEnd(r) = TxEnd(s)
             /\ n > 0 => r.tx_pending <= s.tx_remote_avail
             /\ n > 0 /\ s.recovery_active =>
                  LET left == SeqSub(s.recovery_end_seq,
                                     SeqAdd(s.tx_seq, s.tx_pending))
                  IN  Positive(left) /\ n <= left
<1> DEFINE n == tx_get_tx_bump(s, paylen)
           r == tx_sock_tx_bump(s, n)
           left == SeqSub(s.recovery_end_seq, SeqAdd(s.tx_seq, s.tx_pending))
<1>1. /\ s.tx_seq \in SeqNos /\ s.tx_pending \in SeqNos
      /\ s.tx_pending \in Nat /\ s.tx_avail \in Nat
      /\ s.tx_remote_avail \in Nat
      /\ s.recovery_end_seq \in SeqNos
  BY SockAssumption, SMTT(40) DEF Sock, InRings, SeqNos
<1>2. tcp_sock_recovery_avail(s) \in Nat
  BY RecoveryAvailType
<1>3. /\ n \in Nat
      /\ n <= s.tx_avail
      /\ n > 0 => s.tx_pending + n <= s.tx_remote_avail
      /\ n <= tcp_sock_recovery_avail(s)
  BY <1>1, <1>2, SMTT(40) DEF tx_get_tx_bump, sock_sched_avail, MinOf
<1>4. left \in SeqNos
  <2>1. SeqAdd(s.tx_seq, s.tx_pending) \in SeqNos
    BY <1>1, AddWraps
  <2> QED
    BY <1>1, <2>1, SubWraps
<1>5. s.recovery_active =>
        tcp_sock_recovery_avail(s) = IF Positive(left) THEN left ELSE 0
  BY DEF tcp_sock_recovery_avail
<1> HIDE DEF n
<1>6. r \in Sock
  <2>1. \A a, b \in Nat : [s EXCEPT !.tx_avail = a, !.tx_pending = b] \in Sock
    BY DEF Sock
  <2>2. s.tx_avail - n \in Nat /\ s.tx_pending + n \in Nat
    BY <1>1, <1>3, SMTT(40)
  <2> QED
    BY <2>1, <2>2 DEF tx_sock_tx_bump
<1>7. /\ r.tx_avail = s.tx_avail - n /\ r.tx_pending = s.tx_pending + n
      /\ r.tx_seq = s.tx_seq /\ r.tx_head = s.tx_head
      /\ r.rx_avail = s.rx_avail /\ r.rx_head = s.rx_head
  BY DEF tx_sock_tx_bump, Sock
<1> HIDE DEF r, left
<1>8. r.tx_pending + r.tx_avail = s.tx_pending + s.tx_avail
  BY <1>1, <1>3, <1>7, SMTT(40)
<1>9. InRings(r)
  BY <1>7, <1>8 DEF InRings
<1>10. TxEnd(r) = TxEnd(s)
  BY <1>7, <1>8 DEF TxEnd
<1>11. n > 0 => r.tx_pending <= s.tx_remote_avail
  BY <1>3, <1>7
<1>12. n > 0 /\ s.recovery_active => Positive(left) /\ n <= left
  BY <1>2, <1>3, <1>4, <1>5, SMTT(40) DEF SeqNos
<1> QED
  BY <1>6, <1>9, <1>10, <1>11, <1>12 DEF n, r, left

\* Rewind: a flight that is to be sent again stays in the ring and in its
\* place of the stream, and what was received is as before.
THEOREM RewindKeepsBytes ==
  ASSUME NEW s \in Sock, InRings(s)
  PROVE  /\ Rewind(s) \in Sock
         /\ InRings(Rewind(s))
         /\ TxEnd(Rewind(s)) = TxEnd(s)
         /\ Rewind(s).tx_pending = 0
         /\ Rewind(s).tx_avail = s.tx_avail + s.tx_pending
         /\ Rewind(s).tx_seq = s.tx_seq /\ Rewind(s).tx_head = s.tx_head
         /\ Rewind(s).rx_seq = s.rx_seq
         /\ Rewind(s).rx_avail = s.rx_avail /\ Rewind(s).rx_head = s.rx_head
<1> DEFINE e == tcp_sock_recovery_enter(s)
           r == [e EXCEPT !.tx_avail = @ + s.tx_pending, !.tx_pending = 0]
<1>1. /\ s.tx_seq \in SeqNos /\ s.tx_pending \in SeqNos
      /\ s.tx_pending \in Nat /\ s.tx_avail \in Nat
  BY SockAssumption, SMTT(40) DEF Sock, InRings, SeqNos
<1>2. /\ e \in Sock
      /\ e.tx_seq = s.tx_seq /\ e.tx_avail = s.tx_avail
      /\ e.tx_head = s.tx_head /\ e.rx_seq = s.rx_seq
      /\ e.rx_avail = s.rx_avail /\ e.rx_head = s.rx_head
  <2>1. CASE s.recovery_active
    BY <2>1 DEF tcp_sock_recovery_enter
  <2>2. CASE ~s.recovery_active
    <3> DEFINE q == SeqAdd(s.tx_seq, s.tx_pending)
               t == [s EXCEPT !.recovery_active = TRUE, !.recovery_end_seq = q]
    <3>1. q \in SeqNos
      BY <1>1, AddWraps
    <3>2. e = t
      BY <2>2 DEF tcp_sock_recovery_enter
    <3> HIDE DEF q, e
    <3>3. /\ t.tx_seq = s.tx_seq /\ t.tx_avail = s.tx_avail
          /\ t.tx_head = s.tx_head /\ t.rx_seq = s.rx_seq
          /\ t.rx_avail = s.rx_avail /\ t.rx_head = s.rx_head
      BY DEF Sock
    <3>4. t \in Sock
      BY <3>1 DEF Sock
    <3> QED
      BY <3>2, <3>3, <3>4
  <2> QED
    BY <2>1, <2>2
<1> HIDE DEF e
<1>3. r \in Sock
  <2>1. \A a, b \in Nat : [e EXCEPT !.tx_avail = a, !.tx_pending = b] \in Sock
    BY <1>2 DEF Sock
  <2>2. e.tx_avail + s.tx_pending \in Nat
    BY <1>1, <1>2, SMTT(40)
  <2> QED
    BY <2>1, <2>2
<1>4. /\ r.tx_avail = s.tx_avail + s.tx_pending /\ r.tx_pending = 0
      /\ r.tx_seq = s.tx_seq /\ r.tx_head = s.tx_head
      /\ r.rx_seq = s.rx_seq
      /\ r.rx_avail = s.rx_avail /\ r.rx_head = s.rx_head
  BY <1>2 DEF Sock
<1>5. Rewind(s) = r
  BY DEF Rewind, e
<1> HIDE DEF r
<1>6. r.tx_pending + r.tx_avail = s.tx_pending + s.tx_avail
  BY <1>1, <1>4, SMTT(40)
<1>7. InRings(r) /\ TxEnd(r) = TxEnd(s)
  BY <1>4, <1>6 DEF InRings, TxEnd
<1> QED
  BY <1>3, <1>4, <1>5, <1>7

-----------------------------------------------------------------------------
(* Receiving *)

\* The casts to __s32 tell ahead from behind wherever the sequence numbers
\* wrap: of a segment that starts d bytes behind what is expected next the
\* first d bytes are cut off and it is not out of order; of one that starts
\* d bytes ahead nothing is cut off, and it is out of order unless d is 0.
\* Both for distances up to half of the sequence space.
THEOREM OrderAcrossWrap ==
  ASSUME NEW s \in Sock, NEW p, Len(p.data) \in Nat, NEW d \in Nat
  PROVE  /\ p.seq = SeqAdd(s.rx_seq, d) /\ 2 * d < SeqModulus =>
              /\ rx_get_payload_overlap(s, p) = 0
              /\ rx_is_out_of_order(s, p) <=> d > 0
         /\ p.seq = SeqSub(s.rx_seq, d) /\ d > 0 /\ 2 * d <= SeqModulus =>
              /\ rx_get_payload_overlap(s, p) = MinOf(d, Len(p.data))
              /\ ~rx_is_out_of_order(s, p)
<1>1. s.rx_seq \in SeqNos
  BY DEF Sock
<1>2. SUFFICES ASSUME 2 * d <= SeqModulus
               PROVE  /\ p.seq = SeqAdd(s.rx_seq, d) /\ 2 * d < SeqModulus =>
                           /\ rx_get_payload_overlap(s, p) = 0
                           /\ rx_is_out_of_order(s, p) <=> d > 0
                      /\ p.seq = SeqSub(s.rx_seq, d) /\ d > 0 =>
                           /\ rx_get_payload_overlap(s, p) =
                                MinOf(d, Len(p.data))
                           /\ ~rx_is_out_of_order(s, p)
  BY SockAssumption, SMTT(40)
<1>3. d \in SeqNos
  BY <1>2, SockAssumption, SMTT(40) DEF SeqNos
<1>4. ASSUME p.seq = SeqAdd(s.rx_seq, d), 2 * d < SeqModulus
      PROVE  /\ rx_get_payload_overlap(s, p) = 0
             /\ rx_is_out_of_order(s, p) <=> d > 0
  <2>1. /\ p.seq \in SeqNos
        /\ p.seq = IF s.rx_seq + d < SeqModulus THEN s.rx_seq + d
                   ELSE s.rx_seq + d - SeqModulus
    BY <1>1, <1>3, <1>4, AddWraps
  <2>2. SeqSub(p.seq, s.rx_seq) = IF p.seq >= s.rx_seq THEN p.seq - s.rx_seq
                                  ELSE p.seq - s.rx_seq + SeqModulus
    BY <1>1, <2>1, SubWraps
  <2>3. SeqSub(p.seq, s.rx_seq) = d
    BY <1>1, <1>3, <2>1, <2>2, SockAssumption, SMTT(40) DEF SeqNos
  <2> QED
    BY <2>3, <1>4, SockAssumption, SMTT(40)
    DEF rx_get_payload_overlap, rx_is_out_of_order, Positive, Negative
<1>5. ASSUME p.seq = SeqSub(s.rx_seq, d), d > 0
      PROVE  /\ rx_get_payload_overlap(s, p) = MinOf(d, Len(p.data))
             /\ ~rx_is_out_of_order(s, p)
  <2>1. /\ p.seq \in SeqNos
        /\ p.seq = IF s.rx_seq >= d THEN s.rx_seq - d
                   ELSE s.rx_seq - d + SeqModulus
    BY <1>1, <1>3, <1>5, SubWraps
  <2>2. SeqSub(p.seq, s.rx_seq) = IF p.seq >= s.rx_seq THEN p.seq - s.rx_seq
                                  ELSE p.seq - s.rx_seq + SeqModulus
    BY <1>1, <2>1, SubWraps
  <2>3. SeqSub(s.rx_seq, p.seq) = IF s.rx_seq >= p.seq THEN s.rx_seq - p.seq
                                  ELSE s.rx_seq - p.seq + SeqModulus
    BY <1>1, <2>1, SubWraps
  <2>4. SeqSub(p.seq, s.rx_seq) = SeqModulus - d
    BY <1>1, <1>3, <1>5, <2>1, <2>2, SockAssumption, SMTT(40) DEF SeqNos
  <2>5. SeqSub(s.rx_seq, p.seq) = d
    BY <1>1, <1>3, <1>5, <2>1, <2>3, SockAssumption, SMTT(40) DEF SeqNos
  <2>6. Negative(SeqSub(p.seq, s.rx_seq))
    BY <2>4, <1>2, SockAssumption, SMTT(40) DEF Negative
  <2> QED
    BY <2>5, <2>6 DEF rx_get_payload_overlap, rx_is_out_of_order, Positive
<1> QED
  BY <1>4, <1>5

\* One subtraction brings a position below two lengths of the ring into it.
LEMMA WrapOnceInRing ==
  ASSUME NEW len \in Nat \ {0}, NEW x \in 0 .. 2 * len - 1
  PROVE  WrapOnce(x, len) \in 0 .. len - 1
BY SMTT(40) DEF WrapOnce

\* rx_get_rx_bump, rx_sock_bump_rx: what is received fits into the receive
\* ring behind what is there, and the place it goes to is in the ring.
THEOREM ReceivesIntoRing ==
  ASSUME NEW s \in Sock, InRings(s), NEW len \in Nat
  PROVE  LET r == rx_sock_bump_rx(s, rx_get_rx_bump(s, len))
         IN  /\ r \in Sock
             /\ InRings(r)
             /\ RxTail(s) \in 0 .. RxLen - 1
             /\ TxPos(s) \in 0 .. TxLen - 1
<1> DEFINE n == rx_get_rx_bump(s, len)
           r == rx_sock_bump_rx(s, n)
<1>1. /\ s.rx_seq \in SeqNos /\ s.rx_avail \in Nat /\ s.rx_head \in Nat
      /\ s.tx_pending \in Nat /\ s.tx_avail \in Nat /\ s.tx_head \in Nat
  BY DEF Sock
<1>2. n \in 0 .. RxLen - s.rx_avail
  BY <1>1, SockAssumption, SMTT(40) DEF rx_get_rx_bump, MinOf, InRings
<1> HIDE DEF n
<1>3. SeqAdd(s.rx_seq, n) \in SeqNos
  BY <1>1, <1>2, SockAssumption, SMTT(40) DEF SeqAdd, SeqNos
<1>4. r \in Sock
  <2>1. \A a \in SeqNos, b \in Nat :
          [s EXCEPT !.rx_seq = a, !.rx_avail = b] \in Sock
    BY DEF Sock
  <2>2. s.rx_avail + n \in Nat
    BY <1>1, <1>2, SockAssumption, SMTT(40)
  <2> QED
    BY <2>1, <2>2, <1>3 DEF rx_sock_bump_rx
<1>5. /\ r.rx_avail = s.rx_avail + n /\ r.rx_head = s.rx_head
      /\ r.tx_pending = s.tx_pending /\ r.tx_avail = s.tx_avail
      /\ r.tx_head = s.tx_head
  BY DEF rx_sock_bump_rx, Sock
<1> HIDE DEF r
<1>6. InRings(r)
  BY <1>1, <1>2, <1>5, SockAssumption, SMTT(40) DEF InRings
<1>7. RxTail(s) \in 0 .. RxLen - 1
  BY <1>1, WrapOnceInRing, SockAssumption, SMTT(40) DEF RxTail, InRings
<1>8. TxPos(s) \in 0 .. TxLen - 1
  BY <1>1, WrapOnceInRing, SockAssumption, SMTT(40) DEF TxPos, InRings
<1> QED
  BY <1>4, <1>6, <1>7, <1>8 DEF n, r


-----------------------------------------------------------------------------
(* Induction.  tlapm cannot instantiate a theorem that has a predicate as  *)
(* its parameter; these are about sets, which it can.                      *)

\* A set of natural numbers that is not empty has a least element.
LEMMA LeastOf ==
  ASSUME NEW T \in SUBSET Nat, T # {}
  PROVE  \E x \in T : \A y \in T : x <= y
<1> DEFINE R == OpToRel(<, Nat)
<1>1. IsWellFoundedOn(R, Nat)
  BY NatLessThanWellFounded
<1>2. \A x, y \in Nat : <<x, y>> \in R <=> x < y
  BY DEF OpToRel
<1> HIDE DEF R
<1>3. PICK x \in T : \A y \in T : ~(<<y, x>> \in R)
  BY <1>1, WFMin
<1>4. ASSUME NEW y \in T
      PROVE  x <= y
  <2>1. x \in Nat /\ y \in Nat
    OBVIOUS
  <2>2. ~(y < x)
    BY <1>2, <1>3, <2>1
  <2> QED
    BY <2>1, <2>2, SMTT(40)
<1> QED
  BY <1>3, <1>4

\* A set that has 0 and with every number up to n its successor has all.
LEMMA Induct ==
  ASSUME NEW S, NEW n \in Nat, 0 \in S,
         \A i \in 0 .. n - 1 : i \in S => i + 1 \in S
  PROVE  0 .. n \subseteq S
<1> DEFINE T == (0 .. n) \ S
<1>1. SUFFICES ASSUME T # {}
               PROVE  FALSE
  OBVIOUS
<1>2. PICK x \in T : \A y \in T : x <= y
  <2>1. T \in SUBSET Nat
    BY SMTT(40)
  <2> HIDE DEF T
  <2> QED
    BY <1>1, <2>1, LeastOf
<1>3. x \in 1 .. n /\ x \notin S
  BY SMTT(40)
<1>4. x - 1 \in 0 .. n - 1 /\ x - 1 \notin S
  BY <1>3, SMTT(40)
<1>5. x - 1 \in T
  BY <1>4, SMTT(40)
<1> QED
  BY <1>2, <1>3, <1>5, SMTT(40)

-----------------------------------------------------------------------------
(* Sums of bumps *)

BumpKinds == {"CHAM_TX", "CHAM_RX", "APP_TX", "APP_RX"}
Bump == [kind : BumpKinds, n : Nat]

\* What a bump adds to the sum of a kind, and the sums of the first i bumps.
Weight(b, kind) == IF b.kind = kind THEN b.n ELSE 0

IsSums(f, q, kind) ==
  /\ f \in [0 .. Len(q) -> Nat]
  /\ f[0] = 0
  /\ \A i \in 1 .. Len(q) : f[i] = f[i - 1] + Weight(q[i], kind)

LEMMA WeightType ==
  ASSUME NEW b \in Bump, NEW kind
  PROVE  Weight(b, kind) \in Nat
BY DEF Weight, Bump

\* The sums of a queue exist ...
LEMMA SumsExist ==
  ASSUME NEW q \in Seq(Bump), NEW kind
  PROVE  \E f : IsSums(f, q, kind)
<1> DEFINE n == Len(q)
           P(f, i) == /\ f \in [0 .. i -> Nat]
                      /\ f[0] = 0
                      /\ \A j \in 1 .. i : f[j] = f[j - 1] + Weight(q[j], kind)
           S == {i \in 0 .. n : \E f \in [0 .. i -> Nat] : P(f, i)}
<1>1. n \in Nat
  BY SMTT(40)
<1>2. \A j \in 1 .. n : Weight(q[j], kind) \in Nat
  BY WeightType, SMTT(40)
<1>3. 0 \in S
  <2> DEFINE z == [j \in 0 .. 0 |-> 0]
  <2>1. P(z, 0) /\ z \in [0 .. 0 -> Nat] /\ 0 \in 0 .. n
    BY <1>1, SMTT(40)
  <2> HIDE DEF P, z
  <2> QED
    BY <2>1
<1>4. ASSUME NEW i \in 0 .. n - 1, i \in S
      PROVE  i + 1 \in S
  <2>1. PICK f \in [0 .. i -> Nat] : P(f, i)
    BY <1>4
  <2> DEFINE g == [j \in 0 .. i + 1 |->
                     IF j <= i THEN f[j] ELSE f[i] + Weight(q[i + 1], kind)]
  <2>2. g \in [0 .. i + 1 -> Nat]
    BY <1>2, <2>1, SMTT(40)
  <2>3. g[0] = 0
    BY <2>1, SMTT(40)
  <2>4. ASSUME NEW j \in 1 .. i + 1
        PROVE  g[j] = g[j - 1] + Weight(q[j], kind)
    BY <2>1, SMTT(40)
  <2>5. P(g, i + 1)
    BY <2>2, <2>3, <2>4
  <2>6. i + 1 \in 0 .. n
    BY <1>1, SMTT(40)
  <2> HIDE DEF P, g
  <2> QED
    BY <2>2, <2>5, <2>6
<1>5. n \in S
  <2> HIDE DEF S, n
  <2>1. 0 .. n \subseteq S
    BY <1>1, <1>3, <1>4, Induct
  <2> QED
    BY <1>1, <2>1, SMTT(40)
<1> QED
  BY <1>5 DEF IsSums

\* ... and there is only one of them.
LEMMA SumsUnique ==
  ASSUME NEW q \in Seq(Bump), NEW kind, NEW f, NEW g,
         IsSums(f, q, kind), IsSums(g, q, kind)
  PROVE  f = g
<1> DEFINE S == {i \in 0 .. Len(q) : f[i] = g[i]}
<1>1. Len(q) \in Nat
  BY SMTT(40)
<1>2. 0 \in S
  BY <1>1, SMTT(40) DEF IsSums
<1>3. ASSUME NEW i \in 0 .. Len(q) - 1, i \in S
      PROVE  i + 1 \in S
  BY <1>1, <1>3, SMTT(40) DEF IsSums
<1>4. 0 .. Len(q) \subseteq S
  <2> HIDE DEF S
  <2> QED
    BY <1>1, <1>2, <1>3, Induct
<1> QED
  BY <1>4, SMTT(40) DEF IsSums

\* BumpSum is the last of the sums.
LEMMA BumpSumIs ==
  ASSUME NEW q \in Seq(Bump), NEW kind, NEW f, IsSums(f, q, kind)
  PROVE  BumpSum(q, kind) = f[Len(q)]
<1> DEFINE Eq(h) == h = [i \in 0 .. Len(q) |->
                          IF i = 0 THEN 0
                          ELSE h[i - 1] + (IF q[i].kind = kind THEN q[i].n ELSE 0)]
           first == CHOOSE h : Eq(h)
<1>1. Len(q) \in Nat
  BY SMTT(40)
<1>2. Eq(f)
  BY <1>1, SMTT(40) DEF IsSums, Weight
<1>3. Eq(first)
  <2> HIDE DEF Eq
  <2> QED
    BY <1>2
<1>4. BumpSum(q, kind) = first[Len(q)]
  BY DEF BumpSum
<1> DEFINE S == {i \in 0 .. Len(q) : f[i] = first[i]}
<1> HIDE DEF first
<1>5. 0 \in S
  BY <1>1, <1>2, <1>3, SMTT(40)
<1>6. ASSUME NEW i \in 0 .. Len(q) - 1, i \in S
      PROVE  i + 1 \in S
  <2>1. f[i + 1] = f[i] + (IF q[i + 1].kind = kind THEN q[i + 1].n ELSE 0)
    BY <1>1, <1>2, SMTT(40)
  <2>2. first[i + 1] = first[i] + (IF q[i + 1].kind = kind THEN q[i + 1].n ELSE 0)
    BY <1>1, <1>3, SMTT(40)
  <2> QED
    BY <1>1, <1>6, <2>1, <2>2, SMTT(40)
<1>7. Len(q) \in S
  <2> HIDE DEF S, Eq
  <2>1. 0 .. Len(q) \subseteq S
    BY <1>1, <1>5, <1>6, Induct
  <2> QED
    BY <1>1, <2>1, SMTT(40)
<1> QED
  BY <1>4, <1>7

LEMMA BumpSumType ==
  ASSUME NEW q \in Seq(Bump), NEW kind
  PROVE  BumpSum(q, kind) \in Nat
<1>1. PICK f : IsSums(f, q, kind)
  BY SumsExist
<1> QED
  BY <1>1, BumpSumIs, SMTT(40) DEF IsSums

LEMMA BumpSumEmpty ==
  ASSUME NEW kind
  PROVE  BumpSum(<<>>, kind) = 0
<1>1. <<>> \in Seq(Bump)
  BY SMTT(40)
<1>2. PICK f : IsSums(f, <<>>, kind)
  BY <1>1, SumsExist
<1> QED
  BY <1>1, <1>2, BumpSumIs DEF IsSums

\* A bump is added to the sum when it is queued ...
LEMMA BumpSumAppend ==
  ASSUME NEW q \in Seq(Bump), NEW b \in Bump, NEW kind
  PROVE  BumpSum(Append(q, b), kind) = BumpSum(q, kind) + Weight(b, kind)
<1>1. PICK f : IsSums(f, q, kind)
  BY SumsExist
<1> DEFINE n == Len(q)
           p == Append(q, b)
           g == [i \in 0 .. n + 1 |-> IF i <= n THEN f[i]
                                      ELSE f[n] + Weight(b, kind)]
<1>2. n \in Nat /\ p \in Seq(Bump) /\ Len(p) = n + 1
  BY SMTT(40)
<1>3. p[n + 1] = b /\ \A i \in 1 .. n : p[i] = q[i]
  BY SMTT(40)
<1>4. Weight(b, kind) \in Nat
  BY WeightType
<1>5. IsSums(g, p, kind)
  <2> HIDE DEF p
  <2>1. g \in [0 .. Len(p) -> Nat] /\ g[0] = 0
    BY <1>1, <1>2, <1>4, SMTT(40) DEF IsSums
  <2>2. ASSUME NEW i \in 1 .. Len(p)
        PROVE  g[i] = g[i - 1] + Weight(p[i], kind)
    BY <1>1, <1>2, <1>3, SMTT(40) DEF IsSums
  <2> QED
    BY <2>1, <2>2 DEF IsSums
<1>6. BumpSum(p, kind) = g[n + 1]
  <2> HIDE DEF p, g
  <2> QED
    BY <1>2, <1>5, BumpSumIs
<1>7. BumpSum(q, kind) = f[n]
  BY <1>1, BumpSumIs
<1> QED
  BY <1>2, <1>6, <1>7, SMTT(40)

\* ... and leaves it when it is taken from the queue.
LEMMA BumpSumTail ==
  ASSUME NEW q \in Seq(Bump), q # <<>>, NEW kind
  PROVE  BumpSum(q, kind) = Weight(Head(q), kind) + BumpSum(Tail(q), kind)
<1> DEFINE p == Tail(q)
           n == Len(q)
<1>1. /\ n \in Nat \ {0} /\ p \in Seq(Bump) /\ Len(p) = n - 1
      /\ Head(q) = q[1] /\ q[1] \in Bump
      /\ \A i \in 2 .. n : q[i] = p[i - 1]
  BY SMTT(40)
<1> HIDE DEF p
<1>2. PICK f : IsSums(f, p, kind)
  BY <1>1, SumsExist
<1> DEFINE g == [i \in 0 .. n |-> IF i = 0 THEN 0
                                  ELSE Weight(q[1], kind) + f[i - 1]]
<1>3. Weight(q[1], kind) \in Nat
  BY <1>1, WeightType
<1>4. IsSums(g, q, kind)
  <2>1. g \in [0 .. n -> Nat] /\ g[0] = 0
    BY <1>1, <1>2, <1>3, SMTT(40) DEF IsSums
  <2>2. ASSUME NEW i \in 1 .. n
        PROVE  g[i] = g[i - 1] + Weight(q[i], kind)
    <3>1. CASE i = 1
      BY <1>1, <1>2, <1>3, <3>1, SMTT(40) DEF IsSums
    <3>2. CASE i # 1
      <4>1. i - 1 \in 1 .. Len(p) /\ q[i] = p[i - 1]
        BY <1>1, <3>2, SMTT(40)
      <4>2. f[i - 1] = f[i - 1 - 1] + Weight(p[i - 1], kind)
        BY <1>2, <4>1 DEF IsSums
      <4>3. /\ g[i] = Weight(q[1], kind) + f[i - 1]
            /\ g[i - 1] = Weight(q[1], kind) + f[i - 1 - 1]
        BY <1>1, <3>2, SMTT(40)
      <4>4. f[i - 1 - 1] \in Nat /\ f[i - 1] \in Nat
        <5>1. i - 1 - 1 \in 0 .. Len(p) /\ i - 1 \in 0 .. Len(p)
          BY <1>1, <3>2, SMTT(40)
        <5>2. f \in [0 .. Len(p) -> Nat]
          BY <1>2 DEF IsSums
        <5> QED
          BY <5>1, <5>2
      <4>5. Weight(p[i - 1], kind) = f[i - 1] - f[i - 1 - 1]
        <5>1. Weight(p[i - 1], kind) \in Nat
          BY <1>1, <4>1, WeightType, SMTT(40)
        <5> QED
          BY <5>1, <4>2, <4>4, SMTT(40)
      <4> QED
        BY <1>3, <4>1, <4>3, <4>4, <4>5, SMTT(40)
    <3> QED
      BY <3>1, <3>2
  <2> QED
    BY <2>1, <2>2 DEF IsSums
<1>5. BumpSum(q, kind) = g[n]
  <2> HIDE DEF g
  <2> QED
    BY <1>4, BumpSumIs
<1>6. BumpSum(p, kind) = f[n - 1]
  BY <1>1, <1>2, BumpSumIs
<1> QED
  BY <1>1, <1>5, <1>6, SMTT(40) DEF p

-----------------------------------------------------------------------------
(* Rings *)

\* Division with remainder, for lengths that are not numerals.
LEMMA Quotient ==
  ASSUME NEW len \in Nat \ {0}, NEW a \in Nat
  PROVE  \E q \in Nat, r \in 0 .. len - 1 : a = len * q + r
<1> DEFINE S == {x \in 0 .. a :
                   \E q \in Nat, r \in 0 .. len - 1 : x = len * q + r}
<1>1. 0 \in S
  <2>1. 0 = len * 0 + 0 /\ 0 \in 0 .. len - 1
    BY SMTT(40)
  <2> QED
    BY <2>1, SMTT(40)
<1>2. ASSUME NEW x \in 0 .. a - 1, x \in S
      PROVE  x + 1 \in S
  <2>1. PICK q \in Nat, r \in 0 .. len - 1 : x = len * q + r
    BY <1>2
  <2>2. CASE r + 1 < len
    <3>1. x + 1 = len * q + (r + 1) /\ r + 1 \in 0 .. len - 1
      BY <2>1, <2>2, SMTT(40)
    <3> QED
      BY <3>1, SMTT(40)
  <2>3. CASE r + 1 = len
    <3>1. PICK k \in Nat, z \in 0 .. len - 1 : k = q + 1 /\ z = 0
      BY SMTT(40)
    <3>2. x + 1 = len * k + z
      BY <2>1, <2>3, <3>1, SMTT(40)
    <3> QED
      BY <3>2, SMTT(40)
  <2> QED
    BY <2>2, <2>3, SMTT(40)
<1>3. 0 .. a \subseteq S
  <2> HIDE DEF S
  <2> QED
    BY <1>1, <1>2, Induct
<1> QED
  BY <1>3, SMTT(40)

\* A remainder is the only one.
LEMMA ModUnique ==
  ASSUME NEW len \in Nat \ {0}, NEW q \in Nat, NEW r \in 0 .. len - 1
  PROVE  (len * q + r) % len = r
BY SMTT(40)

\* The slot of a ring in which position x of a stream is.  Proofs use what
\* the following lemmas say of it, since the provers know little of %.
At(x, len) == x % len

LEMMA AtType ==
  ASSUME NEW len \in Nat \ {0}, NEW x \in Nat
  PROVE  At(x, len) \in 0 .. len - 1
BY SMTT(40) DEF At

\* Moving up to a length ahead in a ring wraps at most once.
LEMMA AtAdd ==
  ASSUME NEW len \in Nat \ {0}, NEW a \in Nat, NEW n \in 0 .. len
  PROVE  At(a + n, len) = WrapOnce(At(a, len) + n, len)
<1>1. PICK q \in Nat, r \in 0 .. len - 1 : a = len * q + r
  BY Quotient
<1>2. a % len = r
  BY <1>1, ModUnique
<1>3. CASE r + n < len
  <2>1. a + n = len * q + (r + n) /\ r + n \in 0 .. len - 1
    BY <1>1, <1>3, SMTT(40)
  <2>2. (a + n) % len = r + n
    BY <2>1, ModUnique
  <2> QED
    BY <1>2, <1>3, <2>2, SMTT(40) DEF WrapOnce, At
<1>4. CASE r + n >= len
  <2>1. PICK k \in Nat : k = q + 1
    BY SMTT(40)
  <2>2. a + n = len * k + (r + n - len) /\ r + n - len \in 0 .. len - 1
    BY <1>1, <1>4, <2>1, SMTT(40)
  <2>3. (a + n) % len = r + n - len
    BY <2>2, ModUnique
  <2> QED
    BY <1>2, <1>4, <2>3, SMTT(40) DEF WrapOnce, At
<1> QED
  BY <1>3, <1>4, SMTT(40)

\* A slot is its own; so the remainder in rx_sock_bump_ack wraps once, too.
LEMMA AtWithin ==
  ASSUME NEW len \in Nat \ {0}, NEW x \in 0 .. len - 1
  PROVE  At(x, len) = x
BY SMTT(40) DEF At

LEMMA AtMoved ==
  ASSUME NEW len \in Nat \ {0}, NEW a \in Nat, NEW n \in 0 .. len,
         NEW head, head = At(a, len)
  PROVE  (head + n) % len = At(a + n, len)
<1>1. head \in 0 .. len - 1 /\ head \in Nat
  BY AtType, SMTT(40)
<1>2. At(head, len) = head
  BY <1>1, AtWithin
<1>3. At(head + n, len) = WrapOnce(head + n, len)
  BY <1>1, <1>2, AtAdd
<1>4. At(a + n, len) = WrapOnce(head + n, len)
  BY AtAdd
<1> QED
  BY <1>3, <1>4 DEF At

\* RingRead: n bytes from where byte a + 1 of a stream is are the next n.
LEMMA RingReadIs ==
  ASSUME NEW len \in Nat \ {0}, NEW buf \in [0 .. len - 1 -> Nat],
         NEW a \in Nat, NEW n \in 0 .. len,
         \A i \in a + 1 .. a + n : buf[At(i - 1, len)] = i
  PROVE  LET r == RingRead(buf, At(a, len), n, len)
         IN  /\ r \in Seq(Nat)
             /\ Len(r) = n
             /\ \A i \in 1 .. n : r[i] = a + i
<1> DEFINE r == RingRead(buf, At(a, len), n, len)
<1>1. ASSUME NEW i \in 1 .. n
      PROVE  buf[WrapOnce(At(a, len) + i - 1, len)] = a + i
  <2>1. PICK m \in 0 .. len : m = i - 1
    BY SMTT(40)
  <2>2. At(a + m, len) = WrapOnce(At(a, len) + m, len)
    BY AtAdd
  <2>3. At(a, len) \in 0 .. len - 1
    BY AtType
  <2>4. At(a, len) + m = At(a, len) + i - 1 /\ a + m = a + i - 1
    BY <2>1, <2>3
  <2>5. buf[At(a + i - 1, len)] = a + i
    BY SMTT(40)
  <2> QED
    BY <2>2, <2>4, <2>5
<1>2. r = [i \in 1 .. n |-> a + i]
  BY <1>1 DEF RingRead
<1>3. [i \in 1 .. n |-> a + i] \in Seq(Nat)
  BY SMTT(40)
<1>4. Len([i \in 1 .. n |-> a + i]) = n
  BY SMTT(40)
<1> HIDE DEF r
<1>5. r \in Seq(Nat) /\ Len(r) = n /\ \A i \in 1 .. n : r[i] = a + i
  BY <1>2, <1>3, <1>4
<1> QED
  BY <1>5 DEF r

\* RingWrite counts slots from the one it starts at, around the ring.
LEMMA SlotAhead ==
  ASSUME NEW len \in Nat \ {0}, NEW p \in 0 .. len - 1, NEW j \in 1 .. len
  PROVE  WrapOnce(WrapOnce(p + (j - 1), len) - p + len, len) + 1 = j
BY SMTT(40) DEF WrapOnce

LEMMA SlotBehind ==
  ASSUME NEW len \in Nat \ {0}, NEW k \in 0 .. len - 1, NEW d \in 1 .. len
  PROVE  WrapOnce(k - WrapOnce(k + d, len) + len, len) + 1 \in len - d + 1 .. len
BY SMTT(40) DEF WrapOnce

LEMMA SlotType ==
  ASSUME NEW len \in Nat \ {0}, NEW p \in 0 .. len - 1, NEW k \in 0 .. len - 1
  PROVE  WrapOnce(k - p + len, len) + 1 \in 1 .. len
BY SMTT(40) DEF WrapOnce

\* RingWrite: the n bytes behind byte w of a stream join the bytes a + 1 .. w
\* that are in the ring, and leave them alone if all fit into it.
LEMMA RingWriteIs ==
  ASSUME NEW len \in Nat \ {0}, NEW buf \in [0 .. len - 1 -> Nat],
         NEW w \in Nat, NEW a \in 0 .. w, NEW bytes \in Seq(Nat),
         w - a + Len(bytes) <= len,
         \A i \in 1 .. Len(bytes) : bytes[i] = w + i,
         \A i \in a + 1 .. w : buf[At(i - 1, len)] = i
  PROVE  LET r == RingWrite(buf, At(w, len), bytes, len)
         IN  /\ r \in [0 .. len - 1 -> Nat]
             /\ \A i \in a + 1 .. w + Len(bytes) : r[At(i - 1, len)] = i
<1> DEFINE r == RingWrite(buf, At(w, len), bytes, len)
           n == Len(bytes)
           Slot(k) == WrapOnce(k - At(w, len) + len, len) + 1
<1>1. n \in Nat /\ At(w, len) \in 0 .. len - 1
  <2>1. n \in Nat
    BY SMTT(40)
  <2> QED
    BY <2>1, AtType
<1>2. r = [k \in 0 .. len - 1 |-> IF Slot(k) <= n THEN bytes[Slot(k)] ELSE buf[k]]
  BY DEF RingWrite
<1>3. \A k \in 0 .. len - 1 : Slot(k) \in 1 .. len
  BY <1>1, SlotType
<1>4. r \in [0 .. len - 1 -> Nat]
  <2>1. ASSUME NEW k \in 0 .. len - 1
        PROVE  (IF Slot(k) <= n THEN bytes[Slot(k)] ELSE buf[k]) \in Nat
    <3>1. Slot(k) \in 1 .. len
      BY <1>3
    <3> HIDE DEF Slot
    <3> QED
      BY <1>1, <3>1, SMTT(40)
  <2> HIDE DEF r, Slot
  <2> QED
    BY <1>2, <2>1
<1>5. ASSUME NEW i \in a + 1 .. w + n
      PROVE  r[At(i - 1, len)] = i
  <2> DEFINE k == At(i - 1, len)
  <2>1. k \in 0 .. len - 1
    <3>1. i - 1 \in Nat
      BY <1>1, SMTT(40)
    <3> QED
      BY <3>1, AtType
  <2>2. r[k] = IF Slot(k) <= n THEN bytes[Slot(k)] ELSE buf[k]
    <3> HIDE DEF r, Slot, k
    <3> QED
      BY <1>2, <2>1
  <2>3. CASE i > w
    <3> DEFINE j == i - w
    <3>1. /\ j \in 1 .. n /\ j \in 1 .. len /\ j - 1 \in 0 .. len
          /\ w + j = i
      BY <1>1, <2>3, SMTT(40)
    <3>2. i - 1 = w + (j - 1)
      BY <1>1, <2>3, SMTT(40)
    <3>3. At(w + (j - 1), len) = WrapOnce(At(w, len) + (j - 1), len)
      BY <3>1, AtAdd
    <3>4. k = WrapOnce(At(w, len) + (j - 1), len)
      BY <3>2, <3>3
    <3> HIDE DEF k, j
    <3>5. Slot(k) = j
      BY <1>1, <3>1, <3>4, SlotAhead
    <3>6. bytes[j] = w + j
      BY <3>1
    <3> HIDE DEF Slot, r
    <3>7. r[k] = i
      BY <1>1, <2>2, <3>1, <3>5, <3>6, SMTT(40)
    <3> QED
      BY <3>7 DEF k
  <2>4. CASE i <= w
    <3> DEFINE d == w - (i - 1)
    <3>1. d \in 1 .. len /\ i - 1 \in Nat /\ w = (i - 1) + d /\ d <= len - n
      BY <1>1, <2>4, SMTT(40)
    <3>2. At((i - 1) + d, len) = WrapOnce(At(i - 1, len) + d, len)
      <4> HIDE DEF d
      <4> QED
        BY <3>1, AtAdd, SMTT(40)
    <3>3. At(w, len) = WrapOnce(k + d, len)
      BY <3>1, <3>2
    <3>4. buf[k] = i
      BY <2>4, SMTT(40)
    <3> HIDE DEF k, d
    <3>5. Slot(k) \in len - d + 1 .. len
      BY <2>1, <3>1, <3>3, SlotBehind
    <3> HIDE DEF Slot, r
    <3>6. Slot(k) > n /\ Slot(k) \in Int
      BY <1>1, <3>1, <3>5, SMTT(40)
    <3>7. r[k] = i
      BY <1>1, <2>2, <3>4, <3>6, SMTT(40)
    <3> QED
      BY <3>7 DEF k
  <2> QED
    BY <1>1, <2>3, <2>4, SMTT(40)
<1> QED
  BY <1>4, <1>5

-----------------------------------------------------------------------------
(* Positions in a stream *)

\* Positions in the stream that starts with iss: of the last byte acknowledged,
\* of the last byte the sender owns, and of the last byte received.
Pos(seq, iss) == SeqSub(seq, iss)
Una(s, iss) == Pos(s.tx_seq, iss)
Top(s, iss) == Una(s, iss) + s.tx_pending + s.tx_avail
Nxt(s, iss) == Pos(s.rx_seq, iss)

\* A sequence number and its position determine each other.
LEMMA PosOfSeq ==
  ASSUME NEW iss \in SeqNos, NEW x \in SeqNos
  PROVE  /\ Pos(x, iss) \in SeqNos
         /\ SeqAdd(iss, Pos(x, iss)) = x
         /\ SeqAdd(iss, x) \in SeqNos
         /\ Pos(SeqAdd(iss, x), iss) = x
<1>1. /\ Pos(x, iss) \in SeqNos
      /\ Pos(x, iss) = IF x >= iss THEN x - iss ELSE x - iss + SeqModulus
  BY SubWraps DEF Pos
<1>2. SeqAdd(iss, Pos(x, iss)) =
        IF iss + Pos(x, iss) < SeqModulus THEN iss + Pos(x, iss)
        ELSE iss + Pos(x, iss) - SeqModulus
  BY <1>1, AddWraps
<1>3. /\ SeqAdd(iss, x) \in SeqNos
      /\ SeqAdd(iss, x) = IF iss + x < SeqModulus THEN iss + x
                          ELSE iss + x - SeqModulus
  BY AddWraps
<1>4. Pos(SeqAdd(iss, x), iss) =
        IF SeqAdd(iss, x) >= iss THEN SeqAdd(iss, x) - iss
        ELSE SeqAdd(iss, x) - iss + SeqModulus
  BY <1>3, SubWraps DEF Pos
<1> QED
  BY <1>1, <1>2, <1>3, <1>4, SockAssumption, SMTT(40) DEF SeqNos

\* Sequence numbers differ as their positions do.
LEMMA PosDiff ==
  ASSUME NEW iss \in SeqNos, NEW x \in SeqNos, NEW y \in SeqNos
  PROVE  SeqSub(x, y) =
           IF Pos(x, iss) >= Pos(y, iss) THEN Pos(x, iss) - Pos(y, iss)
           ELSE Pos(x, iss) - Pos(y, iss) + SeqModulus
<1>1. /\ Pos(x, iss) = IF x >= iss THEN x - iss ELSE x - iss + SeqModulus
      /\ Pos(y, iss) = IF y >= iss THEN y - iss ELSE y - iss + SeqModulus
      /\ SeqSub(x, y) = IF x >= y THEN x - y ELSE x - y + SeqModulus
  BY SubWraps DEF Pos
<1> QED
  BY <1>1, SockAssumption, SMTT(40) DEF SeqNos

\* Going n bytes ahead in the first half of the sequence space.
LEMMA PosAhead ==
  ASSUME NEW iss \in SeqNos, NEW x \in SeqNos, NEW n \in Nat,
         Pos(x, iss) + n < SeqModulus
  PROVE  /\ SeqAdd(x, n) \in SeqNos
         /\ Pos(SeqAdd(x, n), iss) = Pos(x, iss) + n
         /\ SeqAdd(x, n) = SeqAdd(iss, Pos(x, iss) + n)
<1> DEFINE px == Pos(x, iss)
<1>1. px \in SeqNos /\ px = IF x >= iss THEN x - iss ELSE x - iss + SeqModulus
  BY SubWraps DEF Pos
<1>2. n \in SeqNos /\ px + n \in SeqNos
  BY <1>1, SockAssumption, SMTT(40) DEF SeqNos
<1>3. /\ SeqAdd(x, n) \in SeqNos
      /\ SeqAdd(x, n) = IF x + n < SeqModulus THEN x + n ELSE x + n - SeqModulus
  BY <1>2, AddWraps
<1>4. SeqAdd(iss, px + n) = IF iss + (px + n) < SeqModulus THEN iss + (px + n)
                            ELSE iss + (px + n) - SeqModulus
  <2> HIDE DEF px
  <2> QED
    BY <1>2, AddWraps
<1>5. SeqAdd(x, n) = SeqAdd(iss, px + n)
  BY <1>1, <1>2, <1>3, <1>4, SockAssumption, SMTT(40) DEF SeqNos
<1>6. Pos(SeqAdd(iss, px + n), iss) = px + n
  <2> HIDE DEF px
  <2> QED
    BY <1>2, PosOfSeq
<1> QED
  BY <1>3, <1>5, <1>6

-----------------------------------------------------------------------------
(* The inductive invariant *)

LibSock ==
  [ tx_head : Nat, tx_avail : Nat, tx_bump_pending : Nat,
    rx_head : Nat, rx_avail : Nat, rx_bump_pending : Nat ]

Segment == [seq : SeqNos, ack : SeqNos, wnd : Nat, data : Seq(Nat)]

TypeInv ==
  /\ sock \in [Ends -> Sock]
  /\ txbuf \in [Ends -> [0 .. TxLen - 1 -> Nat]]
  /\ rxbuf \in [Ends -> [0 .. RxLen - 1 -> Nat]]
  /\ app_fast \in [Ends -> Seq(Bump)]
  /\ fast_app \in [Ends -> Seq(Bump)]
  /\ lib \in [Ends -> LibSock]
  /\ polling \in [Ends -> {"out", "poll", "handled"}]
  /\ \A e \in Ends : polling[e] = "handled" => fast_app[e] # <<>>
  /\ wrote \in [Ends -> Nat]
  /\ got \in [Ends -> Seq(Nat)]
  /\ net \in [Ends -> Seq(Segment)]
  /\ load \in Loads

\* The sender.  Bytes a + 1 .. w of the stream are in the ring: in flight,
\* waiting, in bumps queued for the fast path or only written.  The library
\* believes that these are in the ring and those which bumps give back, so that
\* it overwrites none of them.
TxOk(s, buf, l, queued, back, w, a) ==
  /\ s.tx_head = At(a, TxLen)
  /\ w = a + s.tx_pending + s.tx_avail + queued + l.tx_bump_pending
  /\ w - a + back <= l.tx_avail
  /\ l.tx_avail <= TxLen
  /\ l.tx_head < TxLen
  /\ WrapOnce(l.tx_head + l.tx_avail, TxLen) = At(w, TxLen)
  /\ \A i \in a + 1 .. w : buf[At(i - 1, TxLen)] = i

\* The receiver.  Of r bytes received the application has read g, and of
\* these it has told the fast path of all but those in bumps; the others are
\* in the ring.  Bumps tell the library of the ones that are ready.
Told(l, queued, g) == g - l.rx_bump_pending - queued

RxOk(s, buf, l, queued, ready, g, r) ==
  /\ Told(l, queued, g) >= 0
  /\ s.rx_head = At(Told(l, queued, g), RxLen)
  /\ s.rx_avail = r - Told(l, queued, g)
  /\ s.rx_avail <= RxLen
  /\ l.rx_head = At(g, RxLen)
  /\ l.rx_avail + ready <= r - g
  /\ \A i \in Told(l, queued, g) + 1 .. r : buf[At(i - 1, RxLen)] = i

\* Until a bump was dropped the library knows exactly what is in the rings.
Exact(l, back, ready, w, a, g, r) ==
  /\ l.tx_avail = w - a + back
  /\ r - g = l.rx_avail + ready

\* A segment of the stream that starts with iss, of which top bytes may have
\* been sent; it acknowledges at most nxt bytes of the stream that starts
\* with ack0.
SegOk(m, iss, top, ack0, nxt) ==
  /\ \E off \in 0 .. top :
       /\ m.seq = SeqAdd(iss, off)
       /\ off + Len(m.data) <= top
       /\ \A i \in 1 .. Len(m.data) : m.data[i] = off + i
  /\ \E k \in 0 .. nxt : m.ack = SeqAdd(ack0, k)

\* One end.
EndOk(e) ==
  LET a == Una(sock[e], Iss[e])
      r == Nxt(sock[e], Iss[Peer(e)])
      back == BumpSum(Unhandled(e), "APP_TX")
      ready == BumpSum(Unhandled(e), "APP_RX")
  IN /\ TxOk(sock[e], txbuf[e], lib[e], BumpSum(app_fast[e], "CHAM_TX"), back,
             wrote[e], a)
     /\ RxOk(sock[e], rxbuf[e], lib[e], BumpSum(app_fast[e], "CHAM_RX"), ready,
             Len(got[e]), r)
     /\ e \notin dropped => Exact(lib[e], back, ready, wrote[e], a, Len(got[e]), r)
     /\ \A i \in 1 .. Len(got[e]) : got[e][i] = i
     /\ wrote[e] <= load.bytes[e]
     /\ e \notin dropped /\ sock_sched_avail(sock[e]) > 0 => e \in sched

\* What e sent, as both ends see it.
PairOk(e) ==
  /\ Una(sock[e], Iss[e]) <= Nxt(sock[Peer(e)], Iss[e])
  /\ Nxt(sock[Peer(e)], Iss[e]) <= Top(sock[e], Iss[e])

Segs(q) == {q[i] : i \in 1 .. Len(q)}

\* What is on its way to e.
NetOk(e) ==
  \A m \in Segs(net[e]) :
    SegOk(m, Iss[Peer(e)], Top(sock[Peer(e)], Iss[Peer(e)]),
          Iss[e], Nxt(sock[Peer(e)], Iss[e]))

IInv ==
  /\ TypeInv
  /\ \A e \in Ends : EndOk(e) /\ PairOk(e) /\ NetOk(e)

-----------------------------------------------------------------------------
(* The fields of the records, and what the sums of a queue are made of *)

LEMMA SockFields ==
  ASSUME NEW s \in Sock
  PROVE  /\ s.tx_seq \in SeqNos /\ s.rx_seq \in SeqNos
         /\ s.tx_pending \in Nat /\ s.tx_avail \in Nat /\ s.tx_head \in Nat
         /\ s.rx_avail \in Nat /\ s.rx_head \in Nat
BY DEF Sock

LEMMA LibFields ==
  ASSUME NEW l \in LibSock
  PROVE  /\ l.tx_head \in Nat /\ l.tx_avail \in Nat /\ l.tx_bump_pending \in Nat
         /\ l.rx_head \in Nat /\ l.rx_avail \in Nat /\ l.rx_bump_pending \in Nat
BY DEF LibSock

\* The four sums are numbers.
LEMMA SumsType ==
  ASSUME NEW q \in Seq(Bump)
  PROVE  /\ BumpSum(q, "CHAM_TX") \in Nat /\ BumpSum(q, "CHAM_RX") \in Nat
         /\ BumpSum(q, "APP_TX") \in Nat /\ BumpSum(q, "APP_RX") \in Nat
BY BumpSumType

\* Queueing a bump changes the sum of its kind only.
LEMMA SumsAppend ==
  ASSUME NEW q \in Seq(Bump), NEW n \in Nat, NEW kind \in BumpKinds
  PROVE  LET p == Append(q, [kind |-> kind, n |-> n])
         IN  /\ p \in Seq(Bump)
             /\ \A k \in BumpKinds :
                  BumpSum(p, k) = BumpSum(q, k) + (IF k = kind THEN n ELSE 0)
<1> DEFINE b == [kind |-> kind, n |-> n]
           p == Append(q, b)
<1>1. b \in Bump /\ b.kind = kind /\ b.n = n
  BY DEF Bump
<1> HIDE DEF b
<1>2. p \in Seq(Bump)
  BY <1>1, SMTT(40)
<1>3. ASSUME NEW k \in BumpKinds
      PROVE  BumpSum(p, k) = BumpSum(q, k) + (IF k = kind THEN n ELSE 0)
  <2>1. BumpSum(p, k) = BumpSum(q, k) + Weight(b, k)
    BY <1>1, BumpSumAppend
  <2>2. Weight(b, k) = IF k = kind THEN n ELSE 0
    BY <1>1 DEF Weight
  <2> QED
    BY <2>1, <2>2
<1> QED
  BY <1>2, <1>3 DEF b

\* And so does taking one.
LEMMA SumsTail ==
  ASSUME NEW q \in Seq(Bump), q # <<>>
  PROVE  /\ Tail(q) \in Seq(Bump)
         /\ Head(q) \in Bump
         /\ \A k \in BumpKinds :
              BumpSum(q, k) = BumpSum(Tail(q), k)
                              + (IF Head(q).kind = k THEN Head(q).n ELSE 0)
<1>1. Tail(q) \in Seq(Bump) /\ Head(q) \in Bump
  BY SMTT(40)
<1>2. ASSUME NEW k \in BumpKinds
      PROVE  BumpSum(q, k) = BumpSum(Tail(q), k)
                             + (IF Head(q).kind = k THEN Head(q).n ELSE 0)
  <2>1. BumpSum(q, k) = Weight(Head(q), k) + BumpSum(Tail(q), k)
    BY BumpSumTail
  <2>2. BumpSum(Tail(q), k) \in Nat
    BY <1>1, BumpSumType
  <2>3. Weight(Head(q), k) \in Nat
    BY <1>1, WeightType
  <2>4. Weight(Head(q), k) = IF Head(q).kind = k THEN Head(q).n ELSE 0
    BY DEF Weight
  <2> QED
    BY <2>1, <2>2, <2>3, <2>4, SMTT(40)
<1> QED
  BY <1>1, <1>2

-----------------------------------------------------------------------------
(* What each operation does to the sender and the receiver *)

\* The bytes of a socket are in its rings.
LEMMA OkInRings ==
  ASSUME NEW s \in Sock, NEW l \in LibSock, NEW tb, NEW rb,
         NEW qt \in Nat, NEW qr \in Nat, NEW back \in Nat, NEW ready \in Nat,
         NEW w \in Nat, NEW a \in Nat, NEW g \in Nat, NEW r \in Nat,
         TxOk(s, tb, l, qt, back, w, a), RxOk(s, rb, l, qr, ready, g, r)
  PROVE  /\ InRings(s)
         /\ a + s.tx_pending + s.tx_avail <= w
         /\ Told(l, qr, g) \in 0 .. g
         /\ g <= r
<1>1. /\ s.tx_pending \in Nat /\ s.tx_avail \in Nat /\ s.rx_avail \in Nat
      /\ l.tx_bump_pending \in Nat /\ l.tx_avail \in Nat
      /\ l.rx_bump_pending \in Nat /\ l.rx_avail \in Nat
  BY SockFields, LibFields
<1>2. Told(l, qr, g) \in 0 .. g
  BY <1>1, SMTT(40) DEF RxOk, Told
<1>3. At(a, TxLen) \in 0 .. TxLen - 1 /\ At(Told(l, qr, g), RxLen) \in 0 .. RxLen - 1
  BY <1>2, SockAssumption, AtType, SMTT(40)
<1>4. g <= r
  BY <1>1, SMTT(40) DEF RxOk
<1>5. a + s.tx_pending + s.tx_avail <= w
  BY <1>1, SMTT(40) DEF TxOk
<1>6. s.tx_pending + s.tx_avail <= TxLen
  BY <1>1, <1>5, SockAssumption, SMTT(40) DEF TxOk
<1>7. s.tx_head < TxLen /\ s.rx_head < RxLen /\ s.rx_avail <= RxLen
  BY <1>3, SockAssumption, SMTT(40) DEF TxOk, RxOk
<1> QED
  BY <1>2, <1>4, <1>5, <1>6, <1>7 DEF InRings

\* The bytes of the stream the ring holds fit into it.
LEMMA TxOkBounds ==
  ASSUME NEW s \in Sock, NEW l \in LibSock, NEW tb,
         NEW qt \in Nat, NEW back \in Nat, NEW w \in Nat, NEW a \in Nat,
         TxOk(s, tb, l, qt, back, w, a)
  PROVE  a <= w /\ w - a + back <= l.tx_avail /\ l.tx_avail <= TxLen
<1>1. /\ s.tx_pending \in Nat /\ s.tx_avail \in Nat /\ l.tx_bump_pending \in Nat
  BY SockFields, LibFields
<1> QED
  BY <1>1, SMTT(40) DEF TxOk

\* And so do those the library has to read.
LEMMA RxOkBounds ==
  ASSUME NEW s \in Sock, NEW l \in LibSock, NEW rb,
         NEW qr \in Nat, NEW ready \in Nat, NEW g \in Nat, NEW r \in Nat,
         RxOk(s, rb, l, qr, ready, g, r)
  PROVE  l.rx_avail + ready <= RxLen
<1>1. s.rx_avail \in Nat /\ l.rx_bump_pending \in Nat /\ l.rx_avail \in Nat
  BY SockFields, LibFields
<1> QED
  BY <1>1, SockAssumption, SMTT(40) DEF RxOk, Told

\* An acknowledgement of n bytes, which the application may be told of.
LEMMA TxOkAck ==
  ASSUME NEW s \in Sock, NEW t \in Sock, NEW l \in LibSock, NEW tb,
         NEW qt \in Nat, NEW back \in Nat, NEW back2 \in Nat,
         NEW w \in Nat, NEW a \in Nat, NEW n \in Nat,
         TxOk(s, tb, l, qt, back, w, a),
         t.tx_pending + t.tx_avail = s.tx_pending + s.tx_avail - n,
         t.tx_head = At(a + n, TxLen),
         back2 <= back + n
  PROVE  TxOk(t, tb, l, qt, back2, w, a + n)
<1>1. /\ s.tx_pending \in Nat /\ s.tx_avail \in Nat
      /\ t.tx_pending \in Nat /\ t.tx_avail \in Nat
      /\ l.tx_bump_pending \in Nat /\ l.tx_avail \in Nat
  BY SockFields, LibFields
<1>2. \A i \in a + n + 1 .. w : tb[At(i - 1, TxLen)] = i
  BY SMTT(40) DEF TxOk
<1> QED
  BY <1>1, <1>2, SMTT(40) DEF TxOk

\* Where the fast path puts the next byte it receives.
LEMMA RxTailIs ==
  ASSUME NEW s \in Sock, NEW l \in LibSock, NEW rb,
         NEW qr \in Nat, NEW ready \in Nat, NEW g \in Nat, NEW r \in Nat,
         RxOk(s, rb, l, qr, ready, g, r)
  PROVE  RxTail(s) = At(r, RxLen)
<1> DEFINE f == Told(l, qr, g)
<1>1. /\ s.rx_avail \in Nat /\ s.rx_head \in Nat
      /\ l.rx_bump_pending \in Nat /\ l.rx_avail \in Nat
  BY SockFields, LibFields
<1>2. f \in Nat /\ s.rx_avail \in 0 .. RxLen
  BY <1>1, SockAssumption, SMTT(40) DEF RxOk, Told
<1>3. f + s.rx_avail = r /\ s.rx_head = At(f, RxLen)
  BY <1>1, <1>2, SMTT(40) DEF RxOk
<1> HIDE DEF f
<1>4. At(f + s.rx_avail, RxLen) = WrapOnce(At(f, RxLen) + s.rx_avail, RxLen)
  BY <1>2, SockAssumption, AtAdd
<1> QED
  BY <1>3, <1>4 DEF RxTail

\* Where it takes the next byte it sends from.
LEMMA TxPosIs ==
  ASSUME NEW s \in Sock, NEW a \in Nat, InRings(s), s.tx_head = At(a, TxLen)
  PROVE  TxPos(s) = At(a + s.tx_pending, TxLen)
<1>1. s.tx_pending \in 0 .. TxLen
  BY SockFields, SockAssumption, SMTT(40) DEF InRings
<1>2. At(a + s.tx_pending, TxLen) = WrapOnce(At(a, TxLen) + s.tx_pending, TxLen)
  BY <1>1, SockAssumption, AtAdd
<1> QED
  BY <1>2 DEF TxPos

\* n bytes received behind byte r, which the application may be told of.
LEMMA RxOkReceive ==
  ASSUME NEW s \in Sock, NEW t \in Sock, NEW l \in LibSock, NEW rb, NEW rb2,
         NEW qr \in Nat, NEW ready \in Nat, NEW ready2 \in Nat,
         NEW g \in Nat, NEW r \in Nat, NEW n \in Nat,
         RxOk(s, rb, l, qr, ready, g, r),
         \A i \in Told(l, qr, g) + 1 .. r + n : rb2[At(i - 1, RxLen)] = i,
         t.rx_avail = s.rx_avail + n, t.rx_head = s.rx_head,
         t.rx_avail <= RxLen, ready2 <= ready + n
  PROVE  RxOk(t, rb2, l, qr, ready2, g, r + n)
<1>1. /\ s.rx_avail \in Nat /\ s.rx_head \in Nat
      /\ l.rx_bump_pending \in Nat /\ l.rx_avail \in Nat
  BY SockFields, LibFields
<1>2. Told(l, qr, g) \in Nat
  BY <1>1, SMTT(40) DEF RxOk, Told
<1> QED
  BY <1>1, <1>2, SMTT(40) DEF RxOk

\* The application writes n bytes behind byte w.
LEMMA TxOkWrite ==
  ASSUME NEW s \in Sock, NEW l \in LibSock, NEW l2 \in LibSock, NEW tb, NEW tb2,
         NEW qt \in Nat, NEW back \in Nat, NEW w \in Nat, NEW a \in Nat,
         NEW n \in Nat,
         TxOk(s, tb, l, qt, back, w, a),
         l.tx_avail + n <= TxLen,
         \A i \in a + 1 .. w + n : tb2[At(i - 1, TxLen)] = i,
         l2.tx_head = l.tx_head, l2.tx_avail = l.tx_avail + n,
         l2.tx_bump_pending = l.tx_bump_pending + n
  PROVE  TxOk(s, tb2, l2, qt, back, w + n, a)
<1>1. /\ s.tx_pending \in Nat /\ s.tx_avail \in Nat
      /\ l.tx_bump_pending \in Nat /\ l.tx_avail \in Nat /\ l.tx_head \in Nat
  BY SockFields, LibFields
<1>2. WrapOnce(l2.tx_head + l2.tx_avail, TxLen) = At(w + n, TxLen)
  <2>1. n \in 0 .. TxLen
    BY <1>1, SockAssumption, SMTT(40)
  <2>2. At(w + n, TxLen) = WrapOnce(At(w, TxLen) + n, TxLen)
    BY <2>1, SockAssumption, AtAdd
  <2>3. /\ At(w, TxLen) = WrapOnce(l.tx_head + l.tx_avail, TxLen)
        /\ l.tx_head < TxLen
    BY DEF TxOk
  <2> QED
    BY <1>1, <2>1, <2>2, <2>3, SockAssumption, SMTT(40) DEF WrapOnce
<1> QED
  BY <1>1, <1>2, SockAssumption, SMTT(40) DEF TxOk

\* The application reads n bytes.
LEMMA RxOkRead ==
  ASSUME NEW s \in Sock, NEW l \in LibSock, NEW l2 \in LibSock, NEW rb,
         NEW qr \in Nat, NEW ready \in Nat, NEW g \in Nat, NEW r \in Nat,
         NEW n \in Nat,
         RxOk(s, rb, l, qr, ready, g, r),
         n <= l.rx_avail,
         l2.rx_head = WrapOnce(l.rx_head + n, RxLen),
         l2.rx_avail = l.rx_avail - n,
         l2.rx_bump_pending = l.rx_bump_pending + n
  PROVE  RxOk(s, rb, l2, qr, ready, g + n, r)
<1>1. /\ s.rx_avail \in Nat /\ s.rx_head \in Nat
      /\ l.rx_bump_pending \in Nat /\ l.rx_avail \in Nat
  BY SockFields, LibFields
<1>2. Told(l, qr, g) \in Nat /\ Told(l2, qr, g + n) = Told(l, qr, g)
  BY <1>1, SMTT(40) DEF RxOk, Told
<1>3. n \in 0 .. RxLen
  BY <1>1, SockAssumption, SMTT(40) DEF RxOk, Told
<1>4. At(g + n, RxLen) = WrapOnce(At(g, RxLen) + n, RxLen)
  BY <1>3, SockAssumption, AtAdd
<1> QED
  BY <1>1, <1>2, <1>4, SMTT(40) DEF RxOk

\* The library takes an APP_TX bump of n bytes ...
LEMMA TxOkBack ==
  ASSUME NEW s \in Sock, NEW l \in LibSock, NEW l2 \in LibSock, NEW tb,
         NEW qt \in Nat, NEW back \in Nat, NEW back2 \in Nat,
         NEW w \in Nat, NEW a \in Nat, NEW n \in Nat,
         TxOk(s, tb, l, qt, back, w, a), a <= w,
         back = back2 + n,
         l2.tx_head = WrapOnce(l.tx_head + n, TxLen),
         l2.tx_avail = l.tx_avail - n,
         l2.tx_bump_pending = l.tx_bump_pending
  PROVE  TxOk(s, tb, l2, qt, back2, w, a)
<1>1. /\ s.tx_pending \in Nat /\ s.tx_avail \in Nat
      /\ l.tx_bump_pending \in Nat /\ l.tx_avail \in Nat /\ l.tx_head \in Nat
  BY SockFields, LibFields
<1>2. n <= l.tx_avail /\ l.tx_avail <= TxLen /\ l.tx_head < TxLen
  BY <1>1, SMTT(40) DEF TxOk
<1>3. /\ l2.tx_head < TxLen
      /\ WrapOnce(l2.tx_head + l2.tx_avail, TxLen) =
           WrapOnce(l.tx_head + l.tx_avail, TxLen)
  BY <1>1, <1>2, SockAssumption, SMTT(40) DEF WrapOnce
<1> QED
  BY <1>1, <1>2, <1>3, SockAssumption, SMTT(40) DEF TxOk

\* ... or an APP_RX bump.
LEMMA RxOkReady ==
  ASSUME NEW s \in Sock, NEW l \in LibSock, NEW l2 \in LibSock, NEW rb,
         NEW qr \in Nat, NEW ready \in Nat, NEW ready2 \in Nat,
         NEW g \in Nat, NEW r \in Nat, NEW n \in Nat,
         RxOk(s, rb, l, qr, ready, g, r),
         ready = ready2 + n,
         l2.rx_head = l.rx_head, l2.rx_avail = l.rx_avail + n,
         l2.rx_bump_pending = l.rx_bump_pending
  PROVE  RxOk(s, rb, l2, qr, ready2, g, r)
<1>1. /\ s.rx_avail \in Nat /\ s.rx_head \in Nat
      /\ l.rx_bump_pending \in Nat /\ l.rx_avail \in Nat
  BY SockFields, LibFields
<1>2. Told(l, qr, g) \in Nat /\ Told(l2, qr, g) = Told(l, qr, g)
  BY <1>1, SMTT(40) DEF RxOk, Told
<1> QED
  BY <1>1, <1>2, SMTT(40) DEF RxOk

\* The fast path takes a CHAM_TX bump of n bytes ...
LEMMA TxOkQueued ==
  ASSUME NEW s \in Sock, NEW t \in Sock, NEW l \in LibSock, NEW tb,
         NEW qt \in Nat, NEW qt2 \in Nat, NEW back \in Nat,
         NEW w \in Nat, NEW a \in Nat, NEW n \in Nat,
         TxOk(s, tb, l, qt, back, w, a),
         qt = qt2 + n,
         t.tx_head = s.tx_head,
         t.tx_pending + t.tx_avail = s.tx_pending + s.tx_avail + n
  PROVE  TxOk(t, tb, l, qt2, back, w, a)
<1>1. /\ s.tx_pending \in Nat /\ s.tx_avail \in Nat
      /\ t.tx_pending \in Nat /\ t.tx_avail \in Nat
      /\ l.tx_bump_pending \in Nat /\ l.tx_avail \in Nat
  BY SockFields, LibFields
<1> QED
  BY <1>1, SMTT(40) DEF TxOk

\* ... or a CHAM_RX bump.
LEMMA RxOkFreed ==
  ASSUME NEW s \in Sock, NEW t \in Sock, NEW l \in LibSock, NEW rb,
         NEW qr \in Nat, NEW qr2 \in Nat, NEW ready \in Nat,
         NEW g \in Nat, NEW r \in Nat, NEW n \in Nat,
         RxOk(s, rb, l, qr, ready, g, r),
         qr = qr2 + n,
         t.rx_head = WrapOnce(s.rx_head + n, RxLen),
         t.rx_avail = s.rx_avail - n
  PROVE  RxOk(t, rb, l, qr2, ready, g, r)
<1>1. /\ s.rx_avail \in Nat /\ s.rx_head \in Nat
      /\ l.rx_bump_pending \in Nat /\ l.rx_avail \in Nat
  BY SockFields, LibFields
<1>2. /\ Told(l, qr, g) \in Nat /\ Told(l, qr2, g) = Told(l, qr, g) + n
      /\ Told(l, qr2, g) <= r
  BY <1>1, SMTT(40) DEF RxOk, Told
<1>3. n \in 0 .. RxLen
  BY <1>1, <1>2, SockAssumption, SMTT(40) DEF RxOk
<1>4. t.rx_head = At(Told(l, qr2, g), RxLen)
  <2>1. PICK f \in Nat : f = Told(l, qr, g)
    BY <1>2
  <2>2. At(f + n, RxLen) = WrapOnce(At(f, RxLen) + n, RxLen)
    BY <1>3, SockAssumption, AtAdd
  <2>3. s.rx_head = At(f, RxLen)
    BY <2>1 DEF RxOk
  <2> QED
    BY <1>2, <2>1, <2>2, <2>3
<1>5. \A i \in Told(l, qr2, g) + 1 .. r : rb[At(i - 1, RxLen)] = i
  BY <1>2, SMTT(40) DEF RxOk
<1> QED
  BY <1>1, <1>2, <1>4, <1>5, SockAssumption, SMTT(40) DEF RxOk

\* The library queues what it has pending.
LEMMA TxOkFlushed ==
  ASSUME NEW s \in Sock, NEW l \in LibSock, NEW l2 \in LibSock, NEW tb,
         NEW qt \in Nat, NEW qt2 \in Nat, NEW back \in Nat,
         NEW w \in Nat, NEW a \in Nat,
         TxOk(s, tb, l, qt, back, w, a),
         l2.tx_head = l.tx_head, l2.tx_avail = l.tx_avail,
         qt2 + l2.tx_bump_pending = qt + l.tx_bump_pending
  PROVE  TxOk(s, tb, l2, qt2, back, w, a)
<1>1. /\ s.tx_pending \in Nat /\ s.tx_avail \in Nat
      /\ l.tx_bump_pending \in Nat /\ l2.tx_bump_pending \in Nat
  BY SockFields, LibFields
<1> QED
  BY <1>1, SMTT(40) DEF TxOk

LEMMA RxOkFlushed ==
  ASSUME NEW s \in Sock, NEW l \in LibSock, NEW l2 \in LibSock, NEW rb,
         NEW qr \in Nat, NEW qr2 \in Nat, NEW ready \in Nat,
         NEW g \in Nat, NEW r \in Nat,
         RxOk(s, rb, l, qr, ready, g, r),
         l2.rx_head = l.rx_head, l2.rx_avail = l.rx_avail,
         qr2 + l2.rx_bump_pending = qr + l.rx_bump_pending
  PROVE  RxOk(s, rb, l2, qr2, ready, g, r)
<1>1. /\ l.rx_bump_pending \in Nat /\ l2.rx_bump_pending \in Nat
  BY LibFields
<1>2. Told(l2, qr2, g) = Told(l, qr, g)
  BY <1>1, SMTT(40) DEF Told
<1> QED
  BY <1>2 DEF RxOk

\* sock_flush_bumps loses nothing: what is not queued stays pending.
SameBumps(l, q, l2, q2) ==
  /\ l2 \in LibSock
  /\ q2 \in Seq(Bump)
  /\ l2.tx_head = l.tx_head /\ l2.tx_avail = l.tx_avail
  /\ l2.rx_head = l.rx_head /\ l2.rx_avail = l.rx_avail
  /\ BumpSum(q2, "CHAM_TX") + l2.tx_bump_pending =
       BumpSum(q, "CHAM_TX") + l.tx_bump_pending
  /\ BumpSum(q2, "CHAM_RX") + l2.rx_bump_pending =
       BumpSum(q, "CHAM_RX") + l.rx_bump_pending

LEMMA FlushKeepsBumps ==
  ASSUME NEW l \in LibSock, NEW q \in Seq(Bump)
  PROVE  SameBumps(l, q, sock_flush_bumps(l, q).l, sock_flush_bumps(l, q).q)
<1> DEFINE tx == l.tx_bump_pending # 0 /\ Len(q) < AppFastLen
           q1 == IF tx THEN Append(q, [kind |-> "CHAM_TX", n |-> l.tx_bump_pending])
                 ELSE q
           rx == /\ l.rx_bump_pending # 0
                 /\ Len(q1) < AppFastLen
                 /\ l.tx_bump_pending = 0 \/ tx
           q2 == IF rx THEN Append(q1, [kind |-> "CHAM_RX", n |-> l.rx_bump_pending])
                 ELSE q1
           pt == IF tx THEN 0 ELSE l.tx_bump_pending
           pr == IF rx THEN 0 ELSE l.rx_bump_pending
           l2 == [l EXCEPT !.tx_bump_pending = pt, !.rx_bump_pending = pr]
<1>1. sock_flush_bumps(l, q).l = l2 /\ sock_flush_bumps(l, q).q = q2
  BY DEF sock_flush_bumps
<1>2. l.tx_bump_pending \in Nat /\ l.rx_bump_pending \in Nat
  BY LibFields
<1>3. /\ q1 \in Seq(Bump)
      /\ BumpSum(q1, "CHAM_TX") + pt = BumpSum(q, "CHAM_TX") + l.tx_bump_pending
      /\ BumpSum(q1, "CHAM_RX") = BumpSum(q, "CHAM_RX")
  <2>1. BumpSum(q, "CHAM_TX") \in Nat /\ BumpSum(q, "CHAM_RX") \in Nat
    BY SumsType
  <2>2. CASE tx
    <3> DEFINE p == Append(q, [kind |-> "CHAM_TX", n |-> l.tx_bump_pending])
    <3>1. /\ p \in Seq(Bump)
          /\ \A k \in BumpKinds : BumpSum(p, k) = BumpSum(q, k)
               + (IF k = "CHAM_TX" THEN l.tx_bump_pending ELSE 0)
      BY <1>2, SumsAppend DEF BumpKinds
    <3> HIDE DEF p
    <3>2. /\ BumpSum(p, "CHAM_TX") = BumpSum(q, "CHAM_TX") + l.tx_bump_pending
          /\ BumpSum(p, "CHAM_RX") = BumpSum(q, "CHAM_RX") + 0
      BY <3>1 DEF BumpKinds
    <3>3. q1 = p /\ pt = 0
      BY <2>2 DEF p
    <3> HIDE DEF q1, pt
    <3>4. q1 \in Seq(Bump)
      BY <3>1, <3>3
    <3>5. BumpSum(q1, "CHAM_TX") + pt = BumpSum(q, "CHAM_TX") + l.tx_bump_pending
      BY <1>2, <2>1, <3>2, <3>3, SMTT(40)
    <3>6. BumpSum(q1, "CHAM_RX") = BumpSum(q, "CHAM_RX")
      BY <2>1, <3>2, <3>3, SMTT(40)
    <3> QED
      BY <3>4, <3>5, <3>6
  <2>3. CASE ~tx
    BY <2>3
  <2> QED
    BY <2>2, <2>3
<1> HIDE DEF q1, tx
<1>4. /\ q2 \in Seq(Bump)
      /\ BumpSum(q2, "CHAM_RX") + pr = BumpSum(q1, "CHAM_RX") + l.rx_bump_pending
      /\ BumpSum(q2, "CHAM_TX") = BumpSum(q1, "CHAM_TX")
  <2>1. BumpSum(q1, "CHAM_TX") \in Nat /\ BumpSum(q1, "CHAM_RX") \in Nat
    BY <1>3, SumsType
  <2>2. CASE rx
    <3> DEFINE p == Append(q1, [kind |-> "CHAM_RX", n |-> l.rx_bump_pending])
    <3>1. /\ p \in Seq(Bump)
          /\ \A k \in BumpKinds : BumpSum(p, k) = BumpSum(q1, k)
               + (IF k = "CHAM_RX" THEN l.rx_bump_pending ELSE 0)
      BY <1>2, <1>3, SumsAppend DEF BumpKinds
    <3> HIDE DEF p
    <3>2. /\ BumpSum(p, "CHAM_RX") = BumpSum(q1, "CHAM_RX") + l.rx_bump_pending
          /\ BumpSum(p, "CHAM_TX") = BumpSum(q1, "CHAM_TX") + 0
      BY <3>1 DEF BumpKinds
    <3>3. q2 = p /\ pr = 0
      BY <2>2 DEF p
    <3> HIDE DEF q2, pr
    <3>4. q2 \in Seq(Bump)
      BY <3>1, <3>3
    <3>5. BumpSum(q2, "CHAM_RX") + pr = BumpSum(q1, "CHAM_RX") + l.rx_bump_pending
      BY <1>2, <2>1, <3>2, <3>3, SMTT(40)
    <3>6. BumpSum(q2, "CHAM_TX") = BumpSum(q1, "CHAM_TX")
      BY <2>1, <3>2, <3>3, SMTT(40)
    <3> QED
      BY <3>4, <3>5, <3>6
  <2>3. CASE ~rx
    BY <1>3, <2>3
  <2> QED
    BY <2>2, <2>3
<1>5. pt \in Nat /\ pr \in Nat
  BY <1>2
<1> HIDE DEF q2, pt, pr, rx
<1>6. /\ l2 \in LibSock
      /\ l2.tx_head = l.tx_head /\ l2.tx_avail = l.tx_avail
      /\ l2.rx_head = l.rx_head /\ l2.rx_avail = l.rx_avail
      /\ l2.tx_bump_pending = pt /\ l2.rx_bump_pending = pr
  BY <1>5 DEF LibSock
<1> HIDE DEF l2
<1>7. SameBumps(l, q, l2, q2)
  BY <1>3, <1>4, <1>6 DEF SameBumps
<1> QED
  BY <1>1, <1>7

-----------------------------------------------------------------------------
(* The invariant, step by step *)

LEMMA PeerFacts ==
  ASSUME NEW e \in Ends
  PROVE  /\ Peer(e) \in Ends /\ Peer(e) # e /\ Peer(Peer(e)) = e
         /\ \A d \in Ends : d = e \/ d = Peer(e)
         /\ Iss[e] \in SeqNos
BY DataAssumption DEF Ends, Peer, SeqNos

LEMMA LoadFacts ==
  ASSUME TypeInv, NEW e \in Ends
  PROVE  /\ load.bytes[e] \in Nat /\ 2 * load.bytes[e] < SeqModulus
         /\ load.paylen \in Nat \ {0} /\ load.net \in Nat /\ load.bumps \in Nat
<1>1. load \in Loads
  BY DEF TypeInv
<1>2. load.bytes \in [Ends -> Nat]
  BY <1>1, DataAssumption
<1> QED
  BY <1>1, <1>2, DataAssumption

\* The types of what one end consists of.
LEMMA EndTypes ==
  ASSUME TypeInv, NEW e \in Ends
  PROVE  /\ sock[e] \in Sock
         /\ lib[e] \in LibSock
         /\ txbuf[e] \in [0 .. TxLen - 1 -> Nat]
         /\ rxbuf[e] \in [0 .. RxLen - 1 -> Nat]
         /\ app_fast[e] \in Seq(Bump)
         /\ fast_app[e] \in Seq(Bump)
         /\ polling[e] \in {"out", "poll", "handled"}
         /\ wrote[e] \in Nat
         /\ got[e] \in Seq(Nat)
         /\ net[e] \in Seq(Segment)
BY DEF TypeInv

LEMMA UnhandledType ==
  ASSUME TypeInv, NEW e \in Ends
  PROVE  Unhandled(e) \in Seq(Bump)
<1>1. fast_app[e] \in Seq(Bump)
  BY EndTypes
<1>2. polling[e] = "handled" => fast_app[e] # <<>>
  BY DEF TypeInv
<1>3. fast_app[e] # <<>> => Tail(fast_app[e]) \in Seq(Bump)
  BY <1>1, SMTT(40)
<1> QED
  BY <1>1, <1>2, <1>3 DEF Unhandled

\* The numbers the proofs about one end calculate with.
LEMMA EndNumbers ==
  ASSUME TypeInv, NEW e \in Ends
  PROVE  /\ BumpSum(app_fast[e], "CHAM_TX") \in Nat
         /\ BumpSum(app_fast[e], "CHAM_RX") \in Nat
         /\ BumpSum(Unhandled(e), "APP_TX") \in Nat
         /\ BumpSum(Unhandled(e), "APP_RX") \in Nat
         /\ Len(got[e]) \in Nat
         /\ Una(sock[e], Iss[e]) \in SeqNos
         /\ Nxt(sock[e], Iss[Peer(e)]) \in SeqNos
         /\ Una(sock[e], Iss[e]) \in Nat
         /\ Nxt(sock[e], Iss[Peer(e)]) \in Nat
<1>1. app_fast[e] \in Seq(Bump) /\ Unhandled(e) \in Seq(Bump) /\ got[e] \in Seq(Nat)
  BY EndTypes, UnhandledType
<1>2. sock[e].tx_seq \in SeqNos /\ sock[e].rx_seq \in SeqNos
  BY EndTypes, SockFields
<1>3. Iss[e] \in SeqNos /\ Iss[Peer(e)] \in SeqNos
  BY PeerFacts
<1>4. /\ Una(sock[e], Iss[e]) \in SeqNos
      /\ Nxt(sock[e], Iss[Peer(e)]) \in SeqNos
  BY <1>2, <1>3, PosOfSeq DEF Una, Nxt
<1>5. /\ Una(sock[e], Iss[e]) \in Nat
      /\ Nxt(sock[e], Iss[Peer(e)]) \in Nat
  BY <1>4, SockAssumption, SMTT(40) DEF SeqNos
<1>6. /\ BumpSum(app_fast[e], "CHAM_TX") \in Nat
      /\ BumpSum(app_fast[e], "CHAM_RX") \in Nat
      /\ BumpSum(Unhandled(e), "APP_TX") \in Nat
      /\ BumpSum(Unhandled(e), "APP_RX") \in Nat
  BY <1>1, SumsType
<1>7. Len(got[e]) \in Nat
  BY <1>1, SMTT(40)
<1> QED
  BY <1>4, <1>5, <1>6, <1>7

\* What the invariant says of one end: the socket is within its rings, and
\* what it owns of the stream is in the first half of the sequence space.
LEMMA EndFacts ==
  ASSUME TypeInv, NEW e \in Ends, EndOk(e)
  PROVE  /\ InRings(sock[e])
         /\ Top(sock[e], Iss[e]) \in Nat
         /\ Top(sock[e], Iss[e]) <= wrote[e]
         /\ 2 * Top(sock[e], Iss[e]) < SeqModulus
         /\ Told(lib[e], BumpSum(app_fast[e], "CHAM_RX"), Len(got[e])) \in 0 .. Len(got[e])
         /\ Len(got[e]) <= Nxt(sock[e], Iss[Peer(e)])
<1> DEFINE a == Una(sock[e], Iss[e])
           r == Nxt(sock[e], Iss[Peer(e)])
           qt == BumpSum(app_fast[e], "CHAM_TX")
           qr == BumpSum(app_fast[e], "CHAM_RX")
           back == BumpSum(Unhandled(e), "APP_TX")
           ready == BumpSum(Unhandled(e), "APP_RX")
           g == Len(got[e])
           s == sock[e]
           l == lib[e]
           w == wrote[e]
<1>1. s \in Sock /\ l \in LibSock /\ w \in Nat
  BY EndTypes
<1>2. /\ a \in Nat /\ r \in Nat /\ qt \in Nat /\ qr \in Nat /\ back \in Nat
      /\ ready \in Nat /\ g \in Nat
  BY EndNumbers
<1>3. /\ TxOk(s, txbuf[e], l, qt, back, w, a) /\ RxOk(s, rxbuf[e], l, qr, ready, g, r)
      /\ w <= load.bytes[e]
  BY DEF EndOk
<1>4. Top(s, Iss[e]) = a + s.tx_pending + s.tx_avail
  BY DEF Top
<1>5. load.bytes[e] \in Nat /\ 2 * load.bytes[e] < SeqModulus
  BY LoadFacts
<1> HIDE DEF a, r, qt, qr, back, ready, g, s, l, w
<1>6. /\ InRings(s) /\ a + s.tx_pending + s.tx_avail <= w
      /\ Told(l, qr, g) \in 0 .. g /\ g <= r
  BY <1>1, <1>2, <1>3, OkInRings
<1>7. a + s.tx_pending + s.tx_avail \in Nat
  BY <1>1, <1>2, SockFields, SMTT(40)
<1>8. Top(s, Iss[e]) \in Nat /\ Top(s, Iss[e]) <= w /\ 2 * Top(s, Iss[e]) < SeqModulus
  BY <1>1, <1>3, <1>4, <1>5, <1>6, <1>7, SockAssumption, SMTT(40)
<1> QED
  BY <1>6, <1>8 DEF a, r, qt, qr, back, ready, g, s, l, w

\* A segment stays one of the stream when there is more to send or to
\* acknowledge.
LEMMA SegOkMonotone ==
  ASSUME NEW m, NEW iss, NEW ack0, NEW top \in Nat, NEW nxt \in Nat,
         NEW top2 \in Nat, NEW nxt2 \in Nat, top <= top2, nxt <= nxt2,
         SegOk(m, iss, top, ack0, nxt), Len(m.data) \in Nat
  PROVE  SegOk(m, iss, top2, ack0, nxt2)
<1>1. PICK off \in 0 .. top :
        /\ m.seq = SeqAdd(iss, off)
        /\ off + Len(m.data) <= top
        /\ \A i \in 1 .. Len(m.data) : m.data[i] = off + i
  BY DEF SegOk
<1>2. PICK k \in 0 .. nxt : m.ack = SeqAdd(ack0, k)
  BY DEF SegOk
<1>3. off \in 0 .. top2 /\ off + Len(m.data) <= top2 /\ k \in 0 .. nxt2
  BY <1>1, <1>2, SMTT(40)
<1> QED
  BY <1>1, <1>2, <1>3 DEF SegOk

\* A step leaves what end d consists of alone.
EndSame(d) ==
  /\ sock'[d] = sock[d] /\ txbuf'[d] = txbuf[d] /\ rxbuf'[d] = rxbuf[d]
  /\ lib'[d] = lib[d] /\ app_fast'[d] = app_fast[d]
  /\ Unhandled(d)' = Unhandled(d)
  /\ wrote'[d] = wrote[d] /\ got'[d] = got[d]
  /\ d \in dropped' <=> d \in dropped
  /\ d \in sched' <=> d \in sched

LEMMA EndSameOk ==
  ASSUME NEW d \in Ends, EndOk(d), EndSame(d), load' = load
  PROVE  EndOk(d)'
BY DEF EndSame, EndOk

\* An end's step that keeps its half of the invariant keeps all of it if the
\* end only moves forward in both streams, within what the peer knows, and
\* sends segments of its stream.
Forward(e) ==
  /\ Una(sock[e], Iss[e]) <= Una(sock'[e], Iss[e])
  /\ Una(sock'[e], Iss[e]) <= Nxt(sock[Peer(e)], Iss[e])
  /\ Top(sock[e], Iss[e]) <= Top(sock'[e], Iss[e])
  /\ Nxt(sock[e], Iss[Peer(e)]) <= Nxt(sock'[e], Iss[Peer(e)])
  /\ Nxt(sock'[e], Iss[Peer(e)]) <= Top(sock[Peer(e)], Iss[Peer(e)])

SendsOk(e) ==
  /\ \A m \in Segs(net'[e]) : m \in Segs(net[e])
  /\ \A m \in Segs(net'[Peer(e)]) :
       \/ m \in Segs(net[Peer(e)])
       \/ SegOk(m, Iss[e], Top(sock'[e], Iss[e]),
                Iss[Peer(e)], Nxt(sock'[e], Iss[Peer(e)]))

LEMMA LeqTrans ==
  ASSUME NEW a \in Nat, NEW b \in Nat, NEW c \in Nat, a <= b, b <= c
  PROVE  a <= c
BY SMTT(40)

LEMMA OneEnd ==
  ASSUME IInv, NEW e \in Ends, TypeInv', load' = load, EndSame(Peer(e)),
         EndOk(e)', Forward(e), SendsOk(e)
  PROVE  IInv'
<1> DEFINE p == Peer(e)
<1>1. /\ p \in Ends /\ p # e /\ Peer(p) = e
      /\ \A d \in Ends : d = e \/ d = p
  BY PeerFacts
<1>2. TypeInv /\ EndOk(e) /\ EndOk(p) /\ PairOk(e) /\ PairOk(p) /\ NetOk(e) /\ NetOk(p)
  BY <1>1 DEF IInv
<1>3. EndOk(p)'
  BY <1>1, <1>2, EndSameOk
<1>4. sock'[p] = sock[p]
  BY DEF EndSame
<1>5. /\ Una(sock[p], Iss[p]) \in Nat /\ Una(sock[e], Iss[e]) \in Nat
      /\ Nxt(sock[p], Iss[e]) \in Nat /\ Nxt(sock[e], Iss[p]) \in Nat
      /\ Top(sock[p], Iss[p]) \in Nat /\ Top(sock[e], Iss[e]) \in Nat
  BY <1>1, <1>2, EndNumbers, EndFacts
<1>6. /\ Una(sock'[e], Iss[e]) \in Nat /\ Nxt(sock'[e], Iss[p]) \in Nat
      /\ Top(sock'[e], Iss[e]) \in Nat
  <2>1. sock'[e] \in Sock
    BY DEF TypeInv
  <2>2. sock'[e].tx_seq \in SeqNos /\ sock'[e].rx_seq \in SeqNos
        /\ sock'[e].tx_pending \in Nat /\ sock'[e].tx_avail \in Nat
    BY <2>1, SockFields
  <2>3. Una(sock'[e], Iss[e]) \in SeqNos /\ Nxt(sock'[e], Iss[p]) \in SeqNos
    BY <1>1, <2>2, PeerFacts, PosOfSeq DEF Una, Nxt
  <2>4. Una(sock'[e], Iss[e]) \in Nat /\ Nxt(sock'[e], Iss[p]) \in Nat
    BY <2>3, SockAssumption, SMTT(40) DEF SeqNos
  <2> QED
    BY <2>2, <2>4, SMTT(40) DEF Top
<1>7. PairOk(e)'
  <2>1. /\ Una(sock'[e], Iss[e]) <= Nxt(sock[p], Iss[e])
        /\ Nxt(sock[p], Iss[e]) <= Top(sock[e], Iss[e])
        /\ Top(sock[e], Iss[e]) <= Top(sock'[e], Iss[e])
    BY <1>2 DEF PairOk, Forward
  <2>2. /\ Una(sock'[e], Iss[e]) <= Nxt(sock'[p], Iss[e])
        /\ Nxt(sock'[p], Iss[e]) <= Top(sock'[e], Iss[e])
    BY <1>4, <1>5, <1>6, <2>1, LeqTrans
  <2> QED
    BY <2>2 DEF PairOk
<1>8. PairOk(p)'
  <2>1. /\ Una(sock[p], Iss[p]) <= Nxt(sock[e], Iss[p])
        /\ Nxt(sock[e], Iss[p]) <= Nxt(sock'[e], Iss[p])
        /\ Nxt(sock'[e], Iss[p]) <= Top(sock[p], Iss[p])
    BY <1>1, <1>2 DEF PairOk, Forward
  <2>2. /\ Una(sock'[p], Iss[p]) <= Nxt(sock'[e], Iss[p])
        /\ Nxt(sock'[e], Iss[p]) <= Top(sock'[p], Iss[p])
    BY <1>4, <1>5, <1>6, <2>1, LeqTrans
  <2> QED
    BY <1>1, <2>2 DEF PairOk
<1>9. NetOk(e)'
  <2>1. ASSUME NEW m \in Segs(net'[e])
        PROVE  SegOk(m, Iss[p], Top(sock'[p], Iss[p]), Iss[e], Nxt(sock'[p], Iss[e]))
    BY <1>2, <1>4 DEF NetOk, SendsOk
  <2> QED
    BY <2>1 DEF NetOk
<1>10. NetOk(p)'
  <2>1. ASSUME NEW m \in Segs(net'[p])
        PROVE  SegOk(m, Iss[e], Top(sock'[e], Iss[e]), Iss[p], Nxt(sock'[e], Iss[p]))
    <3>1. CASE m \in Segs(net[p])
      <4>1. SegOk(m, Iss[e], Top(sock[e], Iss[e]), Iss[p], Nxt(sock[e], Iss[p]))
        BY <1>1, <1>2, <3>1 DEF NetOk
      <4>2. Len(m.data) \in Nat
        <5>1. net[p] \in Seq(Segment)
          BY <1>1, <1>2, EndTypes
        <5>2. m \in Segment
          BY <3>1, <5>1, SMTT(40) DEF Segs
        <5>3. m.data \in Seq(Nat)
          BY <5>2 DEF Segment
        <5> QED
          BY <5>3, SMTT(40)
      <4>3. /\ Top(sock[e], Iss[e]) <= Top(sock'[e], Iss[e])
            /\ Nxt(sock[e], Iss[p]) <= Nxt(sock'[e], Iss[p])
        BY DEF Forward
      <4> QED
        BY <1>5, <1>6, <4>1, <4>2, <4>3, SegOkMonotone
    <3>2. CASE m \notin Segs(net[p])
      BY <3>2 DEF SendsOk
    <3> QED
      BY <3>1, <3>2
  <2> QED
    BY <1>1, <2>1 DEF NetOk
<1> QED
  BY <1>1, <1>3, <1>7, <1>8, <1>9, <1>10 DEF IInv

\* A step that acknowledges nothing and receives nothing.
LEMMA Stays ==
  ASSUME IInv, NEW e \in Ends,
         Una(sock'[e], Iss[e]) = Una(sock[e], Iss[e]),
         Nxt(sock'[e], Iss[Peer(e)]) = Nxt(sock[e], Iss[Peer(e)]),
         \/ Top(sock'[e], Iss[e]) = Top(sock[e], Iss[e])
         \/ Top(sock[e], Iss[e]) <= Top(sock'[e], Iss[e])
  PROVE  Forward(e)
<1>1. TypeInv /\ EndOk(e) /\ PairOk(e) /\ PairOk(Peer(e)) /\ Peer(Peer(e)) = e
  BY PeerFacts DEF IInv
<1>2. /\ Una(sock[e], Iss[e]) \in Nat /\ Nxt(sock[e], Iss[Peer(e)]) \in Nat
      /\ Top(sock[e], Iss[e]) \in Nat
  BY <1>1, EndNumbers, EndFacts
<1>3. /\ Una(sock[e], Iss[e]) <= Una(sock[e], Iss[e])
      /\ Nxt(sock[e], Iss[Peer(e)]) <= Nxt(sock[e], Iss[Peer(e)])
      /\ Top(sock[e], Iss[e]) <= Top(sock[e], Iss[e])
  BY <1>2, SMTT(40)
<1> QED
  BY <1>1, <1>3 DEF Forward, PairOk

\* Steps of the library, which leave the socket and the network alone.
LEMMA LibStep ==
  ASSUME IInv, NEW e \in Ends, TypeInv', UNCHANGED <<sock, net, load>>,
         EndSame(Peer(e)), EndOk(e)'
  PROVE  IInv'
<1>1. Forward(e)
  BY Stays
<1>2. SendsOk(e)
  BY DEF SendsOk
<1> QED
  BY <1>1, <1>2, OneEnd

\* The sums are numbers after a step, too.
LEMMA EndNumbersNext ==
  ASSUME TypeInv', NEW e \in Ends
  PROVE  /\ app_fast'[e] \in Seq(Bump)
         /\ Unhandled(e)' \in Seq(Bump)
         /\ BumpSum(app_fast'[e], "CHAM_TX") \in Nat
         /\ BumpSum(app_fast'[e], "CHAM_RX") \in Nat
         /\ BumpSum(Unhandled(e)', "APP_TX") \in Nat
         /\ BumpSum(Unhandled(e)', "APP_RX") \in Nat
         /\ Len(got'[e]) \in Nat
         /\ wrote'[e] \in Nat
<1>1. /\ app_fast'[e] \in Seq(Bump) /\ fast_app'[e] \in Seq(Bump)
      /\ got'[e] \in Seq(Nat) /\ wrote'[e] \in Nat
      /\ polling'[e] = "handled" => fast_app'[e] # <<>>
  BY DEF TypeInv
<1>2. fast_app'[e] # <<>> => Tail(fast_app'[e]) \in Seq(Bump)
  BY <1>1, SMTT(40)
<1>3. Unhandled(e)' \in Seq(Bump)
  BY <1>1, <1>2 DEF Unhandled
<1>4. /\ BumpSum(app_fast'[e], "CHAM_TX") \in Nat
      /\ BumpSum(app_fast'[e], "CHAM_RX") \in Nat
      /\ BumpSum(Unhandled(e)', "APP_TX") \in Nat
      /\ BumpSum(Unhandled(e)', "APP_RX") \in Nat
  BY <1>1, <1>3, SumsType
<1>5. Len(got'[e]) \in Nat
  BY <1>1, SMTT(40)
<1> QED
  BY <1>1, <1>3, <1>4, <1>5

LEMMA SetLibIs ==
  ASSUME TypeInv, NEW e \in Ends, NEW l \in LibSock, NEW flush, SetLib(e, l, flush)
  PROVE  /\ SameBumps(l, app_fast[e], lib'[e], app_fast'[e])
         /\ lib' \in [Ends -> LibSock]
         /\ app_fast' \in [Ends -> Seq(Bump)]
         /\ lib'[Peer(e)] = lib[Peer(e)]
         /\ app_fast'[Peer(e)] = app_fast[Peer(e)]
<1> DEFINE f == IF flush THEN sock_flush_bumps(l, app_fast[e])
                ELSE [l |-> l, q |-> app_fast[e]]
<1>1. /\ lib \in [Ends -> LibSock] /\ app_fast \in [Ends -> Seq(Bump)]
      /\ app_fast[e] \in Seq(Bump)
  BY DEF TypeInv
<1>2. SameBumps(l, app_fast[e], f.l, f.q)
  <2>1. CASE flush
    BY <1>1, <2>1, FlushKeepsBumps
  <2>2. CASE ~flush
    <3>1. f.l = l /\ f.q = app_fast[e]
      BY <2>2
    <3> HIDE DEF f
    <3> QED
      BY <1>1, <3>1 DEF SameBumps
  <2> QED
    BY <2>1, <2>2
<1>3. lib' = [lib EXCEPT ![e] = f.l] /\ app_fast' = [app_fast EXCEPT ![e] = f.q]
  BY DEF SetLib
<1>4. Peer(e) \in Ends /\ Peer(e) # e
  BY PeerFacts
<1> HIDE DEF f
<1>5. f.l \in LibSock /\ f.q \in Seq(Bump)
  BY <1>2 DEF SameBumps
<1>6. lib'[e] = f.l /\ app_fast'[e] = f.q
  BY <1>1, <1>3
<1> QED
  BY <1>1, <1>2, <1>3, <1>4, <1>5, <1>6

\* After a step of the library: what holds before the bumps are queued holds
\* after it.
LEMMA LibEndOk ==
  ASSUME TypeInv, TypeInv', NEW e \in Ends, NEW l \in LibSock,
         SameBumps(l, app_fast[e], lib'[e], app_fast'[e]),
         sock' = sock, load' = load, dropped' = dropped, sched' = sched, EndOk(e),
         TxOk(sock[e], txbuf'[e], l, BumpSum(app_fast[e], "CHAM_TX"),
              BumpSum(Unhandled(e)', "APP_TX"), wrote'[e], Una(sock[e], Iss[e])),
         RxOk(sock[e], rxbuf'[e], l, BumpSum(app_fast[e], "CHAM_RX"),
              BumpSum(Unhandled(e)', "APP_RX"), Len(got'[e]),
              Nxt(sock[e], Iss[Peer(e)])),
         e \notin dropped =>
           Exact(l, BumpSum(Unhandled(e)', "APP_TX"),
                 BumpSum(Unhandled(e)', "APP_RX"), wrote'[e],
                 Una(sock[e], Iss[e]), Len(got'[e]), Nxt(sock[e], Iss[Peer(e)])),
         \A i \in 1 .. Len(got'[e]) : got'[e][i] = i,
         wrote'[e] <= load.bytes[e]
  PROVE  EndOk(e)'
<1>1. sock[e] \in Sock
  BY EndTypes
<1>2. /\ Una(sock[e], Iss[e]) \in Nat /\ Nxt(sock[e], Iss[Peer(e)]) \in Nat
      /\ BumpSum(app_fast[e], "CHAM_TX") \in Nat
      /\ BumpSum(app_fast[e], "CHAM_RX") \in Nat
  BY EndNumbers
<1>3. /\ BumpSum(app_fast'[e], "CHAM_TX") \in Nat
      /\ BumpSum(app_fast'[e], "CHAM_RX") \in Nat
      /\ BumpSum(Unhandled(e)', "APP_TX") \in Nat
      /\ BumpSum(Unhandled(e)', "APP_RX") \in Nat
      /\ Len(got'[e]) \in Nat /\ wrote'[e] \in Nat
  BY EndNumbersNext
<1>4. /\ lib'[e] \in LibSock
      /\ lib'[e].tx_head = l.tx_head /\ lib'[e].tx_avail = l.tx_avail
      /\ lib'[e].rx_head = l.rx_head /\ lib'[e].rx_avail = l.rx_avail
      /\ BumpSum(app_fast'[e], "CHAM_TX") + lib'[e].tx_bump_pending =
           BumpSum(app_fast[e], "CHAM_TX") + l.tx_bump_pending
      /\ BumpSum(app_fast'[e], "CHAM_RX") + lib'[e].rx_bump_pending =
           BumpSum(app_fast[e], "CHAM_RX") + l.rx_bump_pending
  BY DEF SameBumps
<1>5. TxOk(sock[e], txbuf'[e], lib'[e], BumpSum(app_fast'[e], "CHAM_TX"),
           BumpSum(Unhandled(e)', "APP_TX"), wrote'[e], Una(sock[e], Iss[e]))
  BY <1>1, <1>2, <1>3, <1>4, TxOkFlushed
<1>6. RxOk(sock[e], rxbuf'[e], lib'[e], BumpSum(app_fast'[e], "CHAM_RX"),
           BumpSum(Unhandled(e)', "APP_RX"), Len(got'[e]),
           Nxt(sock[e], Iss[Peer(e)]))
  BY <1>1, <1>2, <1>3, <1>4, RxOkFlushed
<1>7. e \notin dropped =>
        Exact(lib'[e], BumpSum(Unhandled(e)', "APP_TX"),
              BumpSum(Unhandled(e)', "APP_RX"), wrote'[e],
              Una(sock[e], Iss[e]), Len(got'[e]), Nxt(sock[e], Iss[Peer(e)]))
  BY <1>4 DEF Exact
<1>8. e \notin dropped /\ sock_sched_avail(sock[e]) > 0 => e \in sched
  BY DEF EndOk
<1> QED
  BY <1>5, <1>6, <1>7, <1>8 DEF EndOk

-----------------------------------------------------------------------------
(* Segments, and what a step of the fast path leaves alone *)

LEMMA SegsConcat ==
  ASSUME NEW q \in Seq(Segment), NEW p \in Seq(Segment)
  PROVE  /\ q \o p \in Seq(Segment)
         /\ \A m \in Segs(q \o p) : m \in Segs(q) \/ m \in Segs(p)
<1>1. q \o p \in Seq(Segment) /\ Len(q \o p) = Len(q) + Len(p)
  BY SMTT(40)
<1>2. Len(q) \in Nat /\ Len(p) \in Nat
  BY SMTT(40)
<1>3. ASSUME NEW i \in 1 .. Len(q) + Len(p)
      PROVE  (q \o p)[i] \in Segs(q) \/ (q \o p)[i] \in Segs(p)
  <2>1. CASE i <= Len(q)
    <3>1. i \in 1 .. Len(q) /\ (q \o p)[i] = q[i]
      BY <1>2, <2>1, SMTT(40)
    <3> QED
      BY <3>1 DEF Segs
  <2>2. CASE i > Len(q)
    <3>1. i - Len(q) \in 1 .. Len(p) /\ (q \o p)[i] = p[i - Len(q)]
      BY <1>2, <2>2, SMTT(40)
    <3> QED
      BY <3>1 DEF Segs
  <2> QED
    BY <1>2, <2>1, <2>2, SMTT(40)
<1> QED
  BY <1>1, <1>3 DEF Segs

LEMMA SegsTail ==
  ASSUME NEW q \in Seq(Segment), q # <<>>
  PROVE  /\ Tail(q) \in Seq(Segment)
         /\ \A m \in Segs(Tail(q)) : m \in Segs(q)
         /\ Head(q) \in Segment /\ Head(q) \in Segs(q)
<1>1. Tail(q) \in Seq(Segment) /\ Len(Tail(q)) = Len(q) - 1
  BY SMTT(40)
<1>2. Len(q) \in Nat /\ 1 \in 1 .. Len(q) /\ Head(q) = q[1] /\ q[1] \in Segment
  BY SMTT(40)
<1>3. ASSUME NEW i \in 1 .. Len(q) - 1
      PROVE  Tail(q)[i] \in Segs(q)
  <2>1. i + 1 \in 1 .. Len(q) /\ Tail(q)[i] = q[i + 1]
    BY <1>2, SMTT(40)
  <2> QED
    BY <2>1 DEF Segs
<1> QED
  BY <1>1, <1>2, <1>3 DEF Segs

\* What Sent and TakenAndSent do to the network.
LEMMA SentOk ==
  ASSUME TypeInv, NEW e \in Ends, NEW segs \in Seq(Segment), net' = Sent(e, segs),
         \A m \in Segs(segs) : SegOk(m, Iss[e], Top(sock'[e], Iss[e]),
                                     Iss[Peer(e)], Nxt(sock'[e], Iss[Peer(e)]))
  PROVE  net' \in [Ends -> Seq(Segment)] /\ SendsOk(e)
<1> DEFINE p == Peer(e)
<1>1. p \in Ends /\ p # e
  BY PeerFacts
<1>2. net \in [Ends -> Seq(Segment)] /\ net[p] \in Seq(Segment)
  BY <1>1 DEF TypeInv
<1>3. /\ net[p] \o segs \in Seq(Segment)
      /\ \A m \in Segs(net[p] \o segs) : m \in Segs(net[p]) \/ m \in Segs(segs)
  BY <1>2, SegsConcat
<1>4. CASE net' = [net EXCEPT ![p] = @ \o segs]
  <2>1. net' \in [Ends -> Seq(Segment)] /\ net'[e] = net[e] /\ net'[p] = net[p] \o segs
    BY <1>1, <1>2, <1>3, <1>4
  <2> QED
    BY <1>3, <2>1 DEF SendsOk
<1>5. CASE net' = net
  BY <1>2, <1>5 DEF SendsOk
<1> QED
  BY <1>4, <1>5 DEF Sent

LEMMA TakenAndSentOk ==
  ASSUME TypeInv, NEW e \in Ends, NEW segs \in Seq(Segment), net[e] # <<>>,
         net' = TakenAndSent(e, segs),
         \A m \in Segs(segs) : SegOk(m, Iss[e], Top(sock'[e], Iss[e]),
                                     Iss[Peer(e)], Nxt(sock'[e], Iss[Peer(e)]))
  PROVE  net' \in [Ends -> Seq(Segment)] /\ SendsOk(e)
<1> DEFINE p == Peer(e)
<1>1. p \in Ends /\ p # e
  BY PeerFacts
<1>2. /\ net \in [Ends -> Seq(Segment)] /\ net[p] \in Seq(Segment)
      /\ net[e] \in Seq(Segment)
  BY <1>1 DEF TypeInv
<1>3. /\ net[p] \o segs \in Seq(Segment)
      /\ \A m \in Segs(net[p] \o segs) : m \in Segs(net[p]) \/ m \in Segs(segs)
  BY <1>2, SegsConcat
<1>4. Tail(net[e]) \in Seq(Segment) /\ \A m \in Segs(Tail(net[e])) : m \in Segs(net[e])
  BY <1>2, SegsTail
<1>5. CASE Sent(e, segs) = [net EXCEPT ![p] = @ \o segs]
  <2>1. /\ net' \in [Ends -> Seq(Segment)] /\ net'[e] = Tail(net[e])
        /\ net'[p] = net[p] \o segs
    BY <1>1, <1>2, <1>3, <1>4, <1>5 DEF TakenAndSent
  <2> QED
    BY <1>3, <1>4, <2>1 DEF SendsOk
<1>6. CASE Sent(e, segs) = net
  <2>1. /\ net' \in [Ends -> Seq(Segment)] /\ net'[e] = Tail(net[e])
        /\ net'[p] = net[p]
    BY <1>1, <1>2, <1>4, <1>6 DEF TakenAndSent
  <2> QED
    BY <1>4, <2>1 DEF SendsOk
<1> QED
  BY <1>5, <1>6 DEF Sent

LEMMA SegsFew ==
  /\ <<>> \in Seq(Segment) /\ Segs(<<>>) = {}
  /\ \A m \in Segment : <<m>> \in Seq(Segment) /\ Segs(<<m>>) = {m}
<1>1. <<>> \in Seq(Segment) /\ Segs(<<>>) = {}
  BY SMTT(40) DEF Segs
<1>2. ASSUME NEW m \in Segment
      PROVE  <<m>> \in Seq(Segment) /\ Segs(<<m>>) = {m}
  <2>1. <<m>> \in Seq(Segment) /\ Len(<<m>>) = 1 /\ <<m>>[1] = m
    BY SMTT(40)
  <2> QED
    BY <2>1, SMTT(40) DEF Segs
<1> QED
  BY <1>1, <1>2

\* tx_fill_hdr makes a segment of the stream if the payload is what follows
\* the flight.
LEMMA HdrOk ==
  ASSUME NEW s \in Sock, InRings(s), NEW iss \in SeqNos, NEW ack0 \in SeqNos,
         NEW data \in Seq(Nat), Top(s, iss) < SeqModulus,
         Len(data) <= s.tx_avail,
         \A i \in 1 .. Len(data) : data[i] = Una(s, iss) + s.tx_pending + i
  PROVE  /\ tx_fill_hdr(s, data) \in Segment
         /\ SegOk(tx_fill_hdr(s, data), iss, Top(s, iss), ack0, Nxt(s, ack0))
<1> DEFINE a == Una(s, iss)
           r == Nxt(s, ack0)
           h == tx_fill_hdr(s, data)
           off == a + s.tx_pending
<1>1. /\ s.tx_seq \in SeqNos /\ s.rx_seq \in SeqNos /\ s.tx_pending \in Nat
      /\ s.tx_avail \in Nat /\ s.rx_avail \in Nat
  BY SockFields
<1>2. /\ a \in Nat /\ r \in Nat /\ s.rx_seq = SeqAdd(ack0, r)
      /\ a = Pos(s.tx_seq, iss)
  <2>1. a \in SeqNos /\ r \in SeqNos /\ s.rx_seq = SeqAdd(ack0, r)
    BY <1>1, PosOfSeq DEF Una, Nxt
  <2> QED
    BY <2>1, SockAssumption, SMTT(40) DEF Una, SeqNos
<1>3. Top(s, iss) = a + s.tx_pending + s.tx_avail
  BY DEF Top
<1> HIDE DEF a, r
<1>4. a + s.tx_pending < SeqModulus
  BY <1>1, <1>2, <1>3, SockAssumption, SMTT(40)
<1>5. /\ SeqAdd(s.tx_seq, s.tx_pending) \in SeqNos
      /\ SeqAdd(s.tx_seq, s.tx_pending) = SeqAdd(iss, off)
  BY <1>1, <1>2, <1>4, PosAhead
<1>6. RxLen - s.rx_avail \in Nat
  BY <1>1, SockAssumption, SMTT(40) DEF InRings
<1>7. (RxLen - s.rx_avail) % WndModulus \in Nat
  <2>1. At(RxLen - s.rx_avail, WndModulus) \in 0 .. WndModulus - 1
    BY <1>6, SockAssumption, AtType
  <2>2. At(RxLen - s.rx_avail, WndModulus) \in Nat
    BY <2>1, SockAssumption, SMTT(40)
  <2> QED
    BY <2>2 DEF At
<1>8. h \in Segment
  BY <1>1, <1>5, <1>7 DEF tx_fill_hdr, Segment
<1>9. h.seq = SeqAdd(iss, off) /\ h.ack = SeqAdd(ack0, r) /\ h.data = data
  BY <1>2, <1>5 DEF tx_fill_hdr
<1> HIDE DEF h
<1>10. off \in 0 .. Top(s, iss) /\ off + Len(data) <= Top(s, iss)
  BY <1>1, <1>2, <1>3, SMTT(40)
<1>11. \A i \in 1 .. Len(data) : data[i] = off + i
  BY DEF a
<1> HIDE DEF off
<1>12. SegOk(h, iss, Top(s, iss), ack0, r)
  BY <1>2, <1>9, <1>10, <1>11, SMTT(40) DEF SegOk
<1> QED
  BY <1>8, <1>12 DEF h, r

LEMMA RxOkSame ==
  ASSUME NEW s, NEW t, NEW rb, NEW l, NEW qr, NEW ready, NEW g, NEW r,
         RxOk(s, rb, l, qr, ready, g, r),
         t.rx_head = s.rx_head, t.rx_avail = s.rx_avail
  PROVE  RxOk(t, rb, l, qr, ready, g, r)
BY DEF RxOk

LEMMA TxOkSame ==
  ASSUME NEW s \in Sock, NEW t \in Sock, NEW tb, NEW l, NEW qt, NEW back, NEW w,
         NEW a \in Nat, TxOk(s, tb, l, qt, back, w, a),
         t.tx_head = s.tx_head,
         t.tx_pending + t.tx_avail = s.tx_pending + s.tx_avail
  PROVE  TxOk(t, tb, l, qt, back, w, a)
<1>1. /\ s.tx_pending \in Nat /\ s.tx_avail \in Nat
      /\ t.tx_pending \in Nat /\ t.tx_avail \in Nat
  BY SockFields
<1>2. a + t.tx_pending + t.tx_avail = a + s.tx_pending + s.tx_avail
  BY <1>1, SMTT(40)
<1> QED
  BY <1>2 DEF TxOk

\* What a socket may send does not depend on what it receives.
LEMMA SchedAvailSame ==
  ASSUME NEW s, NEW t, t.tx_pending = s.tx_pending, t.tx_avail = s.tx_avail,
         t.tx_remote_avail = s.tx_remote_avail, t.tx_seq = s.tx_seq,
         t.recovery_active = s.recovery_active,
         t.recovery_end_seq = s.recovery_end_seq
  PROVE  sock_sched_avail(t) = sock_sched_avail(s)
BY DEF sock_sched_avail, tcp_sock_recovery_avail

\* The socket is within its rings, and what it owns is in the first half of the
\* sequence space.
HalfOk(s, iss) ==
  InRings(s) /\ Top(s, iss) \in Nat /\ 2 * Top(s, iss) < SeqModulus

LEMMA EndsHalfOk ==
  \A d \in Ends : TypeInv /\ EndOk(d) => HalfOk(sock[d], Iss[d])
BY EndFacts DEF HalfOk

\* An ACK without payload.
LEMMA EmptyHdrOk ==
  ASSUME NEW s \in Sock, InRings(s), NEW iss \in SeqNos, NEW ack0 \in SeqNos,
         Top(s, iss) < SeqModulus
  PROVE  /\ tx_fill_hdr(s, <<>>) \in Segment
         /\ SegOk(tx_fill_hdr(s, <<>>), iss, Top(s, iss), ack0, Nxt(s, ack0))
<1>1. s.tx_avail \in Nat
  BY SockFields
<1> DEFINE d == <<>>
<1>2. d \in Seq(Nat) /\ Len(d) <= s.tx_avail /\ Len(d) = 0
  BY <1>1, SMTT(40)
<1> HIDE DEF d
<1>3. \A i \in 1 .. Len(d) : d[i] = Una(s, iss) + s.tx_pending + i
  BY <1>2, SMTT(40)
<1> QED
  BY <1>2, <1>3, HdrOk DEF d


LEMMA SchedAvailType ==
  ASSUME NEW s \in Sock, InRings(s)
  PROVE  sock_sched_avail(s) \in Nat /\ sock_sched_avail(s) <= s.tx_avail
<1>1. s.tx_pending \in Nat /\ s.tx_avail \in Nat /\ s.tx_remote_avail \in Nat
  BY DEF Sock
<1>2. tcp_sock_recovery_avail(s) \in Nat
  BY RecoveryAvailType
<1> QED
  BY <1>1, <1>2, SMTT(40) DEF sock_sched_avail, MinOf


=============================================================================
