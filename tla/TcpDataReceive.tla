-------------------------- MODULE TcpDataReceive ---------------------------
(***************************************************************************)
(* The steps of the receiving half of the fast path keep the invariant of  *)
(* the TCP data path.                                                      *)
(***************************************************************************)
EXTENDS TcpDataLemmas

\* Leaves that need arithmetic, or updates of records, say SMTT.
USE ZenonT(40)

\* rx_get_ack_bump: an acknowledgement of k bytes of the stream, however old,
\* moves the socket to k or not at all.
LEMMA AckBumpIs ==
  ASSUME NEW s \in Sock, InRings(s), NEW iss \in SeqNos, NEW p, NEW k \in Nat,
         p.ack = SeqAdd(iss, k), k <= Top(s, iss), 2 * Top(s, iss) < SeqModulus
  PROVE  /\ rx_get_ack_bump(s, p) =
              IF k >= Una(s, iss) THEN k - Una(s, iss) ELSE 0
         /\ s.tx_seq = p.ack => k = Una(s, iss)
         /\ rx_get_ack_bump(s, p) \in 0 .. s.tx_pending + s.tx_avail
         /\ p.ack \in SeqNos
<1> DEFINE a == Una(s, iss)
           d == SeqSub(p.ack, s.tx_seq)
           held == s.tx_pending + s.tx_avail
<1>1. s.tx_seq \in SeqNos /\ s.tx_pending \in Nat /\ s.tx_avail \in Nat
  BY SockFields
<1>2. a \in SeqNos /\ a = Pos(s.tx_seq, iss)
  BY <1>1, PosOfSeq DEF Una
<1>3. Top(s, iss) = a + s.tx_pending + s.tx_avail
  BY DEF Top
<1> HIDE DEF a
<1>4. a \in Nat /\ k \in SeqNos
  BY <1>1, <1>2, <1>3, SockAssumption, SMTT(40) DEF SeqNos
<1>5. p.ack \in SeqNos /\ Pos(p.ack, iss) = k
  BY <1>4, PosOfSeq
<1>6. d = IF k >= a THEN k - a ELSE k - a + SeqModulus
  BY <1>1, <1>2, <1>5, PosDiff
<1>7. rx_get_ack_bump(s, p) = IF d <= held THEN d ELSE 0
  BY <1>5, AckBumpExact
<1>8. s.tx_seq = p.ack => k = a
  BY <1>2, <1>5
<1> HIDE DEF d
<1>9. rx_get_ack_bump(s, p) = IF k >= a THEN k - a ELSE 0
  <2>1. held = Top(s, iss) - a /\ held \in Nat
    BY <1>1, <1>3, <1>4, SMTT(40)
  <2>2. PICK top \in Nat : top = Top(s, iss)
    BY <1>1, <1>3, <1>4, SMTT(40)
  <2> HIDE DEF held
  <2>3. held = top - a /\ k <= top /\ 2 * top < SeqModulus /\ a <= top
    BY <1>4, <2>1, <2>2, SMTT(40)
  <2>4. CASE k >= a
    BY <1>4, <1>6, <1>7, <2>1, <2>3, <2>4, SMTT(40)
  <2>5. CASE ~(k >= a)
    <3>1. k - a + SeqModulus > held
      BY <1>4, <2>3, <2>5, SockAssumption, SMTT(40)
    <3> QED
      BY <1>4, <1>6, <1>7, <2>1, <2>5, <3>1, SockAssumption, SMTT(40)
  <2> QED
    BY <2>4, <2>5
<1>10. rx_get_ack_bump(s, p) \in 0 .. held
  BY <1>5, AckBumpHeld
<1> QED
  BY <1>5, <1>8, <1>9, <1>10 DEF a

\* What taking in an acknowledgement of n bytes leaves of a socket.
AckedTo(t, s, iss, n) ==
  /\ t \in Sock
  /\ t.tx_pending + t.tx_avail = s.tx_pending + s.tx_avail - n
  /\ Una(t, iss) = Una(s, iss) + n
  /\ t.tx_head = At(Una(s, iss) + n, TxLen)
  /\ t.rx_seq = s.rx_seq /\ t.rx_avail = s.rx_avail /\ t.rx_head = s.rx_head

\* RxAck, as the invariant sees it.
LEMMA RxAckIs ==
  ASSUME NEW e, NEW iss \in SeqNos, NEW p, NEW k \in Nat,
         sock[e] \in Sock, HalfOk(sock[e], iss),
         sock[e].tx_head = At(Una(sock[e], iss), TxLen),
         p.wnd \in Nat, p.ack = SeqAdd(iss, k), k <= Top(sock[e], iss)
  PROVE  LET r == RxAck(e, p)
             a == Una(sock[e], iss)
         IN  \E n \in Nat :
               /\ n <= sock[e].tx_pending + sock[e].tx_avail
               /\ n = 0 \/ a + n <= k
               /\ AckedTo(r.acked, sock[e], iss, n)
               /\ AckedTo(r.sock, sock[e], iss, n)
               /\ \/ r.bumps = <<>> /\ n = 0
                  \/ r.bumps = <<[kind |-> "APP_TX", n |-> n]>>
               /\ sock_sched_avail(r.sock) > 0 =>
                    r.sched \/ sock_sched_avail(sock[e]) > 0
<1> DEFINE s == sock[e]
           r == RxAck(e, p)
           a == Una(s, iss)
           before == sock_sched_avail(s)
           s1 == [s EXCEPT !.tx_remote_avail = p.wnd]
           n == rx_get_ack_bump(s1, p)
           s2 == rx_sock_bump_ack(s1, n)
           after == sock_sched_avail(s2)
           isDup == s.tx_seq = p.ack
           counted == /\ p.data = <<>>
                      /\ n = 0
                      /\ s2.tx_pending # 0
                      /\ ~s2.recovery_active
           remit == counted /\ s2.rx_dupack_cnt + 1 >= FAST_REMIT_THRESH
           dup == [s2 EXCEPT !.rx_dupack_cnt = @ + 1]
           rew == [Rewind(s2) EXCEPT !.rx_dupack_cnt = 0]
           s3 == IF remit THEN rew ELSE IF counted THEN dup ELSE s2
<1>1. /\ r.acked = s2 /\ r.sock = s3 /\ r.sched = (remit \/ after > before)
      /\ r.bumps = IF isDup THEN <<>> ELSE <<[kind |-> "APP_TX", n |-> n]>>
  BY DEF RxAck
<1>2. /\ s1 \in Sock /\ InRings(s1) /\ s1.tx_seq = s.tx_seq
      /\ s1.tx_pending = s.tx_pending /\ s1.tx_avail = s.tx_avail
      /\ s1.tx_head = s.tx_head /\ s1.rx_seq = s.rx_seq
      /\ s1.rx_avail = s.rx_avail /\ s1.rx_head = s.rx_head
      /\ Una(s1, iss) = a /\ Top(s1, iss) = Top(s, iss)
  <2>1. s1 \in Sock
    BY DEF Sock
  <2>2. /\ s1.tx_seq = s.tx_seq
        /\ s1.tx_pending = s.tx_pending /\ s1.tx_avail = s.tx_avail
        /\ s1.tx_head = s.tx_head /\ s1.rx_seq = s.rx_seq
        /\ s1.rx_avail = s.rx_avail /\ s1.rx_head = s.rx_head
    BY DEF Sock
  <2> QED
    BY <2>1, <2>2 DEF HalfOk, InRings, Una, Top
<1>3. InRings(s) /\ Top(s, iss) \in Nat /\ 2 * Top(s, iss) < SeqModulus
  BY DEF HalfOk
<1>4. s.tx_pending \in Nat /\ s.tx_avail \in Nat /\ s.tx_seq \in SeqNos
  BY SockFields
<1>5. a \in Nat /\ a = Pos(s.tx_seq, iss) /\ Top(s, iss) = a + s.tx_pending + s.tx_avail
  <2>1. a \in SeqNos
    BY <1>4, PosOfSeq DEF Una
  <2> QED
    BY <2>1, SockAssumption, SMTT(40) DEF SeqNos, Una, Top
<1> HIDE DEF s1
<1>6. /\ n = IF k >= a THEN k - a ELSE 0
      /\ isDup => k = a
      /\ n \in 0 .. s.tx_pending + s.tx_avail
  BY <1>2, <1>3, AckBumpIs, SMTT(40)
<1> HIDE DEF n, a
<1>7. /\ n \in Nat /\ n <= s.tx_pending + s.tx_avail
      /\ n = 0 \/ a + n <= k
      /\ isDup => n = 0
  <2> HIDE DEF s, isDup
  <2> QED
    BY <1>4, <1>5, <1>6, SMTT(40)
<1>8. /\ s2 \in Sock /\ InRings(s2)
      /\ s2.tx_pending + s2.tx_avail = s.tx_pending + s.tx_avail - n
      /\ s2.tx_seq = SeqAdd(s.tx_seq, n) /\ s2.tx_head = (s.tx_head + n) % TxLen
      /\ s2.rx_seq = s.rx_seq /\ s2.rx_avail = s.rx_avail /\ s2.rx_head = s.rx_head
  BY <1>2, <1>6, AckTakesItsBytes, SMTT(40)
<1> HIDE DEF s2
<1>9. Una(s2, iss) = a + n
  <2>1. a + n < SeqModulus
    <3> HIDE DEF s
    <3> QED
      BY <1>3, <1>4, <1>5, <1>7, SockAssumption, SMTT(40)
  <2>2. Pos(SeqAdd(s.tx_seq, n), iss) = a + n
    BY <1>4, <1>5, <1>7, <2>1, PosAhead
  <2> QED
    BY <1>8, <2>2 DEF Una
<1>10. s2.tx_head = At(a + n, TxLen)
  <2>1. n \in 0 .. TxLen
    <3>1. s.tx_pending + s.tx_avail <= TxLen
      BY <1>3 DEF InRings
    <3> HIDE DEF s
    <3> QED
      BY <1>4, <1>7, <3>1, SockAssumption, SMTT(40)
  <2>2. s.tx_head = At(a, TxLen) /\ TxLen \in Nat \ {0}
    BY SockAssumption DEF a
  <2>3. (s.tx_head + n) % TxLen = At(a + n, TxLen)
    BY <1>5, <2>1, <2>2, AtMoved
  <2> QED
    BY <1>8, <2>3
<1>11. AckedTo(s2, s, iss, n)
  BY <1>8, <1>9, <1>10 DEF AckedTo, a
<1>12. /\ dup \in Sock /\ dup.tx_pending = s2.tx_pending /\ dup.tx_avail = s2.tx_avail
       /\ dup.tx_seq = s2.tx_seq /\ dup.tx_head = s2.tx_head
       /\ dup.rx_seq = s2.rx_seq /\ dup.rx_avail = s2.rx_avail
       /\ dup.rx_head = s2.rx_head
       /\ sock_sched_avail(dup) = sock_sched_avail(s2)
  <2>1. \A x \in Nat : [s2 EXCEPT !.rx_dupack_cnt = x] \in Sock
    BY <1>8 DEF Sock
  <2>2. s2.rx_dupack_cnt + 1 \in Nat
    BY <1>8, SMTT(40) DEF Sock
  <2>3. dup \in Sock
    BY <2>1, <2>2
  <2>4. /\ dup.tx_pending = s2.tx_pending /\ dup.tx_avail = s2.tx_avail
        /\ dup.tx_seq = s2.tx_seq /\ dup.tx_head = s2.tx_head
        /\ dup.rx_seq = s2.rx_seq /\ dup.rx_avail = s2.rx_avail
        /\ dup.rx_head = s2.rx_head /\ dup.tx_remote_avail = s2.tx_remote_avail
        /\ dup.recovery_active = s2.recovery_active
        /\ dup.recovery_end_seq = s2.recovery_end_seq
    BY <1>8 DEF Sock
  <2> HIDE DEF dup
  <2> QED
    BY <2>3, <2>4, SchedAvailSame
<1>13. AckedTo(dup, s, iss, n)
  <2> HIDE DEF dup
  <2> QED
    BY <1>11, <1>12 DEF AckedTo, Una
<1>14. AckedTo(rew, s, iss, n)
  <2>1. /\ Rewind(s2) \in Sock /\ Rewind(s2).tx_pending = 0
        /\ Rewind(s2).tx_avail = s2.tx_avail + s2.tx_pending
        /\ Rewind(s2).tx_seq = s2.tx_seq /\ Rewind(s2).tx_head = s2.tx_head
        /\ Rewind(s2).rx_seq = s2.rx_seq
        /\ Rewind(s2).rx_avail = s2.rx_avail /\ Rewind(s2).rx_head = s2.rx_head
    BY <1>8, RewindKeepsBytes
  <2>2. PICK x \in Sock : x = Rewind(s2)
    BY <2>1
  <2>3. /\ rew \in Sock /\ rew.tx_pending = x.tx_pending /\ rew.tx_avail = x.tx_avail
        /\ rew.tx_seq = x.tx_seq /\ rew.tx_head = x.tx_head
        /\ rew.rx_seq = x.rx_seq /\ rew.rx_avail = x.rx_avail
        /\ rew.rx_head = x.rx_head
    <3>1. rew = [x EXCEPT !.rx_dupack_cnt = 0]
      BY <2>2
    <3> HIDE DEF rew
    <3> QED
      BY <3>1 DEF Sock
  <2>4. s2.tx_pending \in Nat /\ s2.tx_avail \in Nat
    BY <1>8, SockFields
  <2> HIDE DEF rew
  <2>5. rew.tx_pending + rew.tx_avail = s2.tx_pending + s2.tx_avail
    <3>1. rew.tx_pending = 0 /\ rew.tx_avail = s2.tx_avail + s2.tx_pending
      BY <2>1, <2>2, <2>3
    <3> QED
      BY <2>4, <3>1, SMTT(40)
  <2>6. /\ rew.tx_seq = s2.tx_seq /\ rew.tx_head = s2.tx_head
        /\ rew.rx_seq = s2.rx_seq /\ rew.rx_avail = s2.rx_avail
        /\ rew.rx_head = s2.rx_head
    BY <2>1, <2>2, <2>3
  <2> QED
    BY <1>11, <2>3, <2>5, <2>6 DEF AckedTo, Una
<1>15. AckedTo(s3, s, iss, n)
  <2> HIDE DEF dup, rew, counted, remit
  <2> QED
    BY <1>11, <1>13, <1>14
<1>16. before \in Nat /\ after \in Nat
  BY <1>3, <1>8, SchedAvailType
<1>17. sock_sched_avail(s3) > 0 => r.sched \/ before > 0
  <2>1. CASE remit
    BY <1>1, <2>1
  <2>2. CASE ~remit
    <3>1. sock_sched_avail(s3) = after
      <4> HIDE DEF dup, rew, counted
      <4> QED
        BY <1>12, <2>2
    <3>2. after > before => r.sched
      BY <1>1
    <3> HIDE DEF s3, after, before, r
    <3> QED
      BY <1>16, <3>1, <3>2, SMTT(40)
  <2> QED
    BY <2>1, <2>2
<1>18. \/ r.bumps = <<>> /\ n = 0
       \/ r.bumps = <<[kind |-> "APP_TX", n |-> n]>>
  BY <1>1, <1>7
<1> HIDE DEF r, s3, before, after
<1> QED
  BY <1>1, <1>7, <1>11, <1>15, <1>17, <1>18 DEF r, before, a

\* The segment tcp_event_rx takes is one of the peer's stream.
LEMMA HeadOk ==
  ASSUME IInv, NEW e \in Ends, net[e] # <<>>
  PROVE  /\ Head(net[e]) \in Segment
         /\ SegOk(Head(net[e]), Iss[Peer(e)], Top(sock[Peer(e)], Iss[Peer(e)]),
                  Iss[e], Nxt(sock[Peer(e)], Iss[e]))
<1>1. net[e] \in Seq(Segment) /\ NetOk(e)
  BY EndTypes DEF IInv
<1>2. Head(net[e]) \in Segment /\ Head(net[e]) \in Segs(net[e])
  BY <1>1, SegsTail
<1> QED
  BY <1>1, <1>2 DEF NetOk

\* The part of tcp_event_rx that all its ends share: n bytes are
\* acknowledged, which the peer has received.
LEMMA AckFacts ==
  ASSUME IInv, NEW e \in Ends, net[e] # <<>>
  PROVE  LET r == RxAck(e, Head(net[e]))
         IN  \E n \in Nat :
               /\ n <= sock[e].tx_pending + sock[e].tx_avail
               /\ Una(sock[e], Iss[e]) + n <= Nxt(sock[Peer(e)], Iss[e])
               /\ AckedTo(r.acked, sock[e], Iss[e], n)
               /\ AckedTo(r.sock, sock[e], Iss[e], n)
               /\ \/ r.bumps = <<>> /\ n = 0
                  \/ r.bumps = <<[kind |-> "APP_TX", n |-> n]>>
               /\ sock_sched_avail(r.sock) > 0 =>
                    r.sched \/ sock_sched_avail(sock[e]) > 0
<1> DEFINE p == Head(net[e])
           a == Una(sock[e], Iss[e])
           x == Nxt(sock[Peer(e)], Iss[e])
<1>1. /\ TypeInv /\ EndOk(e) /\ PairOk(e) /\ Peer(e) \in Ends /\ Peer(Peer(e)) = e
      /\ EndOk(Peer(e))
  BY PeerFacts DEF IInv
<1>2. /\ p \in Segment
      /\ SegOk(p, Iss[Peer(e)], Top(sock[Peer(e)], Iss[Peer(e)]), Iss[e], x)
  BY HeadOk
<1>3. PICK k \in 0 .. x : p.ack = SeqAdd(Iss[e], k)
  BY <1>2 DEF SegOk
<1>4. p.wnd \in Nat
  BY <1>2 DEF Segment
<1>5. sock[e] \in Sock /\ HalfOk(sock[e], Iss[e]) /\ Iss[e] \in SeqNos
  BY <1>1, EndTypes, EndsHalfOk, PeerFacts
<1>6. sock[e].tx_head = At(a, TxLen)
  BY <1>1 DEF EndOk, TxOk
<1>7. a \in Nat /\ x \in Nat
  <2>1. x = Nxt(sock[Peer(e)], Iss[Peer(Peer(e))])
    BY <1>1
  <2> QED
    BY <1>1, <2>1, EndNumbers
<1>8. a <= x /\ x <= Top(sock[e], Iss[e])
  BY <1>1 DEF PairOk
<1>9. k \in Nat /\ k <= Top(sock[e], Iss[e])
  <2>1. Top(sock[e], Iss[e]) \in Nat
    BY <1>5 DEF HalfOk
  <2> HIDE DEF x
  <2> QED
    BY <1>3, <1>7, <1>8, <2>1, SMTT(40)
<1> HIDE DEF p
<1>10. LET r == RxAck(e, p)
       IN  \E n \in Nat :
               /\ n <= sock[e].tx_pending + sock[e].tx_avail
               /\ n = 0 \/ a + n <= k
               /\ AckedTo(r.acked, sock[e], Iss[e], n)
               /\ AckedTo(r.sock, sock[e], Iss[e], n)
               /\ \/ r.bumps = <<>> /\ n = 0
                  \/ r.bumps = <<[kind |-> "APP_TX", n |-> n]>>
               /\ sock_sched_avail(r.sock) > 0 =>
                    r.sched \/ sock_sched_avail(sock[e]) > 0
  BY <1>3, <1>4, <1>5, <1>6, <1>9, RxAckIs
<1> DEFINE r == RxAck(e, p)
<1> HIDE DEF r
<1>11. PICK n \in Nat :
               /\ n <= sock[e].tx_pending + sock[e].tx_avail
               /\ n = 0 \/ a + n <= k
               /\ AckedTo(r.acked, sock[e], Iss[e], n)
               /\ AckedTo(r.sock, sock[e], Iss[e], n)
               /\ \/ r.bumps = <<>> /\ n = 0
                  \/ r.bumps = <<[kind |-> "APP_TX", n |-> n]>>
               /\ sock_sched_avail(r.sock) > 0 =>
                    r.sched \/ sock_sched_avail(sock[e]) > 0
  BY <1>10 DEF r
<1>12. a + n <= x
  <2> HIDE DEF a, x
  <2> QED
    BY <1>3, <1>7, <1>8, <1>9, <1>11, SMTT(40)
<1> QED
  BY <1>11, <1>12 DEF r, p

LEMMA TailConcat ==
  ASSUME NEW q \in Seq(Bump), NEW p \in Seq(Bump), q # <<>>
  PROVE  q \o p # <<>> /\ Tail(q \o p) = Tail(q) \o p
<1> DEFINE x == Tail(q \o p)
           y == Tail(q) \o p
<1>1. q \o p \in Seq(Bump) /\ Len(q \o p) = Len(q) + Len(p)
  BY SMTT(40)
<1>2. Len(q) \in Nat /\ Len(p) \in Nat /\ Len(q) > 0
  BY SMTT(40)
<1>3. q \o p # <<>>
  BY <1>1, <1>2, SMTT(40)
<1>4. Tail(q) \in Seq(Bump) /\ Len(Tail(q)) = Len(q) - 1
  BY SMTT(40)
<1>5. x \in Seq(Bump) /\ Len(x) = Len(q) + Len(p) - 1
  BY <1>1, <1>3, SMTT(40)
<1>6. y \in Seq(Bump) /\ Len(y) = Len(q) - 1 + Len(p)
  BY <1>4, SMTT(40)
<1>7. ASSUME NEW i \in 1 .. Len(q) + Len(p) - 1
      PROVE  x[i] = y[i]
  <2>1. x[i] = (q \o p)[i + 1]
    BY <1>1, <1>2, <1>3, SMTT(40)
  <2>2. CASE i < Len(q)
    <3>1. (q \o p)[i + 1] = q[i + 1] /\ y[i] = Tail(q)[i] /\ Tail(q)[i] = q[i + 1]
      BY <1>2, <1>4, <2>2, SMTT(40)
    <3> QED
      BY <2>1, <3>1
  <2>3. CASE i >= Len(q)
    <3>1. (q \o p)[i + 1] = p[i + 1 - Len(q)]
      BY <1>2, <2>3, SMTT(40)
    <3>2. y[i] = p[i - (Len(q) - 1)]
      BY <1>2, <1>4, <2>3, SMTT(40)
    <3>3. i + 1 - Len(q) = i - (Len(q) - 1)
      BY <1>2, SMTT(40)
    <3> QED
      BY <2>1, <3>1, <3>2, <3>3
  <2> QED
    BY <1>2, <2>2, <2>3, SMTT(40)
<1> HIDE DEF x, y
<1>8. Len(x) = Len(y) /\ \A i \in 1 .. Len(x) : x[i] = y[i]
  BY <1>2, <1>5, <1>6, <1>7, SMTT(40)
<1>9. x = y
  <2>1. x = [i \in 1 .. Len(x) |-> x[i]] /\ y = [i \in 1 .. Len(y) |-> y[i]]
    BY <1>5, <1>6, SMTT(40)
  <2> QED
    BY <1>8, <2>1
<1> QED
  BY <1>3, <1>9 DEF x, y

\* The fast path queues bumps for the library.
LEMMA UnhandledMore ==
  ASSUME TypeInv, NEW e \in Ends, NEW bs \in Seq(Bump),
         fast_app' = [fast_app EXCEPT ![e] = @ \o bs], polling' = polling
  PROVE  /\ fast_app' \in [Ends -> Seq(Bump)]
         /\ Unhandled(e)' = Unhandled(e) \o bs
         /\ Unhandled(Peer(e))' = Unhandled(Peer(e))
         /\ \A d \in Ends : polling'[d] = "handled" => fast_app'[d] # <<>>
<1>1. Peer(e) \in Ends /\ Peer(e) # e
  BY PeerFacts
<1>2. /\ fast_app \in [Ends -> Seq(Bump)] /\ fast_app[e] \in Seq(Bump)
      /\ \A d \in Ends : polling[d] = "handled" => fast_app[d] # <<>>
  BY DEF TypeInv
<1>3. fast_app[e] \o bs \in Seq(Bump)
  BY <1>2, SMTT(40)
<1>4. fast_app[e] # <<>> => /\ fast_app[e] \o bs # <<>>
                            /\ Tail(fast_app[e] \o bs) = Tail(fast_app[e]) \o bs
  BY <1>2, TailConcat
<1>5. /\ fast_app' \in [Ends -> Seq(Bump)] /\ fast_app'[e] = fast_app[e] \o bs
      /\ fast_app'[Peer(e)] = fast_app[Peer(e)]
  BY <1>1, <1>2, <1>3
<1>6. Unhandled(e)' = Unhandled(e) \o bs
  BY <1>2, <1>4, <1>5 DEF Unhandled
<1>7. Unhandled(Peer(e))' = Unhandled(Peer(e))
  BY <1>5, SMTT(40) DEF Unhandled
<1>8. \A d \in Ends : polling'[d] = "handled" => fast_app'[d] # <<>>
  BY <1>2, <1>4
<1> QED
  BY <1>5, <1>6, <1>7, <1>8

\* No bump or one, of bytes the peer acknowledged.
LEMMA SumsMore ==
  ASSUME NEW q \in Seq(Bump), NEW bs, NEW n \in Nat,
         \/ bs = <<>> /\ n = 0
         \/ bs = <<[kind |-> "APP_TX", n |-> n]>>
  PROVE  /\ bs \in Seq(Bump) /\ q \o bs \in Seq(Bump)
         /\ BumpSum(q \o bs, "APP_TX") = BumpSum(q, "APP_TX") + n
         /\ BumpSum(q \o bs, "APP_RX") = BumpSum(q, "APP_RX")
<1>1. BumpSum(q, "APP_TX") \in Nat /\ BumpSum(q, "APP_RX") \in Nat
  BY SumsType
<1>2. CASE bs = <<>> /\ n = 0
  <2>1. bs \in Seq(Bump) /\ q \o bs = q
    BY <1>2, SMTT(40)
  <2> QED
    BY <1>1, <1>2, <2>1, SMTT(40)
<1>3. CASE bs = <<[kind |-> "APP_TX", n |-> n]>>
  <2> DEFINE b == [kind |-> "APP_TX", n |-> n]
             p == Append(q, b)
  <2>1. b \in Bump
    BY DEF Bump, BumpKinds
  <2>2. bs \in Seq(Bump) /\ q \o bs = p
    <3> HIDE DEF b
    <3> QED
      BY <1>3, <2>1, SMTT(40) DEF b
  <2>3. /\ p \in Seq(Bump)
        /\ \A k \in BumpKinds :
             BumpSum(p, k) = BumpSum(q, k) + (IF k = "APP_TX" THEN n ELSE 0)
    BY SumsAppend DEF BumpKinds
  <2> HIDE DEF p
  <2>4. /\ BumpSum(p, "APP_TX") = BumpSum(q, "APP_TX") + n
        /\ BumpSum(p, "APP_RX") = BumpSum(q, "APP_RX") + 0
    BY <2>3 DEF BumpKinds
  <2> QED
    BY <1>1, <2>2, <2>3, <2>4, SMTT(40)
<1> QED
  BY <1>2, <1>3

\* Acknowledged bytes stay where they are in the stream, and the sender's half
\* of the invariant holds whether the application is told or not.
LEMMA AckedToOk ==
  ASSUME TypeInv, NEW e \in Ends, EndOk(e), NEW t, NEW n \in Nat,
         AckedTo(t, sock[e], Iss[e], n), NEW back2 \in Nat,
         back2 <= BumpSum(Unhandled(e), "APP_TX") + n
  PROVE  /\ t \in Sock
         /\ Una(t, Iss[e]) = Una(sock[e], Iss[e]) + n
         /\ Top(t, Iss[e]) = Top(sock[e], Iss[e])
         /\ Nxt(t, Iss[Peer(e)]) = Nxt(sock[e], Iss[Peer(e)])
         /\ TxOk(t, txbuf[e], lib[e], BumpSum(app_fast[e], "CHAM_TX"), back2,
                 wrote[e], Una(t, Iss[e]))
         /\ RxOk(t, rxbuf[e], lib[e], BumpSum(app_fast[e], "CHAM_RX"),
                 BumpSum(Unhandled(e), "APP_RX"), Len(got[e]),
                 Nxt(t, Iss[Peer(e)]))
         /\ InRings(t)
<1> DEFINE s == sock[e]
           a == Una(s, Iss[e])
           r == Nxt(s, Iss[Peer(e)])
           qt == BumpSum(app_fast[e], "CHAM_TX")
           qr == BumpSum(app_fast[e], "CHAM_RX")
           back == BumpSum(Unhandled(e), "APP_TX")
           ready == BumpSum(Unhandled(e), "APP_RX")
           g == Len(got[e])
           w == wrote[e]
<1>1. s \in Sock /\ lib[e] \in LibSock /\ w \in Nat
  BY EndTypes
<1>2. /\ a \in Nat /\ r \in Nat /\ qt \in Nat /\ qr \in Nat /\ back \in Nat
      /\ ready \in Nat /\ g \in Nat
  BY EndNumbers
<1>3. /\ t \in Sock
      /\ t.tx_pending + t.tx_avail = s.tx_pending + s.tx_avail - n
      /\ Una(t, Iss[e]) = a + n
      /\ t.tx_head = At(a + n, TxLen)
      /\ t.rx_seq = s.rx_seq /\ t.rx_avail = s.rx_avail /\ t.rx_head = s.rx_head
  BY DEF AckedTo
<1>4. /\ s.tx_pending \in Nat /\ s.tx_avail \in Nat
      /\ t.tx_pending \in Nat /\ t.tx_avail \in Nat
  BY <1>1, <1>3, SockFields
<1>5. Top(t, Iss[e]) = Top(s, Iss[e])
  <2>1. /\ Top(t, Iss[e]) = a + n + t.tx_pending + t.tx_avail
        /\ Top(s, Iss[e]) = a + s.tx_pending + s.tx_avail
    BY <1>3 DEF Top
  <2>2. t.tx_pending + t.tx_avail = s.tx_pending + s.tx_avail - n
    BY <1>3
  <2>3. a \in Nat
    BY <1>2
  <2> HIDE DEF s, a
  <2> QED
    BY <1>4, <2>1, <2>2, <2>3, SMTT(40)
<1>6. Nxt(t, Iss[Peer(e)]) = r
  BY <1>3 DEF Nxt
<1>7. /\ TxOk(s, txbuf[e], lib[e], qt, back, w, a)
      /\ RxOk(s, rxbuf[e], lib[e], qr, ready, g, r)
  BY DEF EndOk
<1>8. TxOk(t, txbuf[e], lib[e], qt, back2, w, a + n)
  <2>1. back2 <= back + n
    OBVIOUS
  <2> HIDE DEF s, a, qt, back, w
  <2> QED
    BY <1>1, <1>2, <1>3, <1>7, <2>1, TxOkAck
<1>9. RxOk(t, rxbuf[e], lib[e], qr, ready, g, r)
  BY <1>3, <1>7, RxOkSame
<1>10. InRings(t)
  <2>1. PICK x \in Nat : x = a + n
    BY <1>2, SMTT(40)
  <2>2. TxOk(t, txbuf[e], lib[e], qt, back2, w, x)
    BY <1>8, <2>1
  <2> HIDE DEF qt, qr, ready, w, g, r
  <2> QED
    BY <1>1, <1>2, <1>3, <1>9, <2>2, OkInRings
<1> QED
  BY <1>3, <1>5, <1>6, <1>8, <1>9, <1>10

\* An acknowledgement moves an end forward.
LEMMA AckedForward ==
  ASSUME IInv, NEW e \in Ends, NEW n \in Nat,
         Una(sock[e], Iss[e]) + n <= Nxt(sock[Peer(e)], Iss[e]),
         Una(sock'[e], Iss[e]) = Una(sock[e], Iss[e]) + n,
         Top(sock'[e], Iss[e]) = Top(sock[e], Iss[e]),
         Nxt(sock'[e], Iss[Peer(e)]) = Nxt(sock[e], Iss[Peer(e)])
  PROVE  Forward(e)
<1>1. TypeInv /\ EndOk(e) /\ PairOk(Peer(e)) /\ Peer(Peer(e)) = e
  BY PeerFacts DEF IInv
<1>2. /\ Una(sock[e], Iss[e]) \in Nat /\ Nxt(sock[e], Iss[Peer(e)]) \in Nat
      /\ Top(sock[e], Iss[e]) \in Nat
  BY <1>1, EndNumbers, EndFacts
<1>3. /\ Una(sock[e], Iss[e]) <= Una(sock[e], Iss[e]) + n
      /\ Nxt(sock[e], Iss[Peer(e)]) <= Nxt(sock[e], Iss[Peer(e)])
      /\ Top(sock[e], Iss[e]) <= Top(sock[e], Iss[e])
  BY <1>2, SMTT(40)
<1> QED
  BY <1>1, <1>3 DEF Forward, PairOk

\* tcp_event_rx with a full bump queue: the acknowledgement is taken in, and
\* the application is not told.
LEMMA RxDroppedStep ==
  ASSUME IInv, NEW e \in Ends, RxTxBumpDropped(e)
  PROVE  IInv'
<1> DEFINE s == sock[e]
           r == RxAck(e, Head(net[e]))
           t == r.acked
           back == BumpSum(Unhandled(e), "APP_TX")
<1>1. TypeInv /\ EndOk(e) /\ Peer(e) \in Ends /\ Peer(e) # e /\ Peer(Peer(e)) = e
      /\ PairOk(e) /\ PairOk(Peer(e))
  BY PeerFacts DEF IInv
<1>2. sock \in [Ends -> Sock]
  BY <1>1 DEF TypeInv
<1>3. /\ net[e] # <<>>
      /\ sock' = [sock EXCEPT ![e] = t]
      /\ net' = TakenAndSent(e, <<>>)
      /\ dropped' = dropped \cup {e}
      /\ UNCHANGED <<sched, txbuf, rxbuf, app_fast, fast_app, lib, polling, wrote,
                     got, load>>
  BY DEF RxTxBumpDropped, bufVars, libVars, slowVars
<1>4. PICK n \in Nat :
        /\ Una(s, Iss[e]) + n <= Nxt(sock[Peer(e)], Iss[e])
        /\ AckedTo(t, s, Iss[e], n)
  BY <1>3, AckFacts
<1> HIDE DEF r
<1>5. back \in Nat /\ Una(s, Iss[e]) \in Nat /\ Nxt(s, Iss[Peer(e)]) \in Nat
  BY <1>1, EndNumbers
<1>6. /\ t \in Sock
      /\ Una(t, Iss[e]) = Una(s, Iss[e]) + n
      /\ Top(t, Iss[e]) = Top(s, Iss[e])
      /\ Nxt(t, Iss[Peer(e)]) = Nxt(s, Iss[Peer(e)])
      /\ TxOk(t, txbuf[e], lib[e], BumpSum(app_fast[e], "CHAM_TX"), back,
              wrote[e], Una(t, Iss[e]))
      /\ RxOk(t, rxbuf[e], lib[e], BumpSum(app_fast[e], "CHAM_RX"),
              BumpSum(Unhandled(e), "APP_RX"), Len(got[e]), Nxt(t, Iss[Peer(e)]))
  <2>1. back <= back + n
    <3> HIDE DEF back
    <3> QED
      BY <1>5, SMTT(40)
  <2> QED
    BY <1>1, <1>4, <1>5, <2>1, AckedToOk
<1> HIDE DEF t
<1>7. sock' \in [Ends -> Sock] /\ sock'[e] = t /\ sock'[Peer(e)] = sock[Peer(e)]
  BY <1>1, <1>2, <1>3, <1>6
<1>8. Unhandled(e)' = Unhandled(e) /\ Unhandled(Peer(e))' = Unhandled(Peer(e))
  BY <1>3 DEF Unhandled
<1>9. EndOk(e)'
  BY <1>1, <1>3, <1>6, <1>7, <1>8 DEF EndOk
<1>10. EndSame(Peer(e))
  BY <1>1, <1>3, <1>7, <1>8 DEF EndSame
<1>11. net' \in [Ends -> Seq(Segment)] /\ SendsOk(e)
  <2> DEFINE segs == <<>>
  <2>1. /\ segs \in Seq(Segment)
        /\ \A m \in Segs(segs) : SegOk(m, Iss[e], Top(sock'[e], Iss[e]),
                                       Iss[Peer(e)], Nxt(sock'[e], Iss[Peer(e)]))
    BY SegsFew
  <2>2. net' = TakenAndSent(e, segs)
    BY <1>3
  <2> HIDE DEF segs
  <2> QED
    BY <1>1, <1>3, <2>1, <2>2, TakenAndSentOk
<1>12. TypeInv'
  BY <1>1, <1>3, <1>7, <1>11 DEF TypeInv
<1>13. Forward(e)
  BY <1>4, <1>6, <1>7, AckedForward
<1> QED
  BY <1>3, <1>9, <1>10, <1>11, <1>12, <1>13, OneEnd

\* tcp_event_rx without new payload.
LEMMA RxNoPayloadStep ==
  ASSUME IInv, NEW e \in Ends, RxNoPayload(e)
  PROVE  IInv'
<1> DEFINE s == sock[e]
           p == Head(net[e])
           r == RxAck(e, p)
           t == r.sock
           segs == IF p.data = <<>> THEN <<>> ELSE <<tx_fill_hdr(t, <<>>)>>
           back == BumpSum(Unhandled(e), "APP_TX")
           ready == BumpSum(Unhandled(e), "APP_RX")
           g == Len(got[e])
           x == Nxt(s, Iss[Peer(e)])
           a == Una(s, Iss[e])
<1>1. TypeInv /\ EndOk(e) /\ Peer(e) \in Ends /\ Peer(e) # e /\ Peer(Peer(e)) = e
      /\ PairOk(e) /\ PairOk(Peer(e))
  BY PeerFacts DEF IInv
<1>2. sock \in [Ends -> Sock] /\ lib[e] \in LibSock /\ wrote[e] \in Nat
  BY <1>1, EndTypes DEF TypeInv
<1>3. /\ net[e] # <<>>
      /\ sock' = [sock EXCEPT ![e] = t]
      /\ sched' = IF r.sched THEN sched \cup {e} ELSE sched
      /\ fast_app' = [fast_app EXCEPT ![e] = @ \o r.bumps]
      /\ net' = TakenAndSent(e, segs)
      /\ UNCHANGED <<txbuf, rxbuf, app_fast, lib, polling, wrote, got, load, dropped>>
  BY DEF RxNoPayload, Acked, libVars, slowVars
<1>4. PICK n \in Nat :
        /\ a + n <= Nxt(sock[Peer(e)], Iss[e])
        /\ AckedTo(t, s, Iss[e], n)
        /\ \/ r.bumps = <<>> /\ n = 0
           \/ r.bumps = <<[kind |-> "APP_TX", n |-> n]>>
        /\ sock_sched_avail(t) > 0 => r.sched \/ sock_sched_avail(s) > 0
  BY <1>3, AckFacts
<1> HIDE DEF r
<1>5. back \in Nat /\ ready \in Nat /\ g \in Nat /\ a \in Nat /\ x \in Nat
  BY <1>1, EndNumbers
<1>6. Unhandled(e) \in Seq(Bump)
  BY <1>1, UnhandledType
<1>7. /\ r.bumps \in Seq(Bump)
      /\ BumpSum(Unhandled(e) \o r.bumps, "APP_TX") = back + n
      /\ BumpSum(Unhandled(e) \o r.bumps, "APP_RX") = ready
  BY <1>4, <1>6, SumsMore
<1>8. /\ fast_app' \in [Ends -> Seq(Bump)]
      /\ Unhandled(e)' = Unhandled(e) \o r.bumps
      /\ Unhandled(Peer(e))' = Unhandled(Peer(e))
      /\ \A d \in Ends : polling'[d] = "handled" => fast_app'[d] # <<>>
  BY <1>1, <1>3, <1>7, UnhandledMore
<1>9. /\ BumpSum(Unhandled(e)', "APP_TX") = back + n
      /\ BumpSum(Unhandled(e)', "APP_RX") = ready
  BY <1>7, <1>8
<1>10. back + n \in Nat /\ back + n <= back + n
  <2> HIDE DEF back
  <2> QED
    BY <1>5, SMTT(40)
<1>11. /\ t \in Sock /\ InRings(t)
       /\ Una(t, Iss[e]) = a + n
       /\ Top(t, Iss[e]) = Top(s, Iss[e])
       /\ Nxt(t, Iss[Peer(e)]) = x
       /\ TxOk(t, txbuf[e], lib[e], BumpSum(app_fast[e], "CHAM_TX"), back + n,
               wrote[e], Una(t, Iss[e]))
       /\ RxOk(t, rxbuf[e], lib[e], BumpSum(app_fast[e], "CHAM_RX"), ready, g,
               Nxt(t, Iss[Peer(e)]))
  BY <1>1, <1>4, <1>10, AckedToOk
<1>12. e \notin dropped =>
         Exact(lib[e], back + n, ready, wrote[e], a + n, g, x)
  <2>1. e \notin dropped => Exact(lib[e], back, ready, wrote[e], a, g, x)
    BY <1>1 DEF EndOk
  <2>2. lib[e].tx_avail \in Nat
    BY <1>2, LibFields
  <2> HIDE DEF back, ready, a, g, x
  <2>3. wrote[e] - (a + n) + (back + n) = wrote[e] - a + back
    BY <1>2, <1>5, SMTT(40)
  <2> QED
    BY <2>1, <2>3 DEF Exact
<1>13. e \notin dropped /\ sock_sched_avail(t) > 0 => e \in sched'
  BY <1>1, <1>3, <1>4 DEF EndOk
<1>14. Peer(e) \in sched' <=> Peer(e) \in sched
  BY <1>1, <1>3
<1> HIDE DEF t
<1>15. sock' \in [Ends -> Sock] /\ sock'[e] = t /\ sock'[Peer(e)] = sock[Peer(e)]
  BY <1>1, <1>2, <1>3, <1>11
<1>16. EndOk(e)'
  BY <1>1, <1>3, <1>9, <1>11, <1>12, <1>13, <1>15 DEF EndOk
<1>17. EndSame(Peer(e))
  BY <1>1, <1>3, <1>8, <1>14, <1>15 DEF EndSame
<1>18. Top(s, Iss[e]) \in Nat /\ Top(s, Iss[e]) < SeqModulus
  BY <1>1, EndFacts, SockAssumption, SMTT(40)
<1>19. segs \in Seq(Segment)
       /\ \A m \in Segs(segs) : SegOk(m, Iss[e], Top(sock'[e], Iss[e]),
                                      Iss[Peer(e)], Nxt(sock'[e], Iss[Peer(e)]))
  <2>1. Iss[e] \in SeqNos /\ Iss[Peer(e)] \in SeqNos
    BY <1>1, PeerFacts
  <2>2. /\ tx_fill_hdr(t, <<>>) \in Segment
        /\ SegOk(tx_fill_hdr(t, <<>>), Iss[e], Top(t, Iss[e]),
                 Iss[Peer(e)], Nxt(t, Iss[Peer(e)]))
    BY <1>11, <1>18, <2>1, EmptyHdrOk
  <2> QED
    BY <1>15, <2>2, SegsFew
<1> HIDE DEF segs
<1>20. net' \in [Ends -> Seq(Segment)] /\ SendsOk(e)
  BY <1>1, <1>3, <1>19, TakenAndSentOk
<1>21. TypeInv'
  BY <1>1, <1>3, <1>8, <1>15, <1>20 DEF TypeInv
<1>22. Forward(e)
  BY <1>4, <1>11, <1>15, AckedForward
<1> QED
  BY <1>3, <1>16, <1>17, <1>20, <1>21, <1>22, OneEnd

\* Parts of a payload.
LEMMA SubSeqIs ==
  ASSUME NEW q \in Seq(Nat), NEW i \in 1 .. Len(q), NEW j \in 1 .. Len(q), i <= j
  PROVE  /\ SubSeq(q, i, j) \in Seq(Nat)
         /\ Len(SubSeq(q, i, j)) = j - i + 1
         /\ \A k \in 1 .. j - i + 1 : SubSeq(q, i, j)[k] = q[i + k - 1]
BY SMTT(40)

LEMMA EmptySubSeq ==
  ASSUME NEW q \in Seq(Nat), NEW n, n = 0
  PROVE  SubSeq(q, 1, n) = <<>>
BY SMTT(40)

\* The bytes of segment p that rx_copy_payload takes: those of the payload past
\* what arrived before (fresh), and of these as many as the ring has room for.
Taken(s, p, fresh, n, c) ==
  /\ fresh = SubSeq(p.data, rx_get_payload_overlap(s, p) + 1, Len(p.data))
  /\ n = rx_get_rx_bump(s, Len(fresh))
  /\ c = SubSeq(fresh, 1, n)

\* The bytes c are the next n of the stream, and both sides have them.
FreshOk(s, iss, top, fresh, n, c) ==
  /\ Len(fresh) \in Nat
  /\ n \in Nat /\ n <= RxLen - s.rx_avail
  /\ Nxt(s, iss) + n <= top
  /\ c \in Seq(Nat) /\ Len(c) = n
  /\ \A i \in 1 .. Len(c) : c[i] = Nxt(s, iss) + i

\* The new bytes of a segment that is neither a duplicate nor out of order are
\* those that follow what was received.
LEMMA PayloadIs ==
  ASSUME NEW s \in Sock, InRings(s), NEW iss \in SeqNos, NEW p, p.data \in Seq(Nat),
         NEW top \in Nat, 2 * top < SeqModulus, Nxt(s, iss) <= top,
         NEW off \in 0 .. top, p.seq = SeqAdd(iss, off),
         off + Len(p.data) <= top,
         \A i \in 1 .. Len(p.data) : p.data[i] = off + i,
         ~rx_is_payload_dup(s, p), ~rx_is_out_of_order(s, p)
  PROVE  \A fresh, n, c : Taken(s, p, fresh, n, c) => FreshOk(s, iss, top, fresh, n, c)
<1> DEFINE r == Nxt(s, iss)
           len == Len(p.data)
           o == rx_get_payload_overlap(s, p)
           fresh == SubSeq(p.data, o + 1, len)
           n == rx_get_rx_bump(s, Len(fresh))
           c == SubSeq(fresh, 1, n)
<1>1. s.rx_seq \in SeqNos /\ s.rx_avail \in Nat /\ RxLen - s.rx_avail \in Nat
  BY SockFields, SockAssumption, SMTT(40) DEF InRings
<1>2. r \in SeqNos /\ r = Pos(s.rx_seq, iss)
  BY <1>1, PosOfSeq DEF Nxt
<1>3. r \in Nat /\ len \in Nat /\ off \in SeqNos /\ off \in Nat
  BY <1>2, SockAssumption, SMTT(40) DEF SeqNos
<1>4. p.seq \in SeqNos /\ Pos(p.seq, iss) = off
  BY <1>3, PosOfSeq
<1> HIDE DEF r, len
<1>5. /\ SeqSub(p.seq, s.rx_seq) = IF off >= r THEN off - r ELSE off - r + SeqModulus
      /\ SeqSub(s.rx_seq, p.seq) = IF r >= off THEN r - off ELSE r - off + SeqModulus
  BY <1>1, <1>2, <1>4, PosDiff
<1>6. r <= top
  BY DEF r
<1>7. off <= r
  <2>1. SUFFICES ASSUME off > r PROVE FALSE
    BY <1>3, SMTT(40)
  <2>2. SeqSub(p.seq, s.rx_seq) = off - r
    BY <1>3, <1>5, <2>1, SMTT(40)
  <2>3. Positive(off - r)
    BY <1>3, <2>1, SockAssumption, SMTT(40) DEF Positive, Negative
  <2> QED
    BY <2>2, <2>3 DEF rx_is_out_of_order
<1>8. o = MinOf(r - off, len)
  <2>1. CASE off = r
    <3>1. SeqSub(p.seq, s.rx_seq) = 0 /\ r - off = 0
      BY <1>3, <1>5, <2>1, SMTT(40)
    <3>2. ~Negative(0)
      BY SockAssumption, SMTT(40) DEF Negative
    <3>3. o = 0
      BY <3>1, <3>2 DEF rx_get_payload_overlap
    <3> HIDE DEF o
    <3> QED
      BY <1>3, <3>1, <3>3, SMTT(40) DEF MinOf
  <2>2. CASE off < r
    <3>1. /\ SeqSub(p.seq, s.rx_seq) = off - r + SeqModulus
          /\ SeqSub(s.rx_seq, p.seq) = r - off
      BY <1>3, <1>5, <2>2, SMTT(40)
    <3>2. Negative(off - r + SeqModulus)
      BY <1>3, <1>6, <2>2, SockAssumption, SMTT(40) DEF Negative
    <3> QED
      BY <3>1, <3>2 DEF rx_get_payload_overlap, len
  <2> QED
    BY <1>3, <1>7, <2>1, <2>2, SMTT(40)
<1>9. ~(len <= o)
  BY DEF rx_is_payload_dup, len
<1> HIDE DEF o
<1>10. o = r - off /\ o \in Nat /\ o < len
  BY <1>3, <1>7, <1>8, <1>9, SMTT(40) DEF MinOf
<1>11. /\ fresh \in Seq(Nat) /\ Len(fresh) = len - o
       /\ \A i \in 1 .. len - o : fresh[i] = p.data[o + i]
  <2>1. o + 1 \in 1 .. len /\ len \in 1 .. len /\ o + 1 <= len /\ len = Len(p.data)
    BY <1>3, <1>10, SMTT(40) DEF len
  <2>2. /\ fresh \in Seq(Nat) /\ Len(fresh) = len - (o + 1) + 1
        /\ \A i \in 1 .. len - (o + 1) + 1 : fresh[i] = p.data[o + 1 + i - 1]
    BY <2>1, SubSeqIs
  <2> HIDE DEF fresh
  <2>3. len - (o + 1) + 1 = len - o /\ \A i \in 1 .. len - o : o + 1 + i - 1 = o + i
    BY <1>3, <1>10, SMTT(40)
  <2> QED
    BY <2>2, <2>3
<1> HIDE DEF fresh
<1>12. \A i \in 1 .. Len(fresh) : fresh[i] = r + i
  <2>1. ASSUME NEW i \in 1 .. len - o
        PROVE  fresh[i] = r + i
    <3>1. o + i \in 1 .. len /\ off + (o + i) = r + i
      BY <1>3, <1>10, SMTT(40)
    <3>2. p.data[o + i] = off + (o + i)
      BY <3>1 DEF len
    <3> QED
      BY <1>11, <3>1, <3>2
  <2> QED
    BY <1>11, <2>1
<1>13. /\ Len(fresh) \in Nat /\ n \in Nat /\ n <= Len(fresh) /\ n <= RxLen - s.rx_avail
  BY <1>1, <1>3, <1>10, <1>11, SMTT(40) DEF rx_get_rx_bump, MinOf
<1> HIDE DEF n
<1>14. r + n <= top
  <2>1. r + Len(fresh) = off + len /\ off + len <= top
    BY <1>3, <1>10, <1>11, SMTT(40) DEF len
  <2> QED
    BY <1>3, <1>13, <2>1, SMTT(40)
<1>15. /\ c \in Seq(Nat) /\ Len(c) = n
       /\ \A i \in 1 .. Len(c) : c[i] = r + i
  <2>1. CASE n = 0
    <3>1. c = <<>>
      BY <1>11, <2>1, EmptySubSeq
    <3> QED
      BY <2>1, <3>1, SMTT(40)
  <2>2. CASE n > 0
    <3>1. 1 \in 1 .. Len(fresh) /\ n \in 1 .. Len(fresh)
      BY <1>13, <2>2, SMTT(40)
    <3>2. /\ c \in Seq(Nat) /\ Len(c) = n - 1 + 1
          /\ \A i \in 1 .. n - 1 + 1 : c[i] = fresh[1 + i - 1]
      BY <1>11, <3>1, SubSeqIs, SMTT(40)
    <3> HIDE DEF c
    <3>3. n - 1 + 1 = n /\ \A i \in 1 .. n : 1 + i - 1 = i /\ i \in 1 .. Len(fresh)
      BY <1>13, SMTT(40)
    <3> QED
      BY <1>12, <3>2, <3>3
  <2> QED
    BY <1>13, <2>1, <2>2, SMTT(40)
<1> QED
  BY <1>13, <1>14, <1>15 DEF r, n, fresh, o, len, Taken, FreshOk

LEMMA AppendConcat ==
  ASSUME NEW q \in Seq(Bump), NEW p \in Seq(Bump), NEW b \in Bump
  PROVE  /\ Append(p, b) \in Seq(Bump)
         /\ q \o Append(p, b) = Append(q \o p, b)
BY SMTT(40)

\* One more bump, of n bytes to read, at the end of the bumps p.
WithReady(p, n) == Append(p, [kind |-> "APP_RX", n |-> n])

\* After bumps q, the bumps bs promise what the bumps p do, and k bytes to read.
ReadyMore(q, p, bs, k) ==
  /\ BumpSum(q \o bs, "APP_TX") = BumpSum(q \o p, "APP_TX")
  /\ BumpSum(q \o bs, "APP_RX") = BumpSum(q \o p, "APP_RX") + k

\* One more bump of n bytes promises the library n more bytes to read.
LEMMA SumsReady ==
  ASSUME NEW q \in Seq(Bump), NEW p \in Seq(Bump), NEW n \in Nat
  PROVE  /\ WithReady(p, n) \in Seq(Bump)
         /\ q \o WithReady(p, n) = WithReady(q \o p, n)
         /\ ReadyMore(q, p, WithReady(p, n), n)
<1> DEFINE b == [kind |-> "APP_RX", n |-> n]
           y == Append(q \o p, b)
           bs == Append(p, b)
<1>1. b \in Bump /\ q \o p \in Seq(Bump)
  BY SMTT(40) DEF Bump, BumpKinds
<1>2. BumpSum(q \o p, "APP_TX") \in Nat /\ BumpSum(q \o p, "APP_RX") \in Nat
  BY <1>1, SumsType
<1>3. bs \in Seq(Bump) /\ q \o bs = y
  BY <1>1, AppendConcat
<1>4. /\ y \in Seq(Bump)
      /\ \A k \in BumpKinds :
           BumpSum(y, k) = BumpSum(q \o p, k) + (IF k = "APP_RX" THEN n ELSE 0)
  BY <1>1, SumsAppend DEF BumpKinds
<1>5. bs = WithReady(p, n) /\ y = WithReady(q \o p, n)
  BY DEF WithReady
<1> HIDE DEF y, bs
<1>6. /\ BumpSum(y, "APP_RX") = BumpSum(q \o p, "APP_RX") + n
      /\ BumpSum(y, "APP_TX") = BumpSum(q \o p, "APP_TX") + 0
  BY <1>4 DEF BumpKinds
<1>7. BumpSum(q \o p, "APP_TX") + 0 = BumpSum(q \o p, "APP_TX")
  BY <1>2, SMTT(40)
<1>8. ReadyMore(q, p, bs, n)
  BY <1>3, <1>6, <1>7 DEF ReadyMore
<1> QED
  BY <1>3, <1>5, <1>8

\* tcp_event_rx with new payload.
LEMMA RxPayloadStep ==
  ASSUME IInv, NEW e \in Ends, RxPayload(e)
  PROVE  IInv'
<1> DEFINE s == sock[e]
           p == Head(net[e])
           r == RxAck(e, p)
           t == r.sock
           fresh == SubSeq(p.data, rx_get_payload_overlap(s, p) + 1, Len(p.data))
           n == rx_get_rx_bump(s, Len(fresh))
           c == SubSeq(fresh, 1, n)
           u == rx_sock_bump_rx(t, n)
           told == n = 0 \/ Len(fast_app[e] \o r.bumps) < load.bumps
           b == [kind |-> "APP_RX", n |-> n]
           news == n > 0 /\ told
           bs == IF news THEN Append(r.bumps, b) ELSE r.bumps
           segs == IF told THEN <<tx_fill_hdr(u, <<>>)>> ELSE <<>>
           qt == BumpSum(app_fast[e], "CHAM_TX")
           qr == BumpSum(app_fast[e], "CHAM_RX")
           back == BumpSum(Unhandled(e), "APP_TX")
           ready == BumpSum(Unhandled(e), "APP_RX")
           g == Len(got[e])
           x == Nxt(s, Iss[Peer(e)])
           a == Una(s, Iss[e])
           top == Top(sock[Peer(e)], Iss[Peer(e)])
<1>1. TypeInv /\ EndOk(e) /\ Peer(e) \in Ends /\ Peer(e) # e /\ Peer(Peer(e)) = e
      /\ PairOk(e) /\ PairOk(Peer(e)) /\ EndOk(Peer(e))
      /\ Iss[e] \in SeqNos /\ Iss[Peer(e)] \in SeqNos
  BY PeerFacts DEF IInv
<1>2. /\ sock \in [Ends -> Sock] /\ s \in Sock /\ lib[e] \in LibSock /\ wrote[e] \in Nat
      /\ rxbuf \in [Ends -> [0 .. RxLen - 1 -> Nat]]
      /\ rxbuf[e] \in [0 .. RxLen - 1 -> Nat]
  BY <1>1, EndTypes DEF TypeInv
<1>3. /\ net[e] # <<>> /\ ~rx_is_payload_dup(s, p) /\ ~rx_is_out_of_order(s, p)
      /\ sock' = [sock EXCEPT ![e] = u]
      /\ sched' = IF r.sched THEN sched \cup {e} ELSE sched
      /\ fast_app' = [fast_app EXCEPT ![e] = IF news
                        THEN Append(fast_app[e] \o r.bumps, b)
                        ELSE fast_app[e] \o r.bumps]
      /\ net' = TakenAndSent(e, segs)
      /\ dropped' = IF told THEN dropped ELSE dropped \cup {e}
      /\ rxbuf' = [rxbuf EXCEPT ![e] = RingWrite(@, RxTail(s), c, RxLen)]
      /\ UNCHANGED <<txbuf, app_fast, lib, polling, wrote, got, load>>
  BY DEF RxPayload, Acked, libVars, slowVars
<1>4. PICK m \in Nat :
        /\ a + m <= Nxt(sock[Peer(e)], Iss[e])
        /\ AckedTo(t, s, Iss[e], m)
        /\ \/ r.bumps = <<>> /\ m = 0
           \/ r.bumps = <<[kind |-> "APP_TX", n |-> m]>>
        /\ sock_sched_avail(t) > 0 => r.sched \/ sock_sched_avail(s) > 0
  BY <1>3, AckFacts
<1>5. /\ back \in Nat /\ ready \in Nat /\ g \in Nat /\ a \in Nat /\ x \in Nat
      /\ qt \in Nat /\ qr \in Nat
  BY <1>1, EndNumbers
<1>6. /\ top \in Nat /\ 2 * top < SeqModulus /\ x <= top
      /\ InRings(s) /\ Top(s, Iss[e]) \in Nat /\ Top(s, Iss[e]) < SeqModulus
  <2>1. /\ top \in Nat /\ 2 * top < SeqModulus
        /\ InRings(s) /\ Top(s, Iss[e]) \in Nat /\ 2 * Top(s, Iss[e]) < SeqModulus
    BY <1>1, EndFacts
  <2>2. x <= top
    BY <1>1 DEF PairOk
  <2> QED
    BY <2>1, <2>2, SockAssumption, SMTT(40)
<1>7. /\ Len(fresh) \in Nat
      /\ n \in Nat /\ n <= RxLen - s.rx_avail /\ x + n <= top
      /\ c \in Seq(Nat) /\ Len(c) = n
      /\ \A i \in 1 .. Len(c) : c[i] = x + i
  <2>1. p \in Segment /\ SegOk(p, Iss[Peer(e)], top, Iss[e], Nxt(sock[Peer(e)], Iss[e]))
    BY <1>3, HeadOk
  <2>2. p.data \in Seq(Nat)
    BY <2>1 DEF Segment
  <2>3. PICK off \in 0 .. top :
          /\ p.seq = SeqAdd(Iss[Peer(e)], off)
          /\ off + Len(p.data) <= top
          /\ \A i \in 1 .. Len(p.data) : p.data[i] = off + i
    BY <2>1 DEF SegOk
  <2>4. s \in Sock /\ InRings(s) /\ Iss[Peer(e)] \in SeqNos
    BY <1>1, <1>2, <1>6
  <2>5. top \in Nat /\ 2 * top < SeqModulus /\ Nxt(s, Iss[Peer(e)]) <= top
    BY <1>6
  <2>6. ~rx_is_payload_dup(s, p) /\ ~rx_is_out_of_order(s, p)
    BY <1>3
  <2>7. /\ fresh = SubSeq(p.data, rx_get_payload_overlap(s, p) + 1, Len(p.data))
        /\ n = rx_get_rx_bump(s, Len(fresh))
        /\ c = SubSeq(fresh, 1, n)
    OBVIOUS
  <2>8. /\ p.seq = SeqAdd(Iss[Peer(e)], off)
        /\ off + Len(p.data) <= top
        /\ \A i \in 1 .. Len(p.data) : p.data[i] = off + i
        /\ off \in 0 .. top
    BY <2>3
  <2> HIDE DEF p, s, top, fresh, n, c
  <2>9. \A fr, k, d : Taken(s, p, fr, k, d) => FreshOk(s, Iss[Peer(e)], top, fr, k, d)
    BY <2>2, <2>4, <2>5, <2>6, <2>8, PayloadIs
  <2>10. Taken(s, p, fresh, n, c)
    BY <2>7 DEF Taken
  <2>11. FreshOk(s, Iss[Peer(e)], top, fresh, n, c)
    BY <2>9, <2>10
  <2> QED
    BY <2>11 DEF FreshOk
<1>8. n = rx_get_rx_bump(t, Len(fresh))
  <2>1. t.rx_avail = s.rx_avail
    BY <1>4 DEF AckedTo
  <2> QED
    BY <2>1 DEF rx_get_rx_bump
<1> HIDE DEF r, n, c, fresh
<1>9. /\ r.bumps \in Seq(Bump) /\ Unhandled(e) \o r.bumps \in Seq(Bump)
      /\ BumpSum(Unhandled(e) \o r.bumps, "APP_TX") = back + m
      /\ BumpSum(Unhandled(e) \o r.bumps, "APP_RX") = ready
  <2>1. Unhandled(e) \in Seq(Bump)
    BY <1>1, UnhandledType
  <2> QED
    BY <1>4, <2>1, SumsMore
<1>10. /\ bs \in Seq(Bump)
       /\ fast_app' = [fast_app EXCEPT ![e] = @ \o bs]
       /\ BumpSum(Unhandled(e) \o bs, "APP_TX") = back + m
       /\ news => BumpSum(Unhandled(e) \o bs, "APP_RX") = ready + n
       /\ ~news => BumpSum(Unhandled(e) \o bs, "APP_RX") = ready
  <2>1. /\ Unhandled(e) \in Seq(Bump) /\ fast_app[e] \in Seq(Bump)
        /\ news \in BOOLEAN /\ n \in Nat /\ r.bumps \in Seq(Bump)
    BY <1>1, <1>7, <1>9, UnhandledType, EndTypes
  <2>2. CASE news
    <3>1. bs = WithReady(r.bumps, n)
      BY <2>2 DEF WithReady
    <3>2. fast_app' = [fast_app EXCEPT ![e] = WithReady(fast_app[e] \o r.bumps, n)]
      BY <1>3, <2>2 DEF WithReady
    <3> HIDE DEF news, b, bs
    <3>3. bs \in Seq(Bump) /\ ReadyMore(Unhandled(e), r.bumps, bs, n)
      BY <2>1, <3>1, SumsReady
    <3>4. fast_app[e] \o bs = WithReady(fast_app[e] \o r.bumps, n)
      BY <2>1, <3>1, SumsReady
    <3>5. fast_app' = [fast_app EXCEPT ![e] = fast_app[e] \o bs]
      BY <3>2, <3>4
    <3> QED
      BY <1>9, <2>2, <3>3, <3>5 DEF ReadyMore
  <2>3. CASE ~news
    <3>1. bs = r.bumps /\ fast_app' = [fast_app EXCEPT ![e] = fast_app[e] \o r.bumps]
      BY <1>3, <2>3
    <3> HIDE DEF news, b, bs
    <3> QED
      BY <1>9, <2>1, <2>3, <3>1
  <2> QED
    BY <2>2, <2>3
<1> HIDE DEF bs
<1>11. /\ fast_app' \in [Ends -> Seq(Bump)]
       /\ Unhandled(e)' = Unhandled(e) \o bs
       /\ Unhandled(Peer(e))' = Unhandled(Peer(e))
       /\ \A d \in Ends : polling'[d] = "handled" => fast_app'[d] # <<>>
  BY <1>1, <1>3, <1>10, UnhandledMore
<1> DEFINE ready2 == BumpSum(Unhandled(e)', "APP_RX")
<1>12. /\ BumpSum(Unhandled(e)', "APP_TX") = back + m
       /\ news => ready2 = ready + n
       /\ ~news => ready2 = ready
  BY <1>10, <1>11
<1>13. /\ n \in Nat /\ back + m \in Nat /\ back + m <= back + m
       /\ ready2 \in Nat /\ ready2 <= ready + n
       /\ told => ready2 = ready + n
  <2>1. n \in Nat
    BY <1>7
  <2> HIDE DEF back, ready, ready2, told
  <2> QED
    BY <1>5, <1>12, <2>1, SMTT(40)
<1> HIDE DEF ready2
<1>14. /\ t \in Sock /\ InRings(t)
       /\ Una(t, Iss[e]) = a + m
       /\ Top(t, Iss[e]) = Top(s, Iss[e])
       /\ Nxt(t, Iss[Peer(e)]) = x
       /\ TxOk(t, txbuf[e], lib[e], qt, back + m, wrote[e], a + m)
       /\ RxOk(t, rxbuf[e], lib[e], qr, ready, g, x)
  <2>1. AckedTo(t, s, Iss[e], m)
    BY <1>4
  <2> QED
    BY <1>1, <1>13, <2>1, AckedToOk
<1> HIDE DEF t
<1>15. /\ u \in Sock
       /\ u.tx_pending = t.tx_pending /\ u.tx_avail = t.tx_avail
       /\ u.tx_head = t.tx_head /\ u.tx_seq = t.tx_seq
       /\ u.rx_head = t.rx_head /\ u.rx_avail = t.rx_avail + n
       /\ u.rx_seq = SeqAdd(t.rx_seq, n)
       /\ u.rx_avail <= RxLen
       /\ sock_sched_avail(u) = sock_sched_avail(t)
  <2>1. u \in Sock /\ InRings(u)
    BY <1>7, <1>8, <1>14, ReceivesIntoRing
  <2>2. /\ u.tx_pending = t.tx_pending /\ u.tx_avail = t.tx_avail
        /\ u.tx_head = t.tx_head /\ u.tx_seq = t.tx_seq
        /\ u.rx_head = t.rx_head /\ u.rx_avail = t.rx_avail + n
        /\ u.rx_seq = SeqAdd(t.rx_seq, n)
        /\ u.tx_remote_avail = t.tx_remote_avail
        /\ u.recovery_active = t.recovery_active
        /\ u.recovery_end_seq = t.recovery_end_seq
    BY <1>14 DEF rx_sock_bump_rx, Sock
  <2> HIDE DEF u
  <2>3. sock_sched_avail(u) = sock_sched_avail(t)
    BY <2>2, SchedAvailSame
  <2> QED
    BY <2>1, <2>2, <2>3 DEF InRings
<1> HIDE DEF u
<1>16. /\ Una(u, Iss[e]) = a + m /\ Top(u, Iss[e]) = Top(s, Iss[e])
       /\ Nxt(u, Iss[Peer(e)]) = x + n
  <2>1. Una(u, Iss[e]) = a + m /\ Top(u, Iss[e]) = Top(s, Iss[e])
    BY <1>14, <1>15 DEF Una, Top
  <2>2. x + n < SeqModulus /\ n \in Nat
    <3>1. x + n <= top /\ n \in Nat
      BY <1>7
    <3> HIDE DEF x, top
    <3> QED
      BY <1>5, <1>6, <3>1, SockAssumption, SMTT(40)
  <2>3. t.rx_seq \in SeqNos /\ Pos(t.rx_seq, Iss[Peer(e)]) = x
    BY <1>14, SockFields DEF Nxt
  <2>4. Pos(SeqAdd(t.rx_seq, n), Iss[Peer(e)]) = x + n
    <3>1. Iss[Peer(e)] \in SeqNos
      BY <1>1
    <3>2. Pos(t.rx_seq, Iss[Peer(e)]) + n < SeqModulus
      BY <2>2, <2>3
    <3>3. Pos(SeqAdd(t.rx_seq, n), Iss[Peer(e)]) = Pos(t.rx_seq, Iss[Peer(e)]) + n
      BY <2>2, <2>3, <3>1, <3>2, PosAhead
    <3> QED
      BY <2>3, <3>3
  <2> QED
    BY <1>15, <2>1, <2>4 DEF Nxt
<1>17. /\ rxbuf' \in [Ends -> [0 .. RxLen - 1 -> Nat]]
       /\ rxbuf'[Peer(e)] = rxbuf[Peer(e)]
       /\ \A i \in Told(lib[e], qr, g) + 1 .. x + n : rxbuf'[e][At(i - 1, RxLen)] = i
  <2>1. RxOk(s, rxbuf[e], lib[e], qr, ready, g, x)
    BY <1>1 DEF EndOk
  <2>2. RxTail(s) = At(x, RxLen)
    <3> HIDE DEF s, qr, ready, g, x
    <3> QED
      BY <1>2, <1>5, <2>1, RxTailIs
  <2>3. PICK f \in Nat : f = Told(lib[e], qr, g)
    BY <1>1, EndFacts, SMTT(40)
  <2>4. f <= x /\ s.rx_avail = x - f /\ \A i \in f + 1 .. x : rxbuf[e][At(i - 1, RxLen)] = i
    <3>1. Told(lib[e], qr, g) \in 0 .. g /\ g <= x
      BY <1>1, EndFacts
    <3>2. f <= x
      <4> HIDE DEF qr, g, x
      <4> QED
        BY <1>5, <2>3, <3>1, SMTT(40)
    <3> QED
      BY <2>1, <2>3, <3>2 DEF RxOk
  <2>5. f \in 0 .. x /\ x - f + Len(c) <= RxLen
    <3>1. Len(c) = n /\ n \in Nat /\ n <= RxLen - s.rx_avail
      BY <1>7
    <3>2. s.rx_avail \in Nat
      BY <1>2, SockFields
    <3> HIDE DEF x, s
    <3> QED
      BY <1>5, <2>3, <2>4, <3>1, <3>2, SockAssumption, SMTT(40)
  <2>6. RxLen \in Nat \ {0}
    BY SockAssumption
  <2>7. c \in Seq(Nat) /\ \A i \in 1 .. Len(c) : c[i] = x + i
    BY <1>7
  <2>8. \A i \in f + 1 .. x : rxbuf[e][At(i - 1, RxLen)] = i
    BY <2>4
  <2>9. x \in Nat /\ rxbuf[e] \in [0 .. RxLen - 1 -> Nat]
    BY <1>2, <1>5
  <2> HIDE DEF x
  <2>10. LET y == RingWrite(rxbuf[e], At(x, RxLen), c, RxLen)
         IN  /\ y \in [0 .. RxLen - 1 -> Nat]
             /\ \A i \in f + 1 .. x + Len(c) : y[At(i - 1, RxLen)] = i
    BY <2>5, <2>6, <2>7, <2>8, <2>9, RingWriteIs
  <2> DEFINE y == RingWrite(rxbuf[e], At(x, RxLen), c, RxLen)
  <2>11. rxbuf' = [rxbuf EXCEPT ![e] = y]
    BY <1>3, <2>2
  <2>12. y \in [0 .. RxLen - 1 -> Nat] /\ \A i \in f + 1 .. x + n : y[At(i - 1, RxLen)] = i
    BY <1>7, <2>10
  <2> HIDE DEF y
  <2> QED
    BY <1>1, <1>2, <2>3, <2>11, <2>12
<1>18. TxOk(u, txbuf[e], lib[e], qt, back + m, wrote[e], a + m)
  <2>1. a + m \in Nat
    <3> HIDE DEF a
    <3> QED
      BY <1>5, SMTT(40)
  <2> HIDE DEF a, qt, back
  <2> QED
    BY <1>14, <1>15, <2>1, TxOkSame
<1>19. RxOk(u, rxbuf'[e], lib[e], qr, ready2, g, x + n)
  <2>1. \A i \in Told(lib[e], qr, g) + 1 .. x + n : rxbuf'[e][At(i - 1, RxLen)] = i
    BY <1>17
  <2> HIDE DEF qr, ready, g, x
  <2> QED
    BY <1>2, <1>5, <1>13, <1>14, <1>15, <2>1, RxOkReceive
<1>20. e \notin dropped' =>
         Exact(lib[e], back + m, ready2, wrote[e], a + m, g, x + n)
  <2>1. e \notin dropped' => e \notin dropped /\ told
    BY <1>3
  <2>2. e \notin dropped => Exact(lib[e], back, ready, wrote[e], a, g, x)
    BY <1>1 DEF EndOk
  <2>3. told => ready2 = ready + n
    BY <1>13
  <2>4. lib[e].rx_avail \in Nat /\ n \in Nat /\ wrote[e] \in Nat
    BY <1>2, <1>13, LibFields
  <2> HIDE DEF back, ready, a, g, x, told
  <2>5. /\ wrote[e] - (a + m) + (back + m) = wrote[e] - a + back
        /\ (x + n) - g = x - g + n
        /\ lib[e].rx_avail + ready + n = lib[e].rx_avail + (ready + n)
    BY <1>5, <2>4, SMTT(40)
  <2>6. SUFFICES ASSUME e \notin dropped'
                 PROVE  Exact(lib[e], back + m, ready2, wrote[e], a + m, g, x + n)
    OBVIOUS
  <2>7. lib[e].tx_avail = wrote[e] - a + back /\ x - g = lib[e].rx_avail + ready
    BY <2>1, <2>2, <2>6 DEF Exact
  <2>8. ready2 = ready + n
    BY <2>1, <2>3, <2>6
  <2>9. lib[e].tx_avail = wrote[e] - (a + m) + (back + m)
    BY <2>5, <2>7
  <2>10. (x + n) - g = lib[e].rx_avail + ready2
    BY <2>5, <2>7, <2>8
  <2> QED
    BY <2>9, <2>10 DEF Exact
<1>21. e \notin dropped' /\ sock_sched_avail(u) > 0 => e \in sched'
  <2>1. e \notin dropped' => e \notin dropped
    BY <1>3
  <2>2. sock_sched_avail(t) > 0 => r.sched \/ sock_sched_avail(s) > 0
    BY <1>4
  <2> QED
    BY <1>1, <1>3, <1>15, <2>1, <2>2 DEF EndOk
<1>22. /\ Peer(e) \in sched' <=> Peer(e) \in sched
       /\ Peer(e) \in dropped' <=> Peer(e) \in dropped
  BY <1>1, <1>3
<1>23. sock' \in [Ends -> Sock] /\ sock'[e] = u /\ sock'[Peer(e)] = sock[Peer(e)]
  BY <1>1, <1>2, <1>3, <1>15
<1>24. EndOk(e)'
  <2>1. /\ \A i \in 1 .. g : got[e][i] = i
        /\ wrote[e] <= load.bytes[e]
    BY <1>1 DEF EndOk
  <2> HIDE DEF told, segs, b, news, p
  <2> QED
    BY <1>3, <1>12, <1>16, <1>18, <1>19, <1>20, <1>21, <1>23, <2>1 DEF EndOk, ready2
<1>25. EndSame(Peer(e))
  BY <1>1, <1>3, <1>11, <1>17, <1>22, <1>23 DEF EndSame
<1>26. InRings(u)
  <2>1. a + m \in Nat /\ x + n \in Nat
    <3> HIDE DEF a, x
    <3> QED
      BY <1>5, <1>13, SMTT(40)
  <2> HIDE DEF qt, qr, back, g, a, x
  <2> QED
    BY <1>2, <1>5, <1>13, <1>15, <1>18, <1>19, <2>1, OkInRings
<1>27. segs \in Seq(Segment)
       /\ \A d \in Segs(segs) : SegOk(d, Iss[e], Top(sock'[e], Iss[e]),
                                      Iss[Peer(e)], Nxt(sock'[e], Iss[Peer(e)]))
  <2>1. /\ tx_fill_hdr(u, <<>>) \in Segment
        /\ SegOk(tx_fill_hdr(u, <<>>), Iss[e], Top(u, Iss[e]),
                 Iss[Peer(e)], Nxt(u, Iss[Peer(e)]))
    BY <1>1, <1>6, <1>15, <1>16, <1>26, EmptyHdrOk
  <2> HIDE DEF told
  <2> QED
    BY <1>23, <2>1, SegsFew
<1> HIDE DEF segs
<1>28. net' \in [Ends -> Seq(Segment)] /\ SendsOk(e)
  BY <1>1, <1>3, <1>27, TakenAndSentOk
<1>29. TypeInv'
  BY <1>1, <1>3, <1>11, <1>17, <1>23, <1>28 DEF TypeInv
<1>30. Forward(e)
  <2>1. a <= Una(u, Iss[e]) /\ x <= Nxt(u, Iss[Peer(e)])
    <3> HIDE DEF a, x
    <3> QED
      BY <1>5, <1>13, <1>16, SMTT(40)
  <2>2. Nxt(u, Iss[Peer(e)]) <= top
    BY <1>7, <1>16
  <2>3. Una(u, Iss[e]) <= Nxt(sock[Peer(e)], Iss[e])
    BY <1>4, <1>16
  <2>4. Top(s, Iss[e]) <= Top(u, Iss[e])
    BY <1>6, <1>16, SMTT(40)
  <2> QED
    BY <1>23, <2>1, <2>2, <2>3, <2>4 DEF Forward
<1> QED
  BY <1>3, <1>24, <1>25, <1>28, <1>29, <1>30, OneEnd

=============================================================================
