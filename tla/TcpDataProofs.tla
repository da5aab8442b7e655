--------------------------- MODULE TcpDataProofs ----------------------------
(***************************************************************************)
(* Proofs about the TCP data path: for every length of the rings and of    *)
(* the queues, every width of sequence numbers and windows, and whatever   *)
(* the network does, the bytes arrive as they were written.                *)
(***************************************************************************)
EXTENDS TcpDataSteps, TcpDataReceive

\* Leaves that need arithmetic, or updates of records, say SMTT.
USE ZenonT(40)

-----------------------------------------------------------------------------
(* The steps of the slow path and of the network *)

\* Steps that leave the ends alone and only take, repeat or reorder segments.
LEMMA EndsAlone ==
  ASSUME IInv,
         UNCHANGED <<sock, sched, txbuf, rxbuf, app_fast, fast_app, lib, polling,
                     wrote, got, load, dropped>>,
         net' \in [Ends -> Seq(Segment)],
         \A e \in Ends : \A m \in Segs(net'[e]) : m \in Segs(net[e])
  PROVE  IInv'
<1>1. TypeInv /\ \A e \in Ends : EndOk(e) /\ PairOk(e) /\ NetOk(e)
  BY DEF IInv
<1>2. TypeInv'
  BY <1>1 DEF TypeInv
<1>3. ASSUME NEW e \in Ends
      PROVE  EndOk(e)' /\ PairOk(e)' /\ NetOk(e)'
  <2>1. EndOk(e) /\ PairOk(e) /\ NetOk(e)
    BY <1>1
  <2>2. Unhandled(e)' = Unhandled(e)
    BY DEF Unhandled
  <2>3. EndSame(e)
    BY <2>2 DEF EndSame
  <2>4. EndOk(e)'
    BY <2>1, <2>3, EndSameOk
  <2>5. PairOk(e)'
    BY <2>1 DEF PairOk
  <2>6. NetOk(e)'
    BY <2>1 DEF NetOk
  <2> QED
    BY <2>4, <2>5, <2>6
<1> QED
  BY <1>2, <1>3 DEF IInv

\* sock_on_tx_stall and tcp_tx_retransmit change what the slow path asks for.
LEMMA SlowStep ==
  ASSUME IInv, NEW e \in Ends, Slow(e)
  PROVE  IInv'
<1>1. UNCHANGED <<sock, sched, txbuf, rxbuf, app_fast, fast_app, lib, polling,
                  wrote, got, load, dropped, net>>
  <2>1. CASE sock_on_tx_stall(e)
    BY <2>1 DEF sock_on_tx_stall, fastVars, bufVars, libVars, history
  <2>2. CASE RetransmitFull(e)
    BY <2>2 DEF RetransmitFull, fastVars, bufVars, libVars, history
  <2>3. CASE RetransmitRead(e)
    BY <2>3 DEF RetransmitRead, fastVars, bufVars, libVars, history
  <2>4. CASE tcp_tx_retransmit(e)
    BY <2>4 DEF tcp_tx_retransmit, fastVars, bufVars, libVars, history
  <2> QED
    BY <2>1, <2>2, <2>3, <2>4 DEF Slow
<1>2. net' \in [Ends -> Seq(Segment)]
  BY <1>1 DEF IInv, TypeInv
<1> QED
  BY <1>1, <1>2, EndsAlone

LEMMA SegsPart ==
  ASSUME NEW q \in Seq(Segment), NEW i \in Nat \ {0}, NEW j \in 0 .. Len(q)
  PROVE  /\ SubSeq(q, i, j) \in Seq(Segment)
         /\ \A m \in Segs(SubSeq(q, i, j)) : m \in Segs(q)
<1>1. Len(q) \in Nat
  BY SMTT(40)
<1>2. CASE i <= j
  <2>1. i \in 1 .. Len(q) /\ j \in 1 .. Len(q)
    BY <1>1, <1>2, SMTT(40)
  <2>2. /\ SubSeq(q, i, j) \in Seq(Segment) /\ Len(SubSeq(q, i, j)) = j - i + 1
        /\ \A k \in 1 .. j - i + 1 : SubSeq(q, i, j)[k] = q[i + k - 1]
    BY <1>2, <2>1, SMTT(40)
  <2>3. \A k \in 1 .. j - i + 1 : i + k - 1 \in 1 .. Len(q)
    BY <1>1, <1>2, <2>1, SMTT(40)
  <2> QED
    BY <2>2, <2>3 DEF Segs
<1>3. CASE i > j
  <2>1. SubSeq(q, i, j) = <<>>
    BY <1>3, SMTT(40)
  <2> QED
    BY <2>1, SegsFew
<1> QED
  BY <1>1, <1>2, <1>3, SMTT(40)

\* Taking a segment out of the middle, and putting one in front or behind.
LEMMA SegsWithout ==
  ASSUME NEW q \in Seq(Segment), NEW i \in DOMAIN q
  PROVE  /\ Without(q, i) \in Seq(Segment)
         /\ \A m \in Segs(Without(q, i)) : m \in Segs(q)
<1>1. Len(q) \in Nat /\ i \in 1 .. Len(q)
  BY SMTT(40)
<1>2. 1 \in Nat \ {0} /\ i + 1 \in Nat \ {0} /\ i - 1 \in 0 .. Len(q) /\ Len(q) \in 0 .. Len(q)
  BY <1>1, SMTT(40)
<1>3. /\ SubSeq(q, 1, i - 1) \in Seq(Segment)
      /\ \A m \in Segs(SubSeq(q, 1, i - 1)) : m \in Segs(q)
  BY <1>2, SegsPart
<1>4. /\ SubSeq(q, i + 1, Len(q)) \in Seq(Segment)
      /\ \A m \in Segs(SubSeq(q, i + 1, Len(q))) : m \in Segs(q)
  BY <1>2, SegsPart
<1>5. PICK x \in Seq(Segment), y \in Seq(Segment) :
        /\ Without(q, i) = x \o y
        /\ \A m \in Segs(x) : m \in Segs(q)
        /\ \A m \in Segs(y) : m \in Segs(q)
  BY <1>3, <1>4 DEF Without
<1> QED
  BY <1>5, SegsConcat

LEMMA SegsOne ==
  ASSUME NEW q \in Seq(Segment), NEW i \in DOMAIN q
  PROVE  /\ q[i] \in Segment /\ q[i] \in Segs(q)
         /\ <<q[i]>> \in Seq(Segment) /\ Append(q, q[i]) = q \o <<q[i]>>
         /\ \A m \in Segs(<<q[i]>>) : m \in Segs(q)
<1>1. i \in 1 .. Len(q) /\ q[i] \in Segment
  BY SMTT(40)
<1>2. q[i] \in Segs(q)
  BY <1>1 DEF Segs
<1>3. Append(q, q[i]) = q \o <<q[i]>>
  BY <1>1, SMTT(40)
<1> QED
  BY <1>1, <1>2, <1>3, SegsFew

\* The network loses a segment, repeats one or lets one overtake others.
LEMMA NetStep ==
  ASSUME IInv, NEW e \in Ends, Net(e)
  PROVE  IInv'
<1>1. net \in [Ends -> Seq(Segment)] /\ net[e] \in Seq(Segment)
  BY DEF IInv, TypeInv
<1>2. UNCHANGED <<sock, sched, txbuf, rxbuf, app_fast, fast_app, lib, polling,
                  wrote, got, load, dropped>>
  BY DEF Net, Lose, Copy, Overtake, Fault, fastVars, bufVars, libVars
<1>3. \E q \in Seq(Segment) :
        net' = [net EXCEPT ![e] = q] /\ \A m \in Segs(q) : m \in Segs(net[e])
  <2>1. CASE Lose(e)
    <3>1. PICK i \in DOMAIN net[e] : net' = [net EXCEPT ![e] = Without(net[e], i)]
      BY <2>1 DEF Lose
    <3>2. /\ Without(net[e], i) \in Seq(Segment)
          /\ \A m \in Segs(Without(net[e], i)) : m \in Segs(net[e])
      BY <1>1, SegsWithout
    <3> QED
      BY <3>1, <3>2
  <2>2. CASE Copy(e)
    <3>1. PICK i \in DOMAIN net[e] : net' = [net EXCEPT ![e] = Append(net[e], net[e][i])]
      BY <2>2 DEF Copy
    <3>2. /\ <<net[e][i]>> \in Seq(Segment)
          /\ Append(net[e], net[e][i]) = net[e] \o <<net[e][i]>>
          /\ \A m \in Segs(<<net[e][i]>>) : m \in Segs(net[e])
      BY <1>1, SegsOne
    <3>3. PICK y \in Seq(Segment) :
            net' = [net EXCEPT ![e] = net[e] \o y] /\ \A m \in Segs(y) : m \in Segs(net[e])
      BY <3>1, <3>2
    <3> QED
      BY <1>1, <3>3, SegsConcat
  <2>3. CASE Overtake(e)
    <3>1. PICK i \in DOMAIN net[e] :
            net' = [net EXCEPT ![e] = <<net[e][i]>> \o Without(net[e], i)]
      BY <2>3 DEF Overtake
    <3>2. /\ <<net[e][i]>> \in Seq(Segment)
          /\ \A m \in Segs(<<net[e][i]>>) : m \in Segs(net[e])
      BY <1>1, SegsOne
    <3>3. /\ Without(net[e], i) \in Seq(Segment)
          /\ \A m \in Segs(Without(net[e], i)) : m \in Segs(net[e])
      BY <1>1, SegsWithout
    <3>4. PICK x \in Seq(Segment), y \in Seq(Segment) :
            /\ net' = [net EXCEPT ![e] = x \o y]
            /\ \A m \in Segs(x) : m \in Segs(net[e])
            /\ \A m \in Segs(y) : m \in Segs(net[e])
      BY <3>1, <3>2, <3>3
    <3> QED
      BY <3>4, SegsConcat
  <2> QED
    BY <2>1, <2>2, <2>3 DEF Net
<1>4. /\ net' \in [Ends -> Seq(Segment)]
      /\ \A d \in Ends : \A m \in Segs(net'[d]) : m \in Segs(net[d])
  BY <1>1, <1>3
<1> QED
  BY <1>2, <1>4, EndsAlone

-----------------------------------------------------------------------------
(* The invariant holds *)

\* The two ends of a connection that was just established.
LEMMA InitEnd ==
  ASSUME Init, NEW e \in Ends
  PROVE  /\ sock[e] \in Sock /\ lib[e] \in LibSock
         /\ EndOk(e) /\ PairOk(e) /\ NetOk(e)
<1> DEFINE s == sock[e]
           l == lib[e]
<1>1. Peer(e) \in Ends /\ Iss[e] \in SeqNos /\ Iss[Peer(e)] \in SeqNos
  BY PeerFacts
<1>2. /\ s = [tx_avail |-> 0, tx_head |-> 0, tx_seq |-> Iss[e], tx_pending |-> 0,
              rx_seq |-> Iss[Peer(e)], rx_avail |-> 0, rx_head |-> 0,
              tx_remote_avail |-> MinOf(RxLen, WndModulus - 1), rx_dupack_cnt |-> 0,
              recovery_active |-> FALSE, recovery_end_seq |-> 0]
      /\ l = [tx_head |-> 0, tx_avail |-> 0, tx_bump_pending |-> 0,
              rx_head |-> 0, rx_avail |-> 0, rx_bump_pending |-> 0]
      /\ sock[Peer(e)].rx_seq = Iss[e]
  BY <1>1, PeerFacts DEF Init
<1>3. MinOf(RxLen, WndModulus - 1) \in Nat
  BY SockAssumption, SMTT(40) DEF MinOf
<1>4. 0 \in SeqNos
  BY SockAssumption, SMTT(40) DEF SeqNos
<1>5. s \in Sock
  BY <1>1, <1>2, <1>3, <1>4, SMTT(40) DEF Sock
<1>6. l \in LibSock
  BY <1>2, SMTT(40) DEF LibSock
<1>7. /\ s.tx_avail = 0 /\ s.tx_head = 0 /\ s.tx_pending = 0 /\ s.rx_avail = 0
      /\ s.rx_head = 0 /\ s.tx_seq = Iss[e] /\ s.rx_seq = Iss[Peer(e)]
      /\ s.recovery_active = FALSE
      /\ l.tx_head = 0 /\ l.tx_avail = 0 /\ l.tx_bump_pending = 0
      /\ l.rx_head = 0 /\ l.rx_avail = 0 /\ l.rx_bump_pending = 0
      /\ s.tx_remote_avail \in Nat
  BY <1>2, <1>3, SMTT(40)
<1>8. /\ wrote[e] = 0 /\ got[e] = <<>> /\ net[e] = <<>> /\ app_fast[e] = <<>>
      /\ Unhandled(e) = <<>> /\ load \in Loads
  BY DEF Init, Unhandled
<1> HIDE DEF s, l
<1>9. \A iss \in SeqNos : Pos(iss, iss) = 0
  BY SubWraps, SMTT(40) DEF Pos, SeqNos
<1>10. /\ Una(s, Iss[e]) = 0 /\ Nxt(s, Iss[Peer(e)]) = 0
       /\ Nxt(sock[Peer(e)], Iss[e]) = 0 /\ Top(s, Iss[e]) = 0
  BY <1>1, <1>2, <1>7, <1>9, SMTT(40) DEF Una, Nxt, Top
<1>11. /\ BumpSum(app_fast[e], "CHAM_TX") = 0 /\ BumpSum(app_fast[e], "CHAM_RX") = 0
       /\ BumpSum(Unhandled(e), "APP_TX") = 0 /\ BumpSum(Unhandled(e), "APP_RX") = 0
  BY <1>8, BumpSumEmpty
<1>12. At(0, TxLen) = 0 /\ At(0, RxLen) = 0 /\ WrapOnce(0, TxLen) = 0
  BY SockAssumption, AtWithin, SMTT(40) DEF WrapOnce
<1>13. TxOk(s, txbuf[e], l, 0, 0, 0, 0)
  BY <1>7, <1>12, SockAssumption, SMTT(40) DEF TxOk
<1>14. RxOk(s, rxbuf[e], l, 0, 0, 0, 0)
  BY <1>7, <1>12, SockAssumption, SMTT(40) DEF RxOk, Told
<1>15. Exact(l, 0, 0, 0, 0, 0, 0)
  BY <1>7, SMTT(40) DEF Exact
<1>16. Len(got[e]) = 0
  BY <1>8
<1>17. 0 <= load.bytes[e]
  <2>1. load.bytes \in [Ends -> Nat]
    BY <1>8, DataAssumption
  <2> QED
    BY <2>1, SMTT(40)
<1>18. ~(sock_sched_avail(s) > 0)
  BY <1>7, SockAssumption, SMTT(40) DEF sock_sched_avail, tcp_sock_recovery_avail, MinOf
<1>19. EndOk(e)
  BY <1>8, <1>10, <1>11, <1>13, <1>14, <1>15, <1>16, <1>17, <1>18, SMTT(40) DEF EndOk, s, l
<1>20. PairOk(e)
  BY <1>10, SMTT(40) DEF PairOk, s
<1>21. NetOk(e)
  BY <1>8, SegsFew DEF NetOk
<1> QED
  BY <1>5, <1>6, <1>19, <1>20, <1>21 DEF s, l

LEMMA InitIInv == Init => IInv
<1> SUFFICES ASSUME Init PROVE IInv
  OBVIOUS
<1>1. sock \in [Ends -> Sock] /\ lib \in [Ends -> LibSock]
  <2>1. sock = [e \in Ends |-> sock[e]] /\ lib = [e \in Ends |-> lib[e]]
    BY DEF Init
  <2> QED
    BY <2>1, InitEnd
<1>2. TypeInv
  BY <1>1, SMTT(40) DEF Init, TypeInv, NoByte
<1> QED
  BY <1>2, InitEnd DEF IInv

LEMMA NextIInv == IInv /\ [Next]_vars => IInv'
<1> SUFFICES ASSUME IInv, [Next]_vars PROVE IInv'
  OBVIOUS
<1>1. CASE UNCHANGED vars
  BY <1>1 DEF vars, IInv, TypeInv, EndOk, PairOk, NetOk, Unhandled
<1>2. ASSUME NEW e \in Ends, App(e) PROVE IInv'
  BY <1>2, SendtoStep DEF App
<1>3. ASSUME NEW e \in Ends, Reader(e) PROVE IInv'
  BY <1>3, RecvfromStep DEF Reader
<1>4. ASSUME NEW e \in Ends, Poll(e) PROVE IInv'
  BY <1>4, PollFastStep, HandleTxStep, HandleRxStep, PollReleaseStep, PollDoneStep
  DEF Poll
<1>5. ASSUME NEW e \in Ends, Fast(e) PROVE IInv'
  BY <1>5, RxDroppedStep, RxNoPayloadStep, RxPayloadStep, SchedStep, DeqTxStep,
     DeqRxStep, RetransmitStep
  DEF Fast, tcp_event_rx
<1> QED
  BY <1>1, <1>2, <1>3, <1>4, <1>5, SlowStep, NetStep DEF Next

\* All that follows is read off the inductive invariant.
THEOREM DataInvariant == Spec => []IInv
BY InitIInv, NextIInv, PTL DEF Spec

-----------------------------------------------------------------------------
(* What the invariant says of the streams, the rings and the scheduler *)

LEMMA StreamsAreIntact == IInv => StreamIntact
<1> SUFFICES ASSUME IInv, NEW e \in Ends
             PROVE  /\ Len(got[e]) <= wrote[Peer(e)]
                    /\ \A i \in DOMAIN got[e] : got[e][i] = i
  BY DEF StreamIntact
<1> DEFINE p == Peer(e)
<1>1. /\ p \in Ends /\ Peer(p) = e /\ TypeInv /\ EndOk(e) /\ EndOk(p) /\ PairOk(p)
  BY PeerFacts DEF IInv
<1>2. Len(got[e]) <= Nxt(sock[e], Iss[p])
  BY <1>1, EndFacts
<1>3. Nxt(sock[e], Iss[p]) <= Top(sock[p], Iss[p])
  BY <1>1 DEF PairOk
<1>4. Top(sock[p], Iss[p]) <= wrote[p] /\ Top(sock[p], Iss[p]) \in Nat
  BY <1>1, EndFacts
<1>5. Len(got[e]) \in Nat /\ Nxt(sock[e], Iss[p]) \in Nat
  BY <1>1, EndNumbers
<1>6. wrote[p] \in Nat /\ got[e] \in Seq(Nat)
  BY <1>1, EndTypes
<1>7. \A i \in DOMAIN got[e] : got[e][i] = i
  <2>1. \A i \in 1 .. Len(got[e]) : got[e][i] = i
    BY <1>1 DEF EndOk
  <2>2. DOMAIN got[e] = 1 .. Len(got[e])
    BY <1>6, SMTT(40)
  <2> QED
    BY <2>1, <2>2
<1> QED
  BY <1>2, <1>3, <1>4, <1>5, <1>6, <1>7, SMTT(40)

LEMMA PositionsAreOrdered == IInv => PositionsOrdered
<1> DEFINE a(e) == Una(sock[e], Iss[e])
           n(e) == sock[e].tx_pending + sock[e].tx_avail
<1> SUFFICES ASSUME IInv, NEW e \in Ends
             PROVE  /\ a(e) <= Nxt(sock[Peer(e)], Iss[e])
                    /\ Nxt(sock[Peer(e)], Iss[e]) <= a(e) + n(e)
                    /\ a(e) + n(e) <= wrote[e]
                    /\ \A i \in 1 .. n(e) :
                         txbuf[e][WrapOnce(sock[e].tx_head + i - 1, TxLen)] = a(e) + i
  BY DEF PositionsOrdered, Una, Nxt, Pos
<1>1. TypeInv /\ EndOk(e) /\ PairOk(e)
  BY DEF IInv
<1>2. /\ InRings(sock[e]) /\ Top(sock[e], Iss[e]) <= wrote[e] /\ wrote[e] \in Nat
      /\ sock[e] \in Sock
  BY <1>1, EndFacts, EndTypes
<1>3. a(e) \in Nat /\ sock[e].tx_pending \in Nat /\ sock[e].tx_avail \in Nat
  BY <1>1, <1>2, EndNumbers, SockFields
<1>4. /\ a(e) <= Nxt(sock[Peer(e)], Iss[e])
      /\ Nxt(sock[Peer(e)], Iss[e]) <= Top(sock[e], Iss[e])
  BY <1>1 DEF PairOk
<1>5. Top(sock[e], Iss[e]) = a(e) + sock[e].tx_pending + sock[e].tx_avail
  BY DEF Top
<1>6. /\ sock[e].tx_head = At(a(e), TxLen)
      /\ \A i \in a(e) + 1 .. wrote[e] : txbuf[e][At(i - 1, TxLen)] = i
  BY <1>1 DEF EndOk, TxOk
<1>7. n(e) \in Nat /\ n(e) <= TxLen
  BY <1>2, <1>3, SMTT(40) DEF InRings
<1>8. Top(sock[e], Iss[e]) = a(e) + n(e)
  <2> HIDE DEF a
  <2> QED
    BY <1>3, <1>5, SMTT(40)
<1> HIDE DEF a, n
<1>9. ASSUME NEW i \in 1 .. n(e)
      PROVE  txbuf[e][WrapOnce(sock[e].tx_head + i - 1, TxLen)] = a(e) + i
  <2>1. /\ i - 1 \in 0 .. TxLen /\ a(e) + i \in a(e) + 1 .. wrote[e]
        /\ (a(e) + i) - 1 = a(e) + (i - 1)
    BY <1>2, <1>3, <1>7, <1>8, SockAssumption, SMTT(40)
  <2>2. At(a(e) + (i - 1), TxLen) = WrapOnce(At(a(e), TxLen) + (i - 1), TxLen)
    BY <1>3, <2>1, SockAssumption, AtAdd
  <2>3. At(a(e), TxLen) + (i - 1) = sock[e].tx_head + i - 1
    <3>1. At(a(e), TxLen) \in 0 .. TxLen - 1
      BY <1>3, SockAssumption, AtType
    <3>2. \A x \in 0 .. TxLen - 1 : x + (i - 1) = x + i - 1
      BY SMTT(40)
    <3> QED
      BY <1>6, <3>1, <3>2
  <2>4. txbuf[e][At((a(e) + i) - 1, TxLen)] = a(e) + i
    BY <1>6, <2>1
  <2> QED
    BY <2>1, <2>2, <2>3, <2>4
<1> QED
  BY <1>2, <1>4, <1>8, <1>9

LEMMA RingsAreAccounted == IInv => RingsAccounted
<1> SUFFICES ASSUME IInv, NEW e \in Ends
             PROVE  /\ lib[e].tx_avail >= TxHeld(e)
                    /\ sock[e].rx_avail >= RxHeld(e)
                    /\ InRings(sock[e])
                    /\ e \notin dropped => /\ lib[e].tx_avail = TxHeld(e)
                                           /\ sock[e].rx_avail = RxHeld(e)
  BY DEF RingsAccounted
<1> DEFINE a == Una(sock[e], Iss[e])
           r == Nxt(sock[e], Iss[Peer(e)])
           qt == BumpSum(app_fast[e], "CHAM_TX")
           qr == BumpSum(app_fast[e], "CHAM_RX")
           back == BumpSum(Unhandled(e), "APP_TX")
           ready == BumpSum(Unhandled(e), "APP_RX")
           g == Len(got[e])
           s == sock[e]
           l == lib[e]
           w == wrote[e]
<1>1. TypeInv /\ EndOk(e)
  BY DEF IInv
<1>2. s \in Sock /\ l \in LibSock /\ w \in Nat /\ InRings(sock[e])
  BY <1>1, EndTypes, EndFacts
<1>3. /\ s.tx_avail \in Nat /\ s.tx_pending \in Nat /\ s.rx_avail \in Nat
      /\ l.tx_bump_pending \in Nat /\ l.tx_avail \in Nat
      /\ l.rx_bump_pending \in Nat /\ l.rx_avail \in Nat
  BY <1>2, SockFields, LibFields
<1>4. /\ a \in Nat /\ r \in Nat /\ qt \in Nat /\ qr \in Nat /\ back \in Nat
      /\ ready \in Nat /\ g \in Nat
  BY <1>1, EndNumbers
<1>5. /\ TxOk(s, txbuf[e], l, qt, back, w, a)
      /\ RxOk(s, rxbuf[e], l, qr, ready, g, r)
      /\ e \notin dropped => Exact(l, back, ready, w, a, g, r)
  BY <1>1 DEF EndOk
<1>6. /\ TxHeld(e) = l.tx_bump_pending + qt + s.tx_avail + s.tx_pending + back
      /\ RxHeld(e) = l.rx_avail + l.rx_bump_pending + qr + ready
  BY DEF TxHeld, RxHeld
<1> HIDE DEF a, r, qt, qr, back, ready, g, s, l, w
<1>7. /\ w = a + s.tx_pending + s.tx_avail + qt + l.tx_bump_pending
      /\ w - a + back <= l.tx_avail
      /\ s.rx_avail = r - (g - l.rx_bump_pending - qr)
      /\ l.rx_avail + ready <= r - g
  BY <1>5 DEF TxOk, RxOk, Told
<1>8. e \notin dropped => l.tx_avail = w - a + back /\ r - g = l.rx_avail + ready
  BY <1>5 DEF Exact
<1>9. w \in Nat
  BY <1>2
<1>10. TxHeld(e) = w - a + back /\ TxHeld(e) \in Int
  BY <1>3, <1>4, <1>6, <1>7, <1>9, SMTT(40)
<1>11. /\ s.rx_avail = r - g + l.rx_bump_pending + qr
       /\ RxHeld(e) = l.rx_avail + ready + l.rx_bump_pending + qr
  BY <1>3, <1>4, <1>6, <1>7, SMTT(40)
<1>12. l.tx_avail >= TxHeld(e) /\ s.rx_avail >= RxHeld(e)
  BY <1>3, <1>4, <1>7, <1>10, <1>11, SMTT(40)
<1>13. e \notin dropped => l.tx_avail = TxHeld(e) /\ s.rx_avail = RxHeld(e)
  BY <1>8, <1>10, <1>11
<1> QED
  BY <1>2, <1>12, <1>13 DEF s, l

LEMMA SendableAreScheduled == IInv => SendableIsScheduled
BY DEF IInv, EndOk, SendableIsScheduled

\* Whatever the network loses, repeats and reorders, however rings wrap, for
\* rings, queues, payloads and streams of every length: an application reads a
\* prefix of what the other one wrote (tcp_sendto to tcp_recvfrom).
THEOREM StreamsIntact == Spec => []StreamIntact
BY DataInvariant, StreamsAreIntact, PTL

\* Acknowledged, received, owned and written positions of a stream are in
\* order, and what rx_sock_bump_ack and deq_handle_retransmit leave the sender
\* is in its ring, where tcp_event_sched will take it from.
THEOREM PositionsInOrder == Spec => []PositionsOrdered
BY DataInvariant, PositionsAreOrdered, PTL

\* The bumps neither lose nor invent a byte of a ring until one is dropped
\* on a full queue (tcp_event_rx), and then only take room away.
THEOREM RingBytesAccounted == Spec => []RingsAccounted
BY DataInvariant, RingsAreAccounted, PTL

\* A socket that may send has a scheduler entry: no event that lets it send
\* forgets to schedule it, the early return of tcp_event_rx apart.
THEOREM NoLostWakeup == Spec => []SendableIsScheduled
BY DataInvariant, SendableAreScheduled, PTL
=============================================================================
