---------------------------- MODULE TcpDataSteps ----------------------------
(***************************************************************************)
(* The steps of the library and of the sending half of the fast path keep  *)
(* the invariant of the TCP data path.                                     *)
(***************************************************************************)
EXTENDS TcpDataLemmas

\* Leaves that need arithmetic, or updates of records, say SMTT.
USE ZenonT(40)

\* tcp_sendto: the application writes behind the last byte, into free slots.
LEMMA SendtoStep ==
  ASSUME IInv, NEW e \in Ends, NEW len \in 1 .. load.bytes[e], tcp_sendto(e, len)
  PROVE  IInv'
<1> DEFINE l == lib[e]
           w == wrote[e]
           n == MinOf(len, TxLen - l.tx_avail)
           bytes == [i \in 1 .. n |-> w + i]
           l1 == [l EXCEPT !.tx_avail = @ + n, !.tx_bump_pending = @ + n]
           a == Una(sock[e], Iss[e])
           qt == BumpSum(app_fast[e], "CHAM_TX")
           back == BumpSum(Unhandled(e), "APP_TX")
<1>1. TypeInv /\ EndOk(e) /\ Peer(e) \in Ends /\ Peer(e) # e
  BY PeerFacts DEF IInv
<1>2. /\ sock[e] \in Sock /\ l \in LibSock /\ w \in Nat
      /\ txbuf[e] \in [0 .. TxLen - 1 -> Nat]
  BY <1>1, EndTypes
<1>3. /\ a \in Nat /\ qt \in Nat /\ back \in Nat
      /\ BumpSum(app_fast[e], "CHAM_RX") \in Nat
      /\ BumpSum(Unhandled(e), "APP_RX") \in Nat
      /\ Len(got[e]) \in Nat /\ Nxt(sock[e], Iss[Peer(e)]) \in Nat
  BY <1>1, EndNumbers
<1>4. /\ l.tx_head \in Nat /\ l.tx_avail \in Nat /\ l.tx_bump_pending \in Nat
      /\ sock[e].tx_pending \in Nat /\ sock[e].tx_avail \in Nat
  BY <1>2, LibFields, SockFields
<1>5. TxOk(sock[e], txbuf[e], l, qt, back, w, a)
  BY <1>1 DEF EndOk
<1>6. /\ n > 0
      /\ w + len <= load.bytes[e]
      /\ txbuf' = [txbuf EXCEPT ![e] =
           RingWrite(@, WrapOnce(l.tx_head + l.tx_avail, TxLen), bytes, TxLen)]
      /\ SetLib(e, l1, l.tx_avail - l.tx_bump_pending = 0
                       \/ l1.tx_bump_pending >= TCP_TX_BUMP_THRESH)
      /\ wrote' = [wrote EXCEPT ![e] = @ + n]
      /\ UNCHANGED <<sock, sched, rxbuf, fast_app, polling, got, net, load, dropped>>
  BY DEF tcp_sendto, fastVars, slowVars, history
<1>7. n \in Nat /\ n <= len /\ l.tx_avail + n <= TxLen
  <2>1. len \in Nat /\ l.tx_avail <= TxLen
    <3>1. load.bytes[e] \in Nat
      BY <1>1, LoadFacts
    <3> QED
      BY <1>5, <3>1, SMTT(40) DEF TxOk
  <2> QED
    BY <1>4, <2>1, SockAssumption, SMTT(40) DEF MinOf
<1> HIDE DEF n
<1>8. /\ l1 \in LibSock /\ l1.tx_head = l.tx_head /\ l1.tx_avail = l.tx_avail + n
      /\ l1.tx_bump_pending = l.tx_bump_pending + n
      /\ l1.rx_head = l.rx_head /\ l1.rx_avail = l.rx_avail
      /\ l1.rx_bump_pending = l.rx_bump_pending
  <2>1. \A x, y \in Nat : [l EXCEPT !.tx_avail = x, !.tx_bump_pending = y] \in LibSock
    BY <1>2 DEF LibSock
  <2>2. l.tx_avail + n \in Nat /\ l.tx_bump_pending + n \in Nat
    BY <1>4, <1>7, SMTT(40)
  <2>3. l1 \in LibSock
    BY <2>1, <2>2
  <2> QED
    BY <1>2, <2>3 DEF LibSock
<1>9. /\ bytes \in Seq(Nat) /\ Len(bytes) = n
      /\ \A i \in 1 .. Len(bytes) : bytes[i] = w + i
  BY <1>2, <1>7, SMTT(40)
<1>10. /\ txbuf'[e] \in [0 .. TxLen - 1 -> Nat]
       /\ \A i \in a + 1 .. w + n : txbuf'[e][At(i - 1, TxLen)] = i
  <2>1. txbuf'[e] = RingWrite(txbuf[e], At(w, TxLen), bytes, TxLen)
    <3>1. txbuf \in [Ends -> [0 .. TxLen - 1 -> Nat]]
      BY <1>1 DEF TypeInv
    <3>2. WrapOnce(l.tx_head + l.tx_avail, TxLen) = At(w, TxLen)
      BY <1>5 DEF TxOk
    <3> QED
      BY <1>6, <3>1, <3>2
  <2>2. \A i \in a + 1 .. w : txbuf[e][At(i - 1, TxLen)] = i
    BY <1>5 DEF TxOk
  <2> HIDE DEF bytes, a, w, l, qt, back
  <2>3. a \in 0 .. w /\ w - a + Len(bytes) <= TxLen
    <3>1. a <= w /\ w - a + back <= l.tx_avail /\ l.tx_avail <= TxLen
      BY <1>2, <1>3, <1>5, TxOkBounds
    <3>2. a \in 0 .. w /\ w - a + n <= TxLen
      BY <1>2, <1>3, <1>4, <1>7, <3>1, SockAssumption, SMTT(40)
    <3> QED
      BY <1>9, <3>2
  <2>4. TxLen \in Nat \ {0}
    BY SockAssumption
  <2>5. LET r == RingWrite(txbuf[e], At(w, TxLen), bytes, TxLen)
        IN  /\ r \in [0 .. TxLen - 1 -> Nat]
            /\ \A i \in a + 1 .. w + Len(bytes) : r[At(i - 1, TxLen)] = i
    BY <1>2, <1>9, <2>2, <2>3, <2>4, RingWriteIs
  <2> QED
    BY <1>9, <2>1, <2>5
<1> HIDE DEF l1, bytes
<1>11. /\ SameBumps(l1, app_fast[e], lib'[e], app_fast'[e])
       /\ lib' \in [Ends -> LibSock] /\ app_fast' \in [Ends -> Seq(Bump)]
       /\ lib'[Peer(e)] = lib[Peer(e)] /\ app_fast'[Peer(e)] = app_fast[Peer(e)]
  BY <1>1, <1>6, <1>8, SetLibIs
<1>12. /\ wrote' \in [Ends -> Nat] /\ wrote'[e] = w + n
       /\ wrote'[Peer(e)] = wrote[Peer(e)]
  <2>1. wrote \in [Ends -> Nat]
    BY <1>1 DEF TypeInv
  <2> QED
    BY <1>1, <1>6, <1>7, <2>1, SMTT(40)
<1>13. /\ txbuf' \in [Ends -> [0 .. TxLen - 1 -> Nat]]
       /\ txbuf'[Peer(e)] = txbuf[Peer(e)]
  <2>1. txbuf \in [Ends -> [0 .. TxLen - 1 -> Nat]]
    BY <1>1 DEF TypeInv
  <2> HIDE DEF bytes
  <2> QED
    BY <1>1, <1>6, <1>10, <2>1
<1>14. TypeInv'
  BY <1>1, <1>6, <1>11, <1>12, <1>13 DEF TypeInv
<1>15. Unhandled(e)' = Unhandled(e) /\ Unhandled(Peer(e))' = Unhandled(Peer(e))
  BY <1>6 DEF Unhandled
<1>16. TxOk(sock[e], txbuf'[e], l1, qt, back, wrote'[e], a)
  <2> HIDE DEF a, w, l, qt, back
  <2>1. TxOk(sock[e], txbuf'[e], l1, qt, back, w + n, a)
    BY <1>2, <1>3, <1>5, <1>7, <1>8, <1>10, TxOkWrite
  <2> QED
    BY <1>12, <2>1
<1>17. RxOk(sock[e], rxbuf'[e], l1, BumpSum(app_fast[e], "CHAM_RX"),
            BumpSum(Unhandled(e)', "APP_RX"), Len(got'[e]),
            Nxt(sock[e], Iss[Peer(e)]))
  <2>1. RxOk(sock[e], rxbuf[e], l, BumpSum(app_fast[e], "CHAM_RX"),
            BumpSum(Unhandled(e), "APP_RX"), Len(got[e]),
            Nxt(sock[e], Iss[Peer(e)]))
    BY <1>1 DEF EndOk
  <2>2. RxOk(sock[e], rxbuf[e], l1, BumpSum(app_fast[e], "CHAM_RX"),
            BumpSum(Unhandled(e), "APP_RX"), Len(got[e]),
            Nxt(sock[e], Iss[Peer(e)]))
    BY <1>2, <1>3, <1>8, <2>1, RxOkFlushed
  <2> QED
    BY <1>6, <1>15, <2>2
<1>18. e \notin dropped =>
         Exact(l1, BumpSum(Unhandled(e)', "APP_TX"),
               BumpSum(Unhandled(e)', "APP_RX"), wrote'[e],
               a, Len(got'[e]), Nxt(sock[e], Iss[Peer(e)]))
  <2>1. e \notin dropped =>
         Exact(l, back, BumpSum(Unhandled(e), "APP_RX"), w,
               a, Len(got[e]), Nxt(sock[e], Iss[Peer(e)]))
    BY <1>1 DEF EndOk
  <2>2. /\ BumpSum(Unhandled(e)', "APP_TX") = back
        /\ BumpSum(Unhandled(e)', "APP_RX") = BumpSum(Unhandled(e), "APP_RX")
        /\ Len(got'[e]) = Len(got[e])
    BY <1>6, <1>15
  <2> HIDE DEF a, w, l, qt, back
  <2> QED
    BY <1>2, <1>3, <1>4, <1>7, <1>8, <1>12, <2>1, <2>2, SMTT(40) DEF Exact
<1>19. wrote'[e] <= load.bytes[e]
  BY <1>1, <1>2, <1>6, <1>7, <1>12, LoadFacts, SMTT(40)
<1>20. \A i \in 1 .. Len(got'[e]) : got'[e][i] = i
  BY <1>1, <1>6 DEF EndOk
<1>21. EndOk(e)'
  BY <1>1, <1>6, <1>8, <1>11, <1>14, <1>15, <1>16, <1>17, <1>18, <1>19, <1>20, LibEndOk
<1>22. EndSame(Peer(e))
  BY <1>6, <1>11, <1>12, <1>13, <1>15 DEF EndSame
<1> QED
  BY <1>6, <1>14, <1>21, <1>22, LibStep

\* What is read joins what was read.
LEMMA GotMore ==
  ASSUME NEW q \in Seq(Nat), NEW p \in Seq(Nat),
         \A i \in 1 .. Len(q) : q[i] = i,
         \A i \in 1 .. Len(p) : p[i] = Len(q) + i
  PROVE  /\ q \o p \in Seq(Nat)
         /\ Len(q \o p) = Len(q) + Len(p)
         /\ \A i \in 1 .. Len(q \o p) : (q \o p)[i] = i
<1>1. q \o p \in Seq(Nat) /\ Len(q \o p) = Len(q) + Len(p)
  BY SMTT(40)
<1>2. Len(q) \in Nat /\ Len(p) \in Nat
  BY SMTT(40)
<1>3. ASSUME NEW i \in 1 .. Len(q) + Len(p)
      PROVE  (q \o p)[i] = i
  <2>1. CASE i <= Len(q)
    BY <1>2, <2>1, SMTT(40)
  <2>2. CASE i > Len(q)
    <3>1. i - Len(q) \in 1 .. Len(p) /\ (q \o p)[i] = p[i - Len(q)]
      BY <1>2, <2>2, SMTT(40)
    <3>2. p[i - Len(q)] = Len(q) + (i - Len(q))
      BY <3>1
    <3> QED
      BY <1>2, <3>1, <3>2, SMTT(40)
  <2> QED
    BY <1>2, <2>1, <2>2, SMTT(40)
<1> QED
  BY <1>1, <1>3

\* tcp_recvfrom: the application reads the next bytes of the stream.
LEMMA RecvfromStep ==
  ASSUME IInv, NEW e \in Ends, NEW len \in 1 .. RxLen, tcp_recvfrom(e, len)
  PROVE  IInv'
<1> DEFINE l == lib[e]
           n == MinOf(len, l.rx_avail)
           l1 == [l EXCEPT !.rx_avail = @ - n,
                           !.rx_head = WrapOnce(@ + n, RxLen),
                           !.rx_bump_pending = @ + n]
           a == Una(sock[e], Iss[e])
           r == Nxt(sock[e], Iss[Peer(e)])
           qt == BumpSum(app_fast[e], "CHAM_TX")
           qr == BumpSum(app_fast[e], "CHAM_RX")
           back == BumpSum(Unhandled(e), "APP_TX")
           ready == BumpSum(Unhandled(e), "APP_RX")
           g == Len(got[e])
           more == RingRead(rxbuf[e], l.rx_head, n, RxLen)
<1>1. TypeInv /\ EndOk(e) /\ Peer(e) \in Ends /\ Peer(e) # e
  BY PeerFacts DEF IInv
<1>2. /\ sock[e] \in Sock /\ l \in LibSock /\ wrote[e] \in Nat
      /\ rxbuf[e] \in [0 .. RxLen - 1 -> Nat] /\ got[e] \in Seq(Nat)
  BY <1>1, EndTypes
<1>3. /\ a \in Nat /\ qt \in Nat /\ back \in Nat /\ qr \in Nat /\ ready \in Nat
      /\ g \in Nat /\ r \in Nat
  BY <1>1, EndNumbers
<1>4. /\ l.rx_head \in Nat /\ l.rx_avail \in Nat /\ l.rx_bump_pending \in Nat
      /\ sock[e].rx_avail \in Nat
  BY <1>2, LibFields, SockFields
<1>5. /\ TxOk(sock[e], txbuf[e], l, qt, back, wrote[e], a)
      /\ RxOk(sock[e], rxbuf[e], l, qr, ready, g, r)
      /\ e \notin dropped => Exact(l, back, ready, wrote[e], a, g, r)
      /\ \A i \in 1 .. g : got[e][i] = i
      /\ wrote[e] <= load.bytes[e]
  BY <1>1 DEF EndOk
<1>6. PICK flush : SetLib(e, l1, flush)
  <2>1. SetLib(e, l1, l.rx_avail = RxLen
                   \/ l1.rx_bump_pending >= (IF RxLen \div 4 = 0 THEN 1 ELSE RxLen \div 4))
    BY DEF tcp_recvfrom
  <2> QED
    BY <2>1
<1>7. /\ got' = [got EXCEPT ![e] = @ \o more]
      /\ UNCHANGED <<sock, sched, txbuf, rxbuf, fast_app, polling, wrote, net,
                     load, dropped>>
  BY DEF tcp_recvfrom, fastVars, bufVars, slowVars, history
<1>8. n \in 0 .. RxLen /\ n <= l.rx_avail
  BY <1>4, SockAssumption, SMTT(40) DEF MinOf
<1> HIDE DEF n
<1>9. /\ l1 \in LibSock /\ l1.tx_head = l.tx_head /\ l1.tx_avail = l.tx_avail
      /\ l1.tx_bump_pending = l.tx_bump_pending
      /\ l1.rx_head = WrapOnce(l.rx_head + n, RxLen)
      /\ l1.rx_avail = l.rx_avail - n
      /\ l1.rx_bump_pending = l.rx_bump_pending + n
  <2>1. \A x, y, z \in Nat :
          [l EXCEPT !.rx_avail = x, !.rx_head = y, !.rx_bump_pending = z] \in LibSock
    BY <1>2 DEF LibSock
  <2>2. /\ l.rx_avail - n \in Nat /\ l.rx_bump_pending + n \in Nat
        /\ WrapOnce(l.rx_head + n, RxLen) \in Nat
    BY <1>4, <1>8, SockAssumption, SMTT(40) DEF WrapOnce
  <2>3. l1 \in LibSock
    BY <2>1, <2>2
  <2> QED
    BY <1>2, <2>3 DEF LibSock
<1> HIDE DEF l1
<1>10. Told(l, qr, g) \in 0 .. g /\ g <= r /\ g + n <= r
  <2> HIDE DEF l, a, r, qt, qr, back, ready, g
  <2>1. Told(l, qr, g) \in 0 .. g /\ g <= r
    BY <1>2, <1>3, <1>5, OkInRings
  <2>2. l.rx_avail + ready <= r - g
    BY <1>5 DEF RxOk
  <2> QED
    BY <1>3, <1>4, <1>8, <2>1, <2>2, SMTT(40)
<1>11. /\ more \in Seq(Nat) /\ Len(more) = n
       /\ \A i \in 1 .. n : more[i] = g + i
  <2>1. \A i \in g + 1 .. g + n : rxbuf[e][At(i - 1, RxLen)] = i
    <3>1. \A i \in Told(l, qr, g) + 1 .. r : rxbuf[e][At(i - 1, RxLen)] = i
      BY <1>5 DEF RxOk
    <3> HIDE DEF l, qr, g, r
    <3> QED
      BY <1>3, <1>8, <1>10, <3>1, SMTT(40)
  <2>2. l.rx_head = At(g, RxLen)
    BY <1>5 DEF RxOk
  <2>3. RxLen \in Nat \ {0}
    BY SockAssumption
  <2>4. more = RingRead(rxbuf[e], At(g, RxLen), n, RxLen)
    BY <2>2
  <2> HIDE DEF g, more
  <2>5. LET c == RingRead(rxbuf[e], At(g, RxLen), n, RxLen)
        IN  /\ c \in Seq(Nat)
            /\ Len(c) = n
            /\ \A i \in 1 .. n : c[i] = g + i
    <3>1. rxbuf[e] \in [0 .. RxLen - 1 -> Nat] /\ g \in Nat /\ n \in 0 .. RxLen
      BY <1>2, <1>3, <1>8
    <3> QED
      BY <2>1, <2>3, <3>1, RingReadIs
  <2> QED
    BY <2>4, <2>5
<1> HIDE DEF more
<1>12. /\ got' \in [Ends -> Seq(Nat)] /\ got'[Peer(e)] = got[Peer(e)]
       /\ Len(got'[e]) = g + n
       /\ \A i \in 1 .. Len(got'[e]) : got'[e][i] = i
  <2>1. got \in [Ends -> Seq(Nat)]
    BY <1>1 DEF TypeInv
  <2>2. /\ got[e] \o more \in Seq(Nat)
        /\ Len(got[e] \o more) = Len(got[e]) + Len(more)
        /\ \A i \in 1 .. Len(got[e] \o more) : (got[e] \o more)[i] = i
    BY <1>2, <1>5, <1>11, GotMore
  <2>3. got'[e] = got[e] \o more
    BY <1>7, <2>1
  <2>4. got' \in [Ends -> Seq(Nat)] /\ got'[Peer(e)] = got[Peer(e)]
    BY <1>1, <1>7, <2>1, <2>2
  <2> QED
    BY <1>11, <2>2, <2>3, <2>4
<1>13. /\ SameBumps(l1, app_fast[e], lib'[e], app_fast'[e])
       /\ lib' \in [Ends -> LibSock] /\ app_fast' \in [Ends -> Seq(Bump)]
       /\ lib'[Peer(e)] = lib[Peer(e)] /\ app_fast'[Peer(e)] = app_fast[Peer(e)]
  BY <1>1, <1>6, <1>9, SetLibIs
<1>14. TypeInv'
  BY <1>1, <1>7, <1>12, <1>13 DEF TypeInv
<1>15. Unhandled(e)' = Unhandled(e) /\ Unhandled(Peer(e))' = Unhandled(Peer(e))
  BY <1>7 DEF Unhandled
<1>16. /\ BumpSum(Unhandled(e)', "APP_TX") = back
       /\ BumpSum(Unhandled(e)', "APP_RX") = ready
       /\ txbuf'[e] = txbuf[e] /\ rxbuf'[e] = rxbuf[e] /\ wrote'[e] = wrote[e]
  BY <1>7, <1>15
<1>17. TxOk(sock[e], txbuf[e], l1, qt, back, wrote[e], a)
  <2> HIDE DEF l, a, qt, back
  <2> QED
    BY <1>2, <1>3, <1>5, <1>9, TxOkFlushed
<1>18. RxOk(sock[e], rxbuf[e], l1, qr, ready, g + n, r)
  <2>1. n \in Nat
    BY <1>8, SMTT(40)
  <2> HIDE DEF l, r, qr, ready, g
  <2> QED
    BY <1>2, <1>3, <1>5, <1>8, <1>9, <2>1, RxOkRead
<1>19. e \notin dropped => Exact(l1, back, ready, wrote[e], a, g + n, r)
  <2> HIDE DEF l, a, r, back, ready, g
  <2> SUFFICES ASSUME e \notin dropped
               PROVE  Exact(l1, back, ready, wrote[e], a, g + n, r)
    OBVIOUS
  <2>1. l.tx_avail = wrote[e] - a + back /\ r - g = l.rx_avail + ready
    BY <1>5 DEF Exact
  <2>2. n \in Nat
    BY <1>8, SMTT(40)
  <2>3. r - (g + n) = (l.rx_avail - n) + ready
    BY <1>3, <1>4, <2>1, <2>2, SMTT(40)
  <2> QED
    BY <1>9, <2>1, <2>3 DEF Exact
<1>20. EndOk(e)'
  BY <1>1, <1>5, <1>7, <1>9, <1>12, <1>13, <1>14, <1>16, <1>17, <1>18, <1>19, LibEndOk
<1>21. EndSame(Peer(e))
  BY <1>7, <1>12, <1>13, <1>15 DEF EndSame
<1> QED
  BY <1>7, <1>14, <1>20, <1>21, LibStep

\* tcp_poll_fast begins: the pending bumps are queued.
LEMMA PollFastStep ==
  ASSUME IInv, NEW e \in Ends, tcp_poll_fast(e)
  PROVE  IInv'
<1>1. TypeInv /\ EndOk(e) /\ Peer(e) \in Ends /\ Peer(e) # e
  BY PeerFacts DEF IInv
<1>2. lib[e] \in LibSock
  BY <1>1, EndTypes
<1>3. /\ SetLib(e, lib[e], TRUE)
      /\ polling[e] = "out"
      /\ polling' = [polling EXCEPT ![e] = "poll"]
      /\ UNCHANGED <<sock, sched, txbuf, rxbuf, fast_app, wrote, got, net,
                     load, dropped>>
  BY DEF tcp_poll_fast, fastVars, bufVars, slowVars, history
<1>4. /\ SameBumps(lib[e], app_fast[e], lib'[e], app_fast'[e])
      /\ lib' \in [Ends -> LibSock] /\ app_fast' \in [Ends -> Seq(Bump)]
      /\ lib'[Peer(e)] = lib[Peer(e)] /\ app_fast'[Peer(e)] = app_fast[Peer(e)]
  BY <1>1, <1>2, <1>3, SetLibIs
<1>5. TypeInv'
  BY <1>1, <1>3, <1>4 DEF TypeInv
<1>6. Unhandled(e)' = Unhandled(e) /\ Unhandled(Peer(e))' = Unhandled(Peer(e))
  BY <1>1, <1>3 DEF Unhandled, TypeInv
<1>7. EndOk(e)'
  BY <1>1, <1>2, <1>3, <1>4, <1>5, <1>6, LibEndOk DEF EndOk
<1>8. EndSame(Peer(e))
  BY <1>3, <1>4, <1>6 DEF EndSame
<1> QED
  BY <1>3, <1>5, <1>7, <1>8, LibStep

\* What the library does with a bump, and which bumps are left.
LEMMA HandleIs ==
  ASSUME TypeInv, NEW e \in Ends, NEW kind \in BumpKinds, Handle(e, kind)
  PROVE  /\ Head(fast_app[e]).n \in Nat
         /\ Unhandled(e)' = Tail(fast_app[e])
         /\ Unhandled(Peer(e))' = Unhandled(Peer(e))
         /\ Unhandled(e)' \in Seq(Bump)
         /\ \A k \in BumpKinds :
              BumpSum(Unhandled(e), k) =
                BumpSum(Unhandled(e)', k)
                + (IF kind = k THEN Head(fast_app[e]).n ELSE 0)
         /\ polling' \in [Ends -> {"out", "poll", "handled"}]
         /\ \A d \in Ends : polling'[d] = "handled" => fast_app'[d] # <<>>
         /\ UNCHANGED <<sock, sched, txbuf, rxbuf, fast_app, wrote, got, net,
                        load, dropped>>
<1>1. Peer(e) \in Ends /\ Peer(e) # e
  BY PeerFacts
<1>2. /\ polling[e] = "poll" /\ fast_app[e] # <<>> /\ Head(fast_app[e]).kind = kind
      /\ polling' = [polling EXCEPT ![e] = "handled"]
      /\ UNCHANGED <<sock, sched, txbuf, rxbuf, fast_app, wrote, got, net,
                     load, dropped>>
  BY DEF Handle, fastVars, bufVars, slowVars, history
<1>3. /\ polling \in [Ends -> {"out", "poll", "handled"}]
      /\ \A d \in Ends : polling[d] = "handled" => fast_app[d] # <<>>
      /\ fast_app[e] \in Seq(Bump)
  BY DEF TypeInv
<1>4. /\ Tail(fast_app[e]) \in Seq(Bump) /\ Head(fast_app[e]) \in Bump
      /\ \A k \in BumpKinds :
           BumpSum(fast_app[e], k) =
             BumpSum(Tail(fast_app[e]), k)
             + (IF Head(fast_app[e]).kind = k THEN Head(fast_app[e]).n ELSE 0)
  BY <1>2, <1>3, SumsTail
<1>5. Head(fast_app[e]).n \in Nat
  BY <1>4 DEF Bump
<1>6. Unhandled(e) = fast_app[e] /\ Unhandled(e)' = Tail(fast_app[e])
  BY <1>2, <1>3 DEF Unhandled
<1>7. Unhandled(Peer(e))' = Unhandled(Peer(e))
  BY <1>1, <1>2, <1>3 DEF Unhandled
<1>8. /\ polling' \in [Ends -> {"out", "poll", "handled"}]
      /\ \A d \in Ends : polling'[d] = "handled" => fast_app'[d] # <<>>
  BY <1>2, <1>3
<1> QED
  BY <1>2, <1>4, <1>5, <1>6, <1>7, <1>8

\* handle_tx_bump: room for writing comes back, exactly as much as the bump
\* says.
LEMMA HandleTxStep ==
  ASSUME IInv, NEW e \in Ends, handle_tx_bump(e)
  PROVE  IInv'
<1> DEFINE l == lib[e]
           hd == Head(fast_app[e]).n
           n == MinOf(hd, l.tx_avail)
           l1 == [l EXCEPT !.tx_head = WrapOnce(@ + n, TxLen), !.tx_avail = @ - n]
           a == Una(sock[e], Iss[e])
           r == Nxt(sock[e], Iss[Peer(e)])
           qt == BumpSum(app_fast[e], "CHAM_TX")
           qr == BumpSum(app_fast[e], "CHAM_RX")
           back == BumpSum(Unhandled(e), "APP_TX")
           ready == BumpSum(Unhandled(e), "APP_RX")
           back2 == BumpSum(Unhandled(e)', "APP_TX")
           g == Len(got[e])
<1>1. TypeInv /\ EndOk(e) /\ Peer(e) \in Ends /\ Peer(e) # e
  BY PeerFacts DEF IInv
<1>2. sock[e] \in Sock /\ l \in LibSock /\ wrote[e] \in Nat
  BY <1>1, EndTypes
<1>3. /\ a \in Nat /\ qt \in Nat /\ back \in Nat /\ qr \in Nat /\ ready \in Nat
      /\ g \in Nat /\ r \in Nat
  BY <1>1, EndNumbers
<1>4. l.tx_head \in Nat /\ l.tx_avail \in Nat /\ l.tx_bump_pending \in Nat
  BY <1>2, LibFields
<1>5. /\ TxOk(sock[e], txbuf[e], l, qt, back, wrote[e], a)
      /\ RxOk(sock[e], rxbuf[e], l, qr, ready, g, r)
      /\ e \notin dropped => Exact(l, back, ready, wrote[e], a, g, r)
      /\ \A i \in 1 .. g : got[e][i] = i
      /\ wrote[e] <= load.bytes[e]
  BY <1>1 DEF EndOk
<1>6. Handle(e, "APP_TX") /\ \E f \in BOOLEAN : SetLib(e, l1, f)
  BY DEF handle_tx_bump
<1>7. PICK f : SetLib(e, l1, f)
  BY <1>6
<1>8. /\ hd \in Nat /\ Unhandled(Peer(e))' = Unhandled(Peer(e))
      /\ Unhandled(e)' \in Seq(Bump)
      /\ \A k \in BumpKinds :
           BumpSum(Unhandled(e), k) =
             BumpSum(Unhandled(e)', k) + (IF "APP_TX" = k THEN hd ELSE 0)
      /\ polling' \in [Ends -> {"out", "poll", "handled"}]
      /\ \A d \in Ends : polling'[d] = "handled" => fast_app'[d] # <<>>
      /\ UNCHANGED <<sock, sched, txbuf, rxbuf, fast_app, wrote, got, net,
                     load, dropped>>
  BY <1>1, <1>6, HandleIs DEF BumpKinds
<1>9. hd \in Nat /\ back2 \in Nat /\ BumpSum(Unhandled(e)', "APP_RX") \in Nat
  BY <1>8, SumsType
<1>10. back = back2 + hd /\ BumpSum(Unhandled(e)', "APP_RX") = ready
  <2>1. /\ back = back2 + hd
        /\ ready = BumpSum(Unhandled(e)', "APP_RX") + 0
    BY <1>8 DEF BumpKinds
  <2> QED
    BY <1>9, <2>1, SMTT(40)
<1>11. a <= wrote[e] /\ n = hd /\ hd <= l.tx_avail /\ l.tx_avail <= TxLen
  <2> HIDE DEF l, hd, a, qt, back, back2
  <2>1. a <= wrote[e] /\ wrote[e] - a + back <= l.tx_avail /\ l.tx_avail <= TxLen
    BY <1>2, <1>3, <1>5, TxOkBounds
  <2> QED
    BY <1>2, <1>3, <1>4, <1>9, <1>10, <2>1, SMTT(40) DEF MinOf
<1>12. /\ l1 \in LibSock /\ l1.tx_head = WrapOnce(l.tx_head + hd, TxLen)
       /\ l1.tx_avail = l.tx_avail - hd /\ l1.tx_bump_pending = l.tx_bump_pending
       /\ l1.rx_head = l.rx_head /\ l1.rx_avail = l.rx_avail
       /\ l1.rx_bump_pending = l.rx_bump_pending
  <2>1. \A x, y \in Nat : [l EXCEPT !.tx_head = x, !.tx_avail = y] \in LibSock
    BY <1>2 DEF LibSock
  <2>2. l.tx_avail - n \in Nat /\ WrapOnce(l.tx_head + n, TxLen) \in Nat
    <3> HIDE DEF l, n, hd
    <3> QED
      BY <1>4, <1>8, <1>11, SockAssumption, SMTT(40) DEF WrapOnce
  <2> HIDE DEF n
  <2>3. l1 \in LibSock
    BY <2>1, <2>2
  <2> QED
    BY <1>2, <1>11, <2>3 DEF LibSock
<1> HIDE DEF l1
<1>13. /\ SameBumps(l1, app_fast[e], lib'[e], app_fast'[e])
       /\ lib' \in [Ends -> LibSock] /\ app_fast' \in [Ends -> Seq(Bump)]
       /\ lib'[Peer(e)] = lib[Peer(e)] /\ app_fast'[Peer(e)] = app_fast[Peer(e)]
  BY <1>1, <1>7, <1>12, SetLibIs
<1>14. TypeInv'
  BY <1>1, <1>8, <1>13 DEF TypeInv
<1>15. TxOk(sock[e], txbuf[e], l1, qt, back2, wrote[e], a)
  <2> HIDE DEF l, hd, a, qt, back, back2
  <2> QED
    BY <1>2, <1>3, <1>5, <1>8, <1>9, <1>10, <1>11, <1>12, TxOkBack
<1>16. RxOk(sock[e], rxbuf[e], l1, qr, ready, g, r)
  <2> HIDE DEF l, r, qr, ready, g
  <2> QED
    BY <1>2, <1>3, <1>5, <1>12, RxOkFlushed
<1>17. e \notin dropped => Exact(l1, back2, ready, wrote[e], a, g, r)
  <2> HIDE DEF l, hd, a, r, back, back2, ready, g
  <2> QED
    BY <1>2, <1>3, <1>4, <1>5, <1>9, <1>10, <1>12, SMTT(40) DEF Exact
<1>18. EndOk(e)'
  BY <1>1, <1>5, <1>8, <1>10, <1>12, <1>13, <1>14, <1>15, <1>16, <1>17, LibEndOk
<1>19. EndSame(Peer(e))
  BY <1>8, <1>13 DEF EndSame
<1> QED
  BY <1>8, <1>14, <1>18, <1>19, LibStep

\* handle_rx_bump: bytes are ready to be read, exactly as many as the bump says.
LEMMA HandleRxStep ==
  ASSUME IInv, NEW e \in Ends, handle_rx_bump(e)
  PROVE  IInv'
<1> DEFINE l == lib[e]
           hd == Head(fast_app[e]).n
           n == MinOf(hd, RxLen - l.rx_avail)
           l1 == [l EXCEPT !.rx_avail = @ + n]
           a == Una(sock[e], Iss[e])
           r == Nxt(sock[e], Iss[Peer(e)])
           qt == BumpSum(app_fast[e], "CHAM_TX")
           qr == BumpSum(app_fast[e], "CHAM_RX")
           back == BumpSum(Unhandled(e), "APP_TX")
           ready == BumpSum(Unhandled(e), "APP_RX")
           ready2 == BumpSum(Unhandled(e)', "APP_RX")
           g == Len(got[e])
<1>1. TypeInv /\ EndOk(e) /\ Peer(e) \in Ends /\ Peer(e) # e
  BY PeerFacts DEF IInv
<1>2. sock[e] \in Sock /\ l \in LibSock /\ wrote[e] \in Nat
  BY <1>1, EndTypes
<1>3. /\ a \in Nat /\ qt \in Nat /\ back \in Nat /\ qr \in Nat /\ ready \in Nat
      /\ g \in Nat /\ r \in Nat
  BY <1>1, EndNumbers
<1>4. l.rx_avail \in Nat /\ l.rx_bump_pending \in Nat
  BY <1>2, LibFields
<1>5. /\ TxOk(sock[e], txbuf[e], l, qt, back, wrote[e], a)
      /\ RxOk(sock[e], rxbuf[e], l, qr, ready, g, r)
      /\ e \notin dropped => Exact(l, back, ready, wrote[e], a, g, r)
      /\ \A i \in 1 .. g : got[e][i] = i
      /\ wrote[e] <= load.bytes[e]
  BY <1>1 DEF EndOk
<1>6. Handle(e, "APP_RX") /\ \E f \in BOOLEAN : SetLib(e, l1, f)
  BY DEF handle_rx_bump
<1>7. PICK f : SetLib(e, l1, f)
  BY <1>6
<1>8. /\ hd \in Nat /\ Unhandled(Peer(e))' = Unhandled(Peer(e))
      /\ Unhandled(e)' \in Seq(Bump)
      /\ \A k \in BumpKinds :
           BumpSum(Unhandled(e), k) =
             BumpSum(Unhandled(e)', k) + (IF "APP_RX" = k THEN hd ELSE 0)
      /\ polling' \in [Ends -> {"out", "poll", "handled"}]
      /\ \A d \in Ends : polling'[d] = "handled" => fast_app'[d] # <<>>
      /\ UNCHANGED <<sock, sched, txbuf, rxbuf, fast_app, wrote, got, net,
                     load, dropped>>
  BY <1>1, <1>6, HandleIs DEF BumpKinds
<1>9. hd \in Nat /\ ready2 \in Nat /\ BumpSum(Unhandled(e)', "APP_TX") \in Nat
  BY <1>8, SumsType
<1>10. ready = ready2 + hd /\ BumpSum(Unhandled(e)', "APP_TX") = back
  <2>1. /\ ready = ready2 + hd
        /\ back = BumpSum(Unhandled(e)', "APP_TX") + 0
    BY <1>8 DEF BumpKinds
  <2> QED
    BY <1>9, <2>1, SMTT(40)
<1>11. n = hd
  <2> HIDE DEF l, hd, r, qr, g, ready, ready2
  <2>1. l.rx_avail + ready <= RxLen
    BY <1>2, <1>3, <1>5, RxOkBounds
  <2> QED
    BY <1>3, <1>4, <1>9, <1>10, <2>1, SockAssumption, SMTT(40) DEF MinOf
<1>12. /\ l1 \in LibSock /\ l1.rx_avail = l.rx_avail + hd
       /\ l1.tx_head = l.tx_head /\ l1.tx_avail = l.tx_avail
       /\ l1.tx_bump_pending = l.tx_bump_pending
       /\ l1.rx_head = l.rx_head /\ l1.rx_bump_pending = l.rx_bump_pending
  <2>1. \A x \in Nat : [l EXCEPT !.rx_avail = x] \in LibSock
    BY <1>2 DEF LibSock
  <2> HIDE DEF n, hd
  <2>2. l.rx_avail + n \in Nat
    BY <1>4, <1>9, <1>11, SMTT(40)
  <2>3. l1 \in LibSock
    BY <2>1, <2>2
  <2> QED
    BY <1>2, <1>11, <2>3 DEF LibSock
<1> HIDE DEF l1
<1>13. /\ SameBumps(l1, app_fast[e], lib'[e], app_fast'[e])
       /\ lib' \in [Ends -> LibSock] /\ app_fast' \in [Ends -> Seq(Bump)]
       /\ lib'[Peer(e)] = lib[Peer(e)] /\ app_fast'[Peer(e)] = app_fast[Peer(e)]
  BY <1>1, <1>7, <1>12, SetLibIs
<1>14. TypeInv'
  BY <1>1, <1>8, <1>13 DEF TypeInv
<1>15. TxOk(sock[e], txbuf[e], l1, qt, back, wrote[e], a)
  <2> HIDE DEF l, a, qt, back
  <2> QED
    BY <1>2, <1>3, <1>5, <1>12, TxOkFlushed
<1>16. RxOk(sock[e], rxbuf[e], l1, qr, ready2, g, r)
  <2> HIDE DEF l, hd, r, qr, ready, ready2, g
  <2> QED
    BY <1>2, <1>3, <1>5, <1>9, <1>10, <1>12, RxOkReady
<1>17. e \notin dropped => Exact(l1, back, ready2, wrote[e], a, g, r)
  <2> HIDE DEF l, hd, a, r, back, ready, ready2, g
  <2> QED
    BY <1>2, <1>3, <1>4, <1>5, <1>9, <1>10, <1>12, SMTT(40) DEF Exact
<1>18. EndOk(e)'
  BY <1>1, <1>5, <1>8, <1>10, <1>12, <1>13, <1>14, <1>15, <1>16, <1>17, LibEndOk
<1>19. EndSame(Peer(e))
  BY <1>8, <1>13 DEF EndSame
<1> QED
  BY <1>8, <1>14, <1>18, <1>19, LibStep
\* The entry of a handled bump is released ...
LEMMA PollReleaseStep ==
  ASSUME IInv, NEW e \in Ends, PollRelease(e)
  PROVE  IInv'
<1>1. TypeInv /\ EndOk(e) /\ Peer(e) \in Ends /\ Peer(e) # e
  BY PeerFacts DEF IInv
<1>2. /\ polling[e] = "handled"
      /\ fast_app' = [fast_app EXCEPT ![e] = Tail(@)]
      /\ polling' = [polling EXCEPT ![e] = "poll"]
      /\ UNCHANGED <<sock, sched, txbuf, rxbuf, app_fast, lib, wrote, got, net,
                     load, dropped>>
  BY DEF PollRelease, fastVars, bufVars, slowVars, history
<1>3. /\ polling \in [Ends -> {"out", "poll", "handled"}]
      /\ \A d \in Ends : polling[d] = "handled" => fast_app[d] # <<>>
      /\ fast_app \in [Ends -> Seq(Bump)]
  BY <1>1 DEF TypeInv
<1>4. Tail(fast_app[e]) \in Seq(Bump)
  BY <1>2, <1>3, SMTT(40)
<1>5. /\ fast_app' \in [Ends -> Seq(Bump)]
      /\ polling' \in [Ends -> {"out", "poll", "handled"}]
  BY <1>2, <1>3, <1>4
<1>6. \A d \in Ends : polling'[d] = "handled" => fast_app'[d] # <<>>
  BY <1>2, <1>3
<1>7. TypeInv'
  BY <1>1, <1>2, <1>5, <1>6 DEF TypeInv
<1>8. Unhandled(e)' = Unhandled(e) /\ Unhandled(Peer(e))' = Unhandled(Peer(e))
  BY <1>1, <1>2, <1>3 DEF Unhandled
<1>9. EndSame(e) /\ EndSame(Peer(e))
  BY <1>2, <1>8 DEF EndSame
<1>10. EndOk(e)'
  BY <1>1, <1>2, <1>9, EndSameOk
<1> QED
  BY <1>2, <1>7, <1>9, <1>10, LibStep

\* ... and the poll ends.
LEMMA PollDoneStep ==
  ASSUME IInv, NEW e \in Ends, PollDone(e)
  PROVE  IInv'
<1>1. TypeInv /\ EndOk(e) /\ Peer(e) \in Ends /\ Peer(e) # e
  BY PeerFacts DEF IInv
<1>2. /\ polling[e] = "poll"
      /\ polling' = [polling EXCEPT ![e] = "out"]
      /\ UNCHANGED <<sock, sched, txbuf, rxbuf, app_fast, fast_app, lib, wrote,
                     got, net, load, dropped>>
  BY DEF PollDone, fastVars, bufVars, slowVars, history
<1>3. TypeInv'
  BY <1>1, <1>2 DEF TypeInv
<1>4. Unhandled(e)' = Unhandled(e) /\ Unhandled(Peer(e))' = Unhandled(Peer(e))
  BY <1>1, <1>2 DEF Unhandled, TypeInv
<1>5. EndSame(e) /\ EndSame(Peer(e))
  BY <1>2, <1>4 DEF EndSame
<1>6. EndOk(e)'
  BY <1>1, <1>2, <1>5, EndSameOk
<1> QED
  BY <1>2, <1>3, <1>5, <1>6, LibStep

-----------------------------------------------------------------------------
(* The steps of the fast path *)

\* The fast path takes the first bump of the library.
LEMMA DeqIs ==
  ASSUME TypeInv, NEW e \in Ends, NEW kind \in BumpKinds, app_fast[e] # <<>>,
         Head(app_fast[e]).kind = kind, app_fast' = [app_fast EXCEPT ![e] = Tail(@)]
  PROVE  /\ Head(app_fast[e]).n \in Nat
         /\ app_fast' \in [Ends -> Seq(Bump)]
         /\ app_fast'[Peer(e)] = app_fast[Peer(e)]
         /\ BumpSum(app_fast'[e], "CHAM_TX") \in Nat
         /\ BumpSum(app_fast'[e], "CHAM_RX") \in Nat
         /\ \A k \in BumpKinds :
              BumpSum(app_fast[e], k) =
                BumpSum(app_fast'[e], k)
                + (IF kind = k THEN Head(app_fast[e]).n ELSE 0)
<1>1. Peer(e) \in Ends /\ Peer(e) # e
  BY PeerFacts
<1>2. app_fast \in [Ends -> Seq(Bump)] /\ app_fast[e] \in Seq(Bump)
  BY DEF TypeInv
<1>3. /\ Tail(app_fast[e]) \in Seq(Bump) /\ Head(app_fast[e]) \in Bump
      /\ \A k \in BumpKinds :
           BumpSum(app_fast[e], k) =
             BumpSum(Tail(app_fast[e]), k)
             + (IF Head(app_fast[e]).kind = k THEN Head(app_fast[e]).n ELSE 0)
  BY <1>2, SumsTail
<1>4. Head(app_fast[e]).n \in Nat
  BY <1>3 DEF Bump
<1>5. /\ app_fast' \in [Ends -> Seq(Bump)] /\ app_fast'[e] = Tail(app_fast[e])
      /\ app_fast'[Peer(e)] = app_fast[Peer(e)]
  BY <1>1, <1>2, <1>3
<1>6. /\ BumpSum(Tail(app_fast[e]), "CHAM_TX") \in Nat
      /\ BumpSum(Tail(app_fast[e]), "CHAM_RX") \in Nat
  BY <1>3, SumsType
<1> QED
  BY <1>3, <1>4, <1>5, <1>6

\* deq_handle_bump_tx: what the library wrote may be sent.
LEMMA DeqTxStep ==
  ASSUME IInv, NEW e \in Ends, deq_handle_bump_tx(e)
  PROVE  IInv'
<1> DEFINE s == sock[e]
           n == Head(app_fast[e]).n
           t == [s EXCEPT !.tx_avail = @ + n]
           a == Una(s, Iss[e])
           r == Nxt(s, Iss[Peer(e)])
           qt == BumpSum(app_fast[e], "CHAM_TX")
           qr == BumpSum(app_fast[e], "CHAM_RX")
           qt2 == BumpSum(app_fast'[e], "CHAM_TX")
           back == BumpSum(Unhandled(e), "APP_TX")
           ready == BumpSum(Unhandled(e), "APP_RX")
<1>1. TypeInv /\ EndOk(e) /\ Peer(e) \in Ends /\ Peer(e) # e /\ Peer(Peer(e)) = e
      /\ PairOk(e) /\ PairOk(Peer(e))
  BY PeerFacts DEF IInv
<1>2. s \in Sock /\ lib[e] \in LibSock /\ wrote[e] \in Nat /\ sock \in [Ends -> Sock]
  BY <1>1, EndTypes DEF TypeInv
<1>3. /\ a \in Nat /\ qt \in Nat /\ back \in Nat /\ qr \in Nat /\ ready \in Nat
      /\ r \in Nat
  BY <1>1, EndNumbers
<1>4. /\ app_fast[e] # <<>> /\ Head(app_fast[e]).kind = "CHAM_TX"
      /\ sock' = [sock EXCEPT ![e] = t]
      /\ sched' = sched \cup {e}
      /\ app_fast' = [app_fast EXCEPT ![e] = Tail(@)]
      /\ UNCHANGED <<txbuf, rxbuf, fast_app, lib, polling, wrote, got, net, load,
                     dropped>>
  BY DEF deq_handle_bump_tx, deq_sock_bump_tx, bufVars, libVars, slowVars, history
<1>5. /\ n \in Nat /\ app_fast' \in [Ends -> Seq(Bump)]
      /\ app_fast'[Peer(e)] = app_fast[Peer(e)] /\ qt2 \in Nat
      /\ qt = qt2 + n /\ BumpSum(app_fast'[e], "CHAM_RX") = qr
  <2>1. /\ n \in Nat /\ app_fast' \in [Ends -> Seq(Bump)]
        /\ app_fast'[Peer(e)] = app_fast[Peer(e)] /\ qt2 \in Nat
        /\ BumpSum(app_fast'[e], "CHAM_RX") \in Nat
        /\ \A k \in BumpKinds :
              BumpSum(app_fast[e], k) =
                BumpSum(app_fast'[e], k) + (IF "CHAM_TX" = k THEN n ELSE 0)
    BY <1>1, <1>4, DeqIs DEF BumpKinds
  <2>2. qt = qt2 + n /\ qr = BumpSum(app_fast'[e], "CHAM_RX") + 0
    BY <2>1 DEF BumpKinds
  <2> QED
    BY <2>1, <2>2, SMTT(40)
<1>6. s.tx_pending \in Nat /\ s.tx_avail \in Nat
  BY <1>2, SockFields
<1> HIDE DEF n
<1>7. /\ t \in Sock /\ t.tx_avail = s.tx_avail + n /\ t.tx_pending = s.tx_pending
      /\ t.tx_head = s.tx_head /\ t.tx_seq = s.tx_seq /\ t.rx_seq = s.rx_seq
      /\ t.rx_head = s.rx_head /\ t.rx_avail = s.rx_avail
  <2>1. \A x \in Nat : [s EXCEPT !.tx_avail = x] \in Sock
    BY <1>2 DEF Sock
  <2>2. s.tx_avail + n \in Nat
    BY <1>5, <1>6, SMTT(40)
  <2> QED
    BY <1>2, <2>1, <2>2 DEF Sock
<1> HIDE DEF t
<1>8. sock' \in [Ends -> Sock] /\ sock'[e] = t /\ sock'[Peer(e)] = sock[Peer(e)]
  BY <1>1, <1>2, <1>4, <1>7
<1>9. TypeInv'
  BY <1>1, <1>4, <1>5, <1>8 DEF TypeInv
<1>10. Unhandled(e)' = Unhandled(e) /\ Unhandled(Peer(e))' = Unhandled(Peer(e))
  BY <1>4 DEF Unhandled
<1>11. Una(t, Iss[e]) = a /\ Nxt(t, Iss[Peer(e)]) = r
  BY <1>7 DEF Una, Nxt
<1>12. TxOk(t, txbuf[e], lib[e], qt2, back, wrote[e], a)
  <2>1. TxOk(s, txbuf[e], lib[e], qt, back, wrote[e], a)
    BY <1>1 DEF EndOk
  <2> HIDE DEF s, a, qt, qt2, back
  <2>2. t.tx_pending + t.tx_avail = s.tx_pending + s.tx_avail + n
    BY <1>5, <1>6, <1>7, SMTT(40)
  <2> QED
    BY <1>2, <1>3, <1>5, <1>7, <2>1, <2>2, TxOkQueued
<1>13. RxOk(t, rxbuf[e], lib[e], qr, ready, Len(got[e]), r)
  BY <1>1, <1>7, RxOkSame DEF EndOk
<1>14. EndOk(e)'
  BY <1>1, <1>4, <1>5, <1>8, <1>10, <1>11, <1>12, <1>13 DEF EndOk
<1>15. EndSame(Peer(e))
  BY <1>1, <1>4, <1>5, <1>8, <1>10 DEF EndSame
<1>16. Forward(e)
  <2>1. Top(s, Iss[e]) <= Top(t, Iss[e])
    <3>1. Top(s, Iss[e]) = a + s.tx_pending + s.tx_avail
          /\ Top(t, Iss[e]) = a + s.tx_pending + (s.tx_avail + n)
      BY <1>7, <1>11 DEF Top
    <3> HIDE DEF s, a
    <3> QED
      BY <1>3, <1>5, <1>6, <3>1, SMTT(40)
  <2> QED
    BY <1>8, <1>11, <2>1, Stays
<1>17. SendsOk(e)
  BY <1>4 DEF SendsOk
<1> QED
  BY <1>4, <1>9, <1>14, <1>15, <1>16, <1>17, OneEnd

\* deq_handle_bump_rx: what the application has read is free again.
LEMMA DeqRxStep ==
  ASSUME IInv, NEW e \in Ends, deq_handle_bump_rx(e)
  PROVE  IInv'
<1> DEFINE s == sock[e]
           n == Head(app_fast[e]).n
           t == [s EXCEPT !.rx_head = WrapOnce(@ + n, RxLen), !.rx_avail = @ - n]
           a == Una(s, Iss[e])
           r == Nxt(s, Iss[Peer(e)])
           qt == BumpSum(app_fast[e], "CHAM_TX")
           qr == BumpSum(app_fast[e], "CHAM_RX")
           qr2 == BumpSum(app_fast'[e], "CHAM_RX")
           back == BumpSum(Unhandled(e), "APP_TX")
           ready == BumpSum(Unhandled(e), "APP_RX")
           g == Len(got[e])
           segs == IF s.rx_avail = RxLen THEN <<tx_fill_hdr(t, <<>>)>> ELSE <<>>
<1>1. TypeInv /\ EndOk(e) /\ Peer(e) \in Ends /\ Peer(e) # e /\ Peer(Peer(e)) = e
      /\ PairOk(e) /\ PairOk(Peer(e))
  BY PeerFacts DEF IInv
<1>2. s \in Sock /\ lib[e] \in LibSock /\ wrote[e] \in Nat /\ sock \in [Ends -> Sock]
  BY <1>1, EndTypes DEF TypeInv
<1>3. /\ a \in Nat /\ qt \in Nat /\ back \in Nat /\ qr \in Nat /\ ready \in Nat
      /\ r \in Nat /\ g \in Nat
  BY <1>1, EndNumbers
<1>4. /\ app_fast[e] # <<>> /\ Head(app_fast[e]).kind = "CHAM_RX"
      /\ sock' = [sock EXCEPT ![e] = t]
      /\ net' = Sent(e, segs)
      /\ app_fast' = [app_fast EXCEPT ![e] = Tail(@)]
      /\ UNCHANGED <<sched, txbuf, rxbuf, fast_app, lib, polling, wrote, got, load,
                     dropped>>
  BY DEF deq_handle_bump_rx, deq_sock_bump_rx, bufVars, libVars, slowVars, history
<1>5. /\ n \in Nat /\ app_fast' \in [Ends -> Seq(Bump)]
      /\ app_fast'[Peer(e)] = app_fast[Peer(e)] /\ qr2 \in Nat
      /\ qr = qr2 + n /\ BumpSum(app_fast'[e], "CHAM_TX") = qt
  <2>1. /\ n \in Nat /\ app_fast' \in [Ends -> Seq(Bump)]
        /\ app_fast'[Peer(e)] = app_fast[Peer(e)] /\ qr2 \in Nat
        /\ BumpSum(app_fast'[e], "CHAM_TX") \in Nat
        /\ \A k \in BumpKinds :
              BumpSum(app_fast[e], k) =
                BumpSum(app_fast'[e], k) + (IF "CHAM_RX" = k THEN n ELSE 0)
    BY <1>1, <1>4, DeqIs DEF BumpKinds
  <2>2. qr = qr2 + n /\ qt = BumpSum(app_fast'[e], "CHAM_TX") + 0
    BY <2>1 DEF BumpKinds
  <2> QED
    BY <2>1, <2>2, SMTT(40)
<1>6. s.rx_avail \in Nat /\ s.rx_head \in Nat
  BY <1>2, SockFields
<1> HIDE DEF n
<1>7. /\ RxOk(s, rxbuf[e], lib[e], qr, ready, g, r)
      /\ TxOk(s, txbuf[e], lib[e], qt, back, wrote[e], a)
  BY <1>1 DEF EndOk
<1>8. n <= s.rx_avail
  <2>1. lib[e].rx_avail \in Nat /\ lib[e].rx_bump_pending \in Nat
    BY <1>2, LibFields
  <2>2. s.rx_avail = r - Told(lib[e], qr, g) /\ lib[e].rx_avail + ready <= r - g
    BY <1>7 DEF RxOk
  <2>3. n \in Nat /\ qr2 \in Nat /\ qr = qr2 + n
    BY <1>5
  <2> HIDE DEF s, r, qr, g, qr2, ready
  <2> QED
    BY <1>3, <1>6, <2>1, <2>2, <2>3, SMTT(40) DEF Told
<1>9. /\ t \in Sock /\ t.rx_head = WrapOnce(s.rx_head + n, RxLen)
      /\ t.rx_avail = s.rx_avail - n
      /\ t.tx_avail = s.tx_avail /\ t.tx_pending = s.tx_pending
      /\ t.tx_head = s.tx_head /\ t.tx_seq = s.tx_seq /\ t.rx_seq = s.rx_seq
      /\ sock_sched_avail(t) = sock_sched_avail(s)
  <2>1. \A x, y \in Nat : [s EXCEPT !.rx_head = x, !.rx_avail = y] \in Sock
    BY <1>2 DEF Sock
  <2>2. s.rx_avail - n \in Nat /\ WrapOnce(s.rx_head + n, RxLen) \in Nat
    <3>1. n \in Nat
      BY <1>5
    <3> HIDE DEF s
    <3> QED
      BY <1>6, <1>8, <3>1, SockAssumption, SMTT(40) DEF WrapOnce
  <2>3. t \in Sock
    BY <2>1, <2>2
  <2>4. sock_sched_avail(t) = sock_sched_avail(s)
    BY <1>2, SchedAvailSame DEF Sock
  <2> QED
    BY <1>2, <2>3, <2>4 DEF Sock
<1>10. sock' \in [Ends -> Sock] /\ sock'[e] = t /\ sock'[Peer(e)] = sock[Peer(e)]
  <2> HIDE DEF t
  <2> QED
    BY <1>1, <1>2, <1>4, <1>9
<1> HIDE DEF t
<1>11. Unhandled(e)' = Unhandled(e) /\ Unhandled(Peer(e))' = Unhandled(Peer(e))
  BY <1>4 DEF Unhandled
<1>12. Una(t, Iss[e]) = a /\ Nxt(t, Iss[Peer(e)]) = r /\ Top(t, Iss[e]) = Top(s, Iss[e])
  BY <1>9 DEF Una, Nxt, Top
<1>13. TxOk(t, txbuf[e], lib[e], qt, back, wrote[e], a)
  BY <1>2, <1>3, <1>7, <1>9, TxOkSame
<1>14. RxOk(t, rxbuf[e], lib[e], qr2, ready, g, r)
  <2> HIDE DEF s, r, qr, g, qr2, ready
  <2> QED
    BY <1>2, <1>3, <1>5, <1>7, <1>9, RxOkFreed
<1>15. EndOk(e)'
  BY <1>1, <1>4, <1>5, <1>9, <1>10, <1>11, <1>12, <1>13, <1>14 DEF EndOk
<1>16. EndSame(Peer(e))
  BY <1>1, <1>4, <1>5, <1>10, <1>11 DEF EndSame
<1>17. tx_fill_hdr(t, <<>>) \in Segment
       /\ SegOk(tx_fill_hdr(t, <<>>), Iss[e], Top(sock'[e], Iss[e]),
                Iss[Peer(e)], Nxt(sock'[e], Iss[Peer(e)]))
  <2>1. HalfOk(s, Iss[e])
    BY <1>1, EndsHalfOk
  <2>2. InRings(t) /\ Top(t, Iss[e]) < SeqModulus
    <3>1. InRings(t)
      <4> HIDE DEF a, qt, back, qr2, ready, g, r
      <4> QED
        BY <1>2, <1>3, <1>5, <1>9, <1>13, <1>14, OkInRings
    <3> QED
      BY <1>12, <2>1, <3>1, SockAssumption, SMTT(40) DEF HalfOk
  <2>3. Iss[e] \in SeqNos /\ Iss[Peer(e)] \in SeqNos
    BY <1>1, PeerFacts
  <2> QED
    BY <1>9, <1>10, <2>2, <2>3, EmptyHdrOk
<1>18. segs \in Seq(Segment)
       /\ \A m \in Segs(segs) : SegOk(m, Iss[e], Top(sock'[e], Iss[e]),
                                      Iss[Peer(e)], Nxt(sock'[e], Iss[Peer(e)]))
  BY <1>17, SegsFew
<1> HIDE DEF segs
<1>19. net' \in [Ends -> Seq(Segment)] /\ SendsOk(e)
  BY <1>1, <1>4, <1>18, SentOk
<1>20. TypeInv'
  BY <1>1, <1>4, <1>5, <1>10, <1>19 DEF TypeInv
<1>21. Forward(e)
  BY <1>10, <1>12, Stays
<1> QED
  BY <1>4, <1>15, <1>16, <1>19, <1>20, <1>21, OneEnd

\* deq_handle_retransmit: the flight is to be sent again.
LEMMA RetransmitStep ==
  ASSUME IInv, NEW e \in Ends, deq_handle_retransmit(e)
  PROVE  IInv'
<1> DEFINE s == sock[e]
           stale == deq_is_retransmit_stale(s, Head(slow_fast[e]))
           t == IF stale THEN s ELSE Rewind(s)
           a == Una(s, Iss[e])
           r == Nxt(s, Iss[Peer(e)])
<1>1. TypeInv /\ EndOk(e) /\ Peer(e) \in Ends /\ Peer(e) # e /\ Peer(Peer(e)) = e
      /\ PairOk(e) /\ PairOk(Peer(e))
  BY PeerFacts DEF IInv
<1>2. s \in Sock /\ sock \in [Ends -> Sock]
  BY <1>1, EndTypes DEF TypeInv
<1>3. a \in Nat /\ r \in Nat
  BY <1>1, EndNumbers
<1>4. /\ sock' = [sock EXCEPT ![e] = t]
      /\ sched' = IF stale THEN sched ELSE sched \cup {e}
      /\ UNCHANGED <<txbuf, rxbuf, app_fast, fast_app, lib, polling, wrote, got,
                     net, load, dropped>>
  BY DEF deq_handle_retransmit, bufVars, libVars, history
<1>5. InRings(s) /\ Top(s, Iss[e]) \in Nat
  BY <1>1, EndFacts
<1>6. s.tx_pending \in Nat /\ s.tx_avail \in Nat
  BY <1>2, SockFields
<1>7. /\ t \in Sock /\ t.tx_pending + t.tx_avail = s.tx_pending + s.tx_avail
      /\ t.tx_head = s.tx_head /\ t.tx_seq = s.tx_seq /\ t.rx_seq = s.rx_seq
      /\ t.rx_head = s.rx_head /\ t.rx_avail = s.rx_avail
  <2>1. /\ Rewind(s) \in Sock /\ Rewind(s).tx_pending = 0
        /\ Rewind(s).tx_avail = s.tx_avail + s.tx_pending
        /\ Rewind(s).tx_seq = s.tx_seq /\ Rewind(s).tx_head = s.tx_head
        /\ Rewind(s).rx_seq = s.rx_seq
        /\ Rewind(s).rx_avail = s.rx_avail /\ Rewind(s).rx_head = s.rx_head
    BY <1>2, <1>5, RewindKeepsBytes
  <2> HIDE DEF s, stale
  <2>2. Rewind(s).tx_pending + Rewind(s).tx_avail = s.tx_pending + s.tx_avail
    BY <1>6, <2>1, SMTT(40)
  <2> QED
    BY <1>2, <2>1, <2>2
<1>8. sock' \in [Ends -> Sock] /\ sock'[e] = t /\ sock'[Peer(e)] = sock[Peer(e)]
  <2> HIDE DEF t
  <2> QED
    BY <1>1, <1>2, <1>4, <1>7
<1>9. TypeInv'
  BY <1>1, <1>4, <1>8 DEF TypeInv
<1>10. Unhandled(e)' = Unhandled(e) /\ Unhandled(Peer(e))' = Unhandled(Peer(e))
  BY <1>4 DEF Unhandled
<1>11. sock_sched_avail(t) > 0 => e \in sched' \/ sock_sched_avail(s) > 0
  BY <1>4
<1>12. e \in sched => e \in sched'
  BY <1>4
<1> HIDE DEF t, stale
<1>13. Una(t, Iss[e]) = a /\ Nxt(t, Iss[Peer(e)]) = r
  BY <1>7 DEF Una, Nxt
<1>14. Top(t, Iss[e]) = Top(s, Iss[e])
  <2>1. t.tx_pending \in Nat /\ t.tx_avail \in Nat
    BY <1>7, SockFields
  <2> HIDE DEF a, s
  <2> QED
    BY <1>3, <1>6, <1>7, <1>13, <2>1, SMTT(40) DEF Top, a
<1>15. TxOk(t, txbuf[e], lib[e], BumpSum(app_fast[e], "CHAM_TX"),
            BumpSum(Unhandled(e), "APP_TX"), wrote[e], a)
  BY <1>1, <1>2, <1>3, <1>7, TxOkSame DEF EndOk
<1>16. RxOk(t, rxbuf[e], lib[e], BumpSum(app_fast[e], "CHAM_RX"),
            BumpSum(Unhandled(e), "APP_RX"), Len(got[e]), r)
  BY <1>1, <1>7, RxOkSame DEF EndOk
<1>17. EndOk(e)'
  BY <1>1, <1>4, <1>8, <1>10, <1>11, <1>12, <1>13, <1>15, <1>16 DEF EndOk
<1>18. EndSame(Peer(e))
  BY <1>1, <1>4, <1>8, <1>10 DEF EndSame
<1>19. Forward(e)
  BY <1>8, <1>13, <1>14, Stays
<1>20. SendsOk(e)
  BY <1>4 DEF SendsOk
<1> QED
  BY <1>4, <1>9, <1>17, <1>18, <1>19, <1>20, OneEnd
\* tcp_event_sched: the next bytes of the stream are sent.
LEMMA SchedStep ==
  ASSUME IInv, NEW e \in Ends, tcp_event_sched(e)
  PROVE  IInv'
<1> DEFINE s == sock[e]
           n == tx_get_tx_bump(s, load.paylen)
           data == RingRead(txbuf[e], TxPos(s), n, TxLen)
           t == [s EXCEPT !.tx_avail = @ - n, !.tx_pending = @ + n]
           a == Una(s, Iss[e])
           r == Nxt(s, Iss[Peer(e)])
           qt == BumpSum(app_fast[e], "CHAM_TX")
           back == BumpSum(Unhandled(e), "APP_TX")
           w == wrote[e]
<1>1. TypeInv /\ EndOk(e) /\ Peer(e) \in Ends /\ Peer(e) # e /\ Peer(Peer(e)) = e
      /\ PairOk(e) /\ PairOk(Peer(e))
  BY PeerFacts DEF IInv
<1>2. /\ s \in Sock /\ sock \in [Ends -> Sock] /\ lib[e] \in LibSock /\ w \in Nat
      /\ txbuf[e] \in [0 .. TxLen - 1 -> Nat]
  BY <1>1, EndTypes DEF TypeInv
<1>3. a \in Nat /\ r \in Nat /\ qt \in Nat /\ back \in Nat
  BY <1>1, EndNumbers
<1>4. /\ e \in sched
      /\ sock' = [sock EXCEPT ![e] = t]
      /\ sched' = IF n > 0 /\ sock_sched_avail(t) > 0 THEN sched ELSE sched \ {e}
      /\ net' = Sent(e, <<tx_fill_hdr(s, data)>>)
      /\ UNCHANGED <<txbuf, rxbuf, app_fast, fast_app, lib, polling, wrote, got,
                     load, dropped>>
  BY DEF tcp_event_sched, tx_sock_tx_bump, bufVars, libVars, slowVars, history
<1>5. /\ InRings(s) /\ Top(s, Iss[e]) \in Nat /\ Top(s, Iss[e]) < SeqModulus
      /\ Top(s, Iss[e]) <= w
  BY <1>1, EndFacts, SockAssumption, SMTT(40)
<1>6. s.tx_pending \in Nat /\ s.tx_avail \in Nat
  BY <1>2, SockFields
<1>7. /\ n \in Nat /\ n <= s.tx_avail /\ n <= TxLen
      /\ n = 0 => sock_sched_avail(s) = 0
  <2>1. load.paylen \in Nat \ {0}
    BY <1>1, LoadFacts
  <2>2. sock_sched_avail(s) \in Nat /\ sock_sched_avail(s) <= s.tx_avail
    BY <1>2, <1>5, SchedAvailType
  <2>3. s.tx_avail <= TxLen
    BY <1>5, <1>6, SockAssumption, SMTT(40) DEF InRings
  <2> HIDE DEF s
  <2> QED
    BY <1>6, <2>1, <2>2, <2>3, SockAssumption, SMTT(40) DEF tx_get_tx_bump, MinOf
<1> HIDE DEF n
<1>8. /\ t \in Sock /\ t.tx_avail = s.tx_avail - n /\ t.tx_pending = s.tx_pending + n
      /\ t.tx_head = s.tx_head /\ t.tx_seq = s.tx_seq /\ t.rx_seq = s.rx_seq
      /\ t.rx_head = s.rx_head /\ t.rx_avail = s.rx_avail
      /\ n = 0 => sock_sched_avail(t) = sock_sched_avail(s)
  <2>1. \A x, y \in Nat : [s EXCEPT !.tx_avail = x, !.tx_pending = y] \in Sock
    BY <1>2 DEF Sock
  <2>2. s.tx_avail - n \in Nat /\ s.tx_pending + n \in Nat
    BY <1>6, <1>7, SMTT(40)
  <2>3. t \in Sock
    BY <2>1, <2>2
  <2>4. /\ t.tx_avail = s.tx_avail - n /\ t.tx_pending = s.tx_pending + n
        /\ t.tx_head = s.tx_head /\ t.tx_seq = s.tx_seq /\ t.rx_seq = s.rx_seq
        /\ t.rx_head = s.rx_head /\ t.rx_avail = s.rx_avail
        /\ t.tx_remote_avail = s.tx_remote_avail
        /\ t.recovery_active = s.recovery_active
        /\ t.recovery_end_seq = s.recovery_end_seq
    BY <1>2 DEF Sock
  <2>5. n = 0 => t.tx_avail = s.tx_avail /\ t.tx_pending = s.tx_pending
    <3> HIDE DEF t, s
    <3> QED
      BY <1>6, <2>4, SMTT(40)
  <2>6. n = 0 => sock_sched_avail(t) = sock_sched_avail(s)
    BY <2>4, <2>5, SchedAvailSame
  <2> QED
    BY <2>3, <2>4, <2>6
<1>9. e \notin sched' => ~(sock_sched_avail(t) > 0)
  <2>1. n = 0 => ~(sock_sched_avail(t) > 0)
    BY <1>7, <1>8, SMTT(40)
  <2> HIDE DEF t
  <2> QED
    BY <1>4, <1>7, <2>1, SMTT(40)
<1>10. \A d \in Ends : d # e => (d \in sched' <=> d \in sched)
  BY <1>4
<1> HIDE DEF t
<1>11. sock' \in [Ends -> Sock] /\ sock'[e] = t /\ sock'[Peer(e)] = sock[Peer(e)]
  BY <1>1, <1>2, <1>4, <1>8
<1>12. Unhandled(e)' = Unhandled(e) /\ Unhandled(Peer(e))' = Unhandled(Peer(e))
  BY <1>4 DEF Unhandled
<1>13. Una(t, Iss[e]) = a /\ Nxt(t, Iss[Peer(e)]) = r
  BY <1>8 DEF Una, Nxt
<1>14. t.tx_pending + t.tx_avail = s.tx_pending + s.tx_avail
  <2> HIDE DEF s
  <2> QED
    BY <1>6, <1>7, <1>8, SMTT(40)
<1>15. Top(t, Iss[e]) = Top(s, Iss[e])
  <2>1. t.tx_pending \in Nat /\ t.tx_avail \in Nat
    BY <1>8, SockFields
  <2> HIDE DEF a, s
  <2> QED
    BY <1>3, <1>6, <1>13, <1>14, <2>1, SMTT(40) DEF Top, a
<1>16. TxOk(s, txbuf[e], lib[e], qt, back, w, a)
  BY <1>1 DEF EndOk
<1>17. TxOk(t, txbuf[e], lib[e], qt, back, w, a)
  BY <1>2, <1>3, <1>8, <1>14, <1>16, TxOkSame
<1>18. RxOk(t, rxbuf[e], lib[e], BumpSum(app_fast[e], "CHAM_RX"),
            BumpSum(Unhandled(e), "APP_RX"), Len(got[e]), r)
  BY <1>1, <1>8, RxOkSame DEF EndOk
<1>19. EndOk(e)'
  BY <1>1, <1>4, <1>9, <1>11, <1>12, <1>13, <1>17, <1>18 DEF EndOk
<1>20. EndSame(Peer(e))
  BY <1>1, <1>4, <1>10, <1>11, <1>12 DEF EndSame
<1>21. /\ data \in Seq(Nat) /\ Len(data) = n
       /\ \A i \in 1 .. Len(data) : data[i] = a + s.tx_pending + i
  <2>1. TxPos(s) = At(a + s.tx_pending, TxLen)
    BY <1>2, <1>3, <1>5, <1>16, TxPosIs DEF TxOk
  <2>2. PICK b \in Nat : b = a + s.tx_pending
    <3> HIDE DEF a, s
    <3> QED
      BY <1>3, <1>6, SMTT(40)
  <2>3. a + s.tx_pending + s.tx_avail <= w
    BY <1>5 DEF Top
  <2>4. \A i \in a + 1 .. w : txbuf[e][At(i - 1, TxLen)] = i
    BY <1>16 DEF TxOk
  <2>5. data = RingRead(txbuf[e], At(b, TxLen), n, TxLen)
    BY <2>1, <2>2
  <2> HIDE DEF a, s, w, data
  <2>6. \A i \in b + 1 .. b + n : txbuf[e][At(i - 1, TxLen)] = i
    <3>1. w \in Nat
      BY <1>2
    <3>2. \A i \in b + 1 .. b + n : i \in a + 1 .. w
      BY <1>3, <1>6, <1>7, <2>2, <2>3, <3>1, SMTT(40)
    <3> QED
      BY <2>4, <3>2
  <2>7. n \in 0 .. TxLen /\ TxLen \in Nat \ {0} /\ txbuf[e] \in [0 .. TxLen - 1 -> Nat]
    BY <1>2, <1>7, SockAssumption, SMTT(40)
  <2>8. LET c == RingRead(txbuf[e], At(b, TxLen), n, TxLen)
        IN  /\ c \in Seq(Nat)
            /\ Len(c) = n
            /\ \A i \in 1 .. n : c[i] = b + i
    <3>1. b \in Nat /\ n \in 0 .. TxLen
      BY <2>2, <2>7
    <3>2. TxLen \in Nat \ {0}
      BY <2>7
    <3>3. txbuf[e] \in [0 .. TxLen - 1 -> Nat]
      BY <2>7
    <3> QED
      BY <2>6, <3>1, <3>2, <3>3, RingReadIs
  <2> QED
    BY <2>2, <2>5, <2>8
<1> HIDE DEF data
<1>22. /\ tx_fill_hdr(s, data) \in Segment
       /\ SegOk(tx_fill_hdr(s, data), Iss[e], Top(sock'[e], Iss[e]),
                Iss[Peer(e)], Nxt(sock'[e], Iss[Peer(e)]))
  <2>1. Iss[e] \in SeqNos /\ Iss[Peer(e)] \in SeqNos
    BY <1>1, PeerFacts
  <2>2. Len(data) <= s.tx_avail
    BY <1>7, <1>21
  <2>3. /\ tx_fill_hdr(s, data) \in Segment
        /\ SegOk(tx_fill_hdr(s, data), Iss[e], Top(s, Iss[e]), Iss[Peer(e)], r)
    BY <1>2, <1>5, <1>21, <2>1, <2>2, HdrOk
  <2> QED
    BY <1>11, <1>13, <1>15, <2>3
<1>23. net' \in [Ends -> Seq(Segment)] /\ SendsOk(e)
  <2> DEFINE segs == <<tx_fill_hdr(s, data)>>
  <2>1. /\ segs \in Seq(Segment)
        /\ \A m \in Segs(segs) : SegOk(m, Iss[e], Top(sock'[e], Iss[e]),
                                       Iss[Peer(e)], Nxt(sock'[e], Iss[Peer(e)]))
    BY <1>22, SegsFew
  <2>2. net' = Sent(e, segs)
    BY <1>4
  <2> HIDE DEF segs
  <2> QED
    BY <1>1, <2>1, <2>2, SentOk
<1>24. TypeInv'
  BY <1>1, <1>4, <1>11, <1>23 DEF TypeInv
<1>25. Forward(e)
  BY <1>11, <1>13, <1>15, Stays
<1> QED
  BY <1>4, <1>19, <1>20, <1>23, <1>24, <1>25, OneEnd

=============================================================================
