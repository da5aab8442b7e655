--------------------------------- MODULE Arp ---------------------------------
(***************************************************************************)
(* Address resolution.  Every fast-path core has its own ARP table; the    *)
(* control plane has the one they are copies of.  A core that has a packet *)
(* for an address it does not know hands the packet to the control plane,  *)
(* which asks the network, repeats the question on a timer, buffers the    *)
(* packet, and once the answer is there updates every core and gives the   *)
(* packets back.  Cores and control plane only share queues.               *)
(*                                                                         *)
(* An IP address is a number, because the table hashes it; 0 is the empty  *)
(* address.  A packet buffer is a number, too.                             *)
(***************************************************************************)
EXTENDS TomgrHeap

CONSTANTS
  NCores,        \* fp_cores_max
  TableSize,     \* ARP_TABLE_SIZE
  BufSize,       \* ARP_BUF_SIZE
  CTL_BATCH_SIZE,
  Loads          \* what the network and the cores do in a run, see below

\* A load is [outer, macs, mbufs, reqs, faults, expiries, len, txlen, slack]: outer
\* maps a destination to the IP address it is reached at, or to 0; macs are the
\* hardware addresses a host may answer with; there are mbufs packets to send,
\* reqs requests from other hosts and faults messages lost, repeated or meant
\* for another host; timers expire at most expiries times or, with slack, as
\* often as they like but not before a core has sent what is queued for it; len
\* is the length of the message queues and txlen that of txq.

ASSUME ArpAssumption ==
  /\ NCores \in Nat \ {0} /\ TableSize \in Nat \ {0} /\ BufSize \in Nat \ {0}
  /\ CTL_BATCH_SIZE \in Nat \ {0}

VARIABLES
  load,
  fast,    \* fast[c]: arp_table of core c
  cp,      \* the control plane: [table, te, tm, data, buf, up]
  fcq,     \* fast_ctl_qs
  cfq,     \* ctl_fast_qs
  txq,     \* txqs[0]
  loop,    \* where control_loop is: [pc, i, polled, core]
  net,     \* the network: [asked, reqs, faults, expiries]
  mbs,     \* mbs[m]: destination of packet m, 0 before it is sent
  out,     \* out[m]: 0, or the address packet m went to, or NULL if it was freed
  refused  \* what a full queue or table refused
vars == <<load, fast, cp, fcq, cfq, txq, loop, net, mbs, out, refused>>

Cores == 0 .. NCores - 1
Buckets == 0 .. TableSize - 1
BufSlots == 0 .. BufSize - 1
ARP_IP_EMPTY == 0
NULL == -1
Mbufs == DOMAIN mbs

-----------------------------------------------------------------------------
(* The table: linear probing from ip & mask, nothing is ever deleted.       *)

NoEntry == [ip |-> ARP_IP_EMPTY, pending |-> FALSE, mac |-> 0]
arp_table_init == [b \in Buckets |-> NoEntry]

\* The bucket at which the loops over a table stop for ip.
Probe(at, ip) ==
  LET stop == {i \in Buckets : at[(ip + i) % TableSize].ip \in {ip, ARP_IP_EMPTY}}
  IN IF stop = {} THEN NULL ELSE (ip + Min(stop)) % TableSize

arp_lookup(at, ip) ==
  LET b == Probe(at, ip)
  IN IF b # NULL /\ at[b].ip = ip THEN b ELSE NULL

\* Both for a bucket that Probe has found.
arp_insert(at, ip, mac) ==
  [at EXCEPT ![Probe(at, ip)] = [ip |-> ip, pending |-> FALSE, mac |-> mac]]
arp_insert_pending(at, ip) ==
  [at EXCEPT ![Probe(at, ip)] = [@ EXCEPT !.ip = ip, !.pending = TRUE]]

Resolved(at, ip) == arp_lookup(at, ip) # NULL /\ ~at[arp_lookup(at, ip)].pending
Pending(at, ip) == arp_lookup(at, ip) # NULL /\ at[arp_lookup(at, ip)].pending
MacOf(at, ip) == at[arp_lookup(at, ip)].mac

-----------------------------------------------------------------------------
(* What the control plane changes in one handler:                          *)
(* w = [table, te, tm, data, buf, up, cfq, txq, refused].                  *)

Full(q) == Len(q) >= load.len
TxqFull(w) == Len(w.txq) >= load.txlen
Put(w, c, msg) == [w EXCEPT !.cfq[c] = Append(@, msg)]
Refuse(w, what) == [w EXCEPT !.refused = @ \cup {what}]

NoBuf == [ip |-> ARP_IP_EMPTY, core |-> 0, mb |-> 0]
arp_buf_init == [s \in BufSlots |-> NoBuf]

\* A packet that finds no slot is lost.
arp_buf_insert(w, ip, c, mb) ==
  LET free == {s \in BufSlots : w.buf[s].ip = ARP_IP_EMPTY}
  IN IF free = {} THEN Refuse(w, "packet")
     ELSE [w EXCEPT !.buf[Min(free)] = [ip |-> ip, core |-> c, mb |-> mb]]

\* The packets from slot s on that wait for ip; stops at a full queue.
RECURSIVE FlushFrom(_, _, _)
FlushFrom(w, ip, s) ==
  IF s = BufSize THEN w
  ELSE IF w.buf[s].ip # ip THEN FlushFrom(w, ip, s + 1)
  ELSE LET e == w.buf[s]
       IN IF Full(w.cfq[e.core]) THEN Refuse(w, "packet")
          ELSE FlushFrom([Put(w, e.core, [t |-> "MBUF_TX", mb |-> e.mb])
                            EXCEPT !.buf[s] = NoBuf], ip, s + 1)

arp_buf_flush(w, ip) == FlushFrom(w, ip, 0)

\* The packet goes to txq of core 0, and then a notice to its queue.  Without
\* room for the notice the packet stays.
SendArp(w, pkt) ==
  IF TxqFull(w) THEN [ok |-> FALSE, w |-> w]
  ELSE LET sent == [w EXCEPT !.txq = Append(@, pkt)]
       IN IF Full(w.cfq[0]) THEN [ok |-> FALSE, w |-> sent]
          ELSE [ok |-> TRUE, w |-> Put(sent, 0, [t |-> "ARP_TX_PKT"])]

arp_request(w, ip) == SendArp(w, [oper |-> "request", tpa |-> ip])
arp_reply(w, ip) == SendArp(w, [oper |-> "reply", tpa |-> ip])

\* Core by core, until a queue is full.
RECURSIVE UpdateFrom(_, _, _, _)
UpdateFrom(w, ip, mac, c) ==
  IF c = NCores THEN [ok |-> TRUE, w |-> w]
  ELSE IF Full(w.cfq[c]) THEN [ok |-> FALSE, w |-> Refuse(w, "update")]
  ELSE UpdateFrom(Put(w, c, [t |-> "ARP_UPDATE", ip |-> ip, mac |-> mac]), ip, mac, c + 1)

update_arp_fast(w, ip, mac) == UpdateFrom(w, ip, mac, 0)

-----------------------------------------------------------------------------
(* Timers.  ARP_TIMEOUT is one for all, so a new timer is the last to       *)
(* expire; only the order of the deadlines matters, and they are kept as    *)
(* ranks.                                                                  *)

Ranked(tm) ==
  LET tos == {tm.heap[k].to : k \in DOMAIN tm.heap}
  IN [tm EXCEPT !.heap =
        [k \in DOMAIN tm.heap |->
           [tm.heap[k] EXCEPT !.to = Cardinality({t \in tos : t <= tm.heap[k].to})]]]

Latest(tm) == Max({0} \cup {tm.heap[k].to : k \in DOMAIN tm.heap}) + 1

\* tomgr_insert for the entry in bucket b, and the store to its te: without a
\* bucket, that store is to a null pointer.
Timed(w, b) ==
  IF ~CanInsert(w.tm) THEN Refuse(w, "timer")
  ELSE LET e == find_free_entry(w.tm)
           r == [w EXCEPT !.tm = Inserted(w.tm, Latest(w.tm)), !.data[e] = b]
       IN IF b = NULL THEN [r EXCEPT !.up = FALSE] ELSE [r EXCEPT !.te[b] = e]

-----------------------------------------------------------------------------
(* The handlers of the control plane *)

RequestAndTime(w, ip, b) ==
  LET r == arp_request(w, ip)
  IN IF r.ok THEN Timed(r.w, b) ELSE Refuse(r.w, "request")

control_arp_lookup(w, ip) ==
  IF arp_lookup(w.table, ip) # NULL THEN w
  ELSE LET b == Probe(w.table, ip)
       IN RequestAndTime(IF b = NULL THEN w
                         ELSE [w EXCEPT !.table = arp_insert_pending(@, ip)], ip, b)

control_arp_mbuf(w, c, msg) ==
  IF ~Resolved(w.table, msg.ip) THEN arp_buf_insert(w, msg.ip, c, msg.mb)
  ELSE IF Full(w.cfq[c]) THEN Refuse(w, "packet")
  ELSE Put(w, c, [t |-> "MBUF_TX", mb |-> msg.mb])

\* Mutants of UpdateAndFlush: the packets go back before the address is known;
\* they do not go back.
Bug_flush_first(w, ip, mac) == update_arp_fast(arp_buf_flush(w, ip), ip, mac)
Bug_no_flush(w, ip, mac) == update_arp_fast(w, ip, mac)

\* A packet in the buffer only moves once all cores have been told.
UpdateAndFlush(w, ip, mac) ==
  LET u == update_arp_fast(w, ip, mac)
  IN IF u.ok THEN [u EXCEPT !.w = arp_buf_flush(@, ip)] ELSE u

\* Mutant of control_arp_req: the sender of a request is always believed.
Bug_req_overwrites(w, p) ==
  LET u == UpdateAndFlush([w EXCEPT !.table = arp_insert(@, p.spa, p.sha)], p.spa, p.sha)
  IN IF p.tpa # "us" \/ Probe(w.table, p.spa) = NULL \/ ~u.ok THEN w ELSE arp_reply(u.w, p.spa).w

\* A request for our address also tells who its sender is.  The timer of a
\* request of ours for that address goes on.
control_arp_req(w, p) ==
  IF p.tpa # "us" THEN w
  ELSE IF Resolved(w.table, p.spa) THEN arp_reply(w, p.spa).w
  ELSE IF Probe(w.table, p.spa) = NULL THEN w
  ELSE LET u == UpdateAndFlush([w EXCEPT !.table = arp_insert(@, p.spa, p.sha)], p.spa, p.sha)
       IN IF u.ok THEN arp_reply(u.w, p.spa).w ELSE u.w

arp_reply_targets_local(p) == p.tpa = "us" /\ p.tha \in {"us", "broadcast"}

\* Only the answer to a request that is pending, and only one for us.
control_arp_rep(w, p) ==
  IF ~arp_reply_targets_local(p) \/ ~Pending(w.table, p.spa) THEN w
  ELSE LET b == arp_lookup(w.table, p.spa)
           known == [w EXCEPT !.table = arp_insert(@, p.spa, p.sha)]
           quiet == IF w.te[b] = NULL THEN known
                    ELSE [known EXCEPT !.tm = Cancelled(@, w.te[b]), !.te[b] = NULL]
       IN UpdateAndFlush(quiet, p.spa, p.sha).w

\* Mutant of control_arp_timeout: the request is repeated once.
Bug_timeout_once(w, b) ==
  IF w.table[b].pending THEN arp_request(w, w.table[b].ip).w ELSE w

control_arp_timeout(w, b) ==
  IF w.table[b].pending THEN RequestAndTime(w, w.table[b].ip, b) ELSE w

-----------------------------------------------------------------------------
(* The loop of the control plane: poll_fast, then poll_timeouts.           *)

W ==
  [table |-> cp.table, te |-> cp.te, tm |-> cp.tm, data |-> cp.data, buf |-> cp.buf,
   up |-> cp.up, cfq |-> cfq, txq |-> txq, refused |-> refused]

Becomes(w) ==
  /\ cp' = [table |-> w.table, te |-> w.te, tm |-> Ranked(w.tm), data |-> w.data,
            buf |-> w.buf, up |-> w.up]
  /\ cfq' = w.cfq /\ txq' = w.txq /\ refused' = w.refused
  /\ UNCHANGED <<load, fast, mbs, out>>

NextCore == (loop.core + 1) % NCores

\* A batch that is full moves on to the next core, too.
PollMessage ==
  /\ cp.up /\ loop.pc = "fast"
  /\ LET c == loop.core
         msg == Head(fcq[c])
     IN /\ fcq[c] # <<>>
        /\ Becomes(CASE msg.t = "ARP_LOOKUP" -> control_arp_lookup(W, msg.ip)
                     [] msg.t = "MBUF_PENDING" -> control_arp_mbuf(W, c, msg)
                     [] msg.t = "ARP_RX_REQ" -> control_arp_req(W, msg)
                     [] msg.t = "ARP_RX_REP" -> control_arp_rep(W, msg))
        /\ fcq' = [fcq EXCEPT ![c] = Tail(@)]
  /\ loop' = IF loop.i + 1 < CTL_BATCH_SIZE THEN [loop EXCEPT !.i = @ + 1]
             ELSE [pc |-> "timeouts", i |-> 0, polled |-> 0, core |-> NextCore]
  /\ UNCHANGED net

PollEmpty ==
  /\ cp.up /\ loop.pc = "fast"
  /\ fcq[loop.core] = <<>>
  /\ loop' = IF loop.polled + 1 < NCores
             THEN [loop EXCEPT !.polled = @ + 1, !.core = NextCore]
             ELSE [pc |-> "timeouts", i |-> 0, polled |-> 0, core |-> NextCore]
  /\ UNCHANGED <<load, fast, cp, fcq, cfq, txq, net, mbs, out, refused>>

\* The handler runs before its timer is popped: its new timer is in the heap,
\* after the old one.
Expire ==
  /\ cp.up /\ loop.pc = "timeouts"
  /\ cp.tm.heap # <<>>
  /\ IF load.slack THEN txq = <<>> /\ UNCHANGED net
     ELSE net.expiries > 0 /\ net' = [net EXCEPT !.expiries = @ - 1]
  /\ LET w == control_arp_timeout(W, cp.data[cp.tm.heap[1].idx])
     IN Becomes([w EXCEPT !.tm = Popped(@)])
  /\ loop' = IF loop.i + 1 < CTL_BATCH_SIZE THEN [loop EXCEPT !.i = @ + 1]
             ELSE [loop EXCEPT !.pc = "fast", !.i = 0]
  /\ UNCHANGED fcq

TimeoutsEnd ==
  /\ cp.up /\ loop.pc = "timeouts"
  /\ loop' = [loop EXCEPT !.pc = "fast", !.i = 0]
  /\ UNCHANGED <<load, fast, cp, fcq, cfq, txq, net, mbs, out, refused>>

control_loop == PollMessage \/ PollEmpty \/ Expire \/ TimeoutsEnd

-----------------------------------------------------------------------------
(* The fast-path cores *)

Result(c, mb, table, msgs, what) ==
  /\ fast' = [fast EXCEPT ![c] = table]
  /\ fcq' = [fcq EXCEPT ![c] = @ \o msgs]
  /\ out' = [out EXCEPT ![mb] = what]

\* What process_tx_arp does with packet mb for address ip.  An address whose
\* ARP_LOOKUP finds the queue full stays pending.
process_tx_arp(c, mb, ip) ==
  LET at == fast[c]
      room == load.len - Len(fcq[c])
      asks == [t |-> "ARP_LOOKUP", ip |-> ip]
      waits == [t |-> "MBUF_PENDING", ip |-> ip, mb |-> mb]
  IN IF Resolved(at, ip) THEN Result(c, mb, at, <<>>, MacOf(at, ip)) /\ UNCHANGED refused
     ELSE IF Pending(at, ip)
     THEN /\ IF room > 0 THEN Result(c, mb, at, <<waits>>, 0) ELSE Result(c, mb, at, <<>>, NULL)
          /\ UNCHANGED refused
     ELSE IF Probe(at, ip) = NULL
     THEN Result(c, mb, at, <<>>, NULL) /\ UNCHANGED refused
     ELSE LET p == arp_insert_pending(at, ip)
          IN IF room > 1 THEN Result(c, mb, p, <<asks, waits>>, 0) /\ UNCHANGED refused
             ELSE IF room = 1 THEN Result(c, mb, p, <<asks>>, NULL) /\ UNCHANGED refused
             ELSE Result(c, mb, p, <<>>, NULL) /\ refused' = refused \cup {"request"}

infra_tx(c, mb, dst) ==
  IF load.outer[dst] = ARP_IP_EMPTY
  THEN Result(c, mb, fast[c], <<>>, NULL) /\ UNCHANGED refused
  ELSE process_tx_arp(c, mb, load.outer[dst])

\* A protocol on core c sends a packet.
Send(c, mb, dst) ==
  /\ mbs[mb] = 0 /\ (mb > 1 => mbs[mb - 1] # 0)
  /\ mbs' = [mbs EXCEPT ![mb] = dst]
  /\ infra_tx(c, mb, dst)
  /\ UNCHANGED <<load, cp, cfq, txq, loop, net>>

Take(c) == cfq' = [cfq EXCEPT ![c] = Tail(@)]

handle_arp_update(c) ==
  /\ LET m == Head(cfq[c])
     IN /\ m.t = "ARP_UPDATE"
        /\ fast' = IF Probe(fast[c], m.ip) = NULL THEN fast
                   ELSE [fast EXCEPT ![c] = arp_insert(@, m.ip, m.mac)]
  /\ Take(c)
  /\ UNCHANGED <<load, cp, fcq, txq, loop, net, mbs, out, refused>>

handle_mbuf(c) ==
  /\ Head(cfq[c]).t = "MBUF_TX"
  /\ infra_tx(c, Head(cfq[c]).mb, mbs[Head(cfq[c]).mb])
  /\ Take(c)
  /\ UNCHANGED <<load, cp, txq, loop, net, mbs>>

\* The packet at the head of txq leaves; the host it asks may never see it.
handle_arp_tx_pkt(c) ==
  /\ Head(cfq[c]).t = "ARP_TX_PKT"
  /\ IF txq = <<>> THEN UNCHANGED <<txq, net>>
     ELSE /\ txq' = Tail(txq)
          /\ \/ net' = IF Head(txq).oper = "request"
                       THEN [net EXCEPT !.asked = @ \cup {Head(txq).tpa}] ELSE net
             \/ net.faults > 0 /\ net' = [net EXCEPT !.faults = @ - 1]
  /\ Take(c)
  /\ UNCHANGED <<load, fast, cp, fcq, loop, mbs, out, refused>>

controlif_poll(c) ==
  cfq[c] # <<>> /\ (handle_arp_update(c) \/ handle_mbuf(c) \/ handle_arp_tx_pkt(c))

\* An ARP packet arrives at core c and goes to the control plane, if there is room.
process_rx_arp(c, msg) ==
  /\ fcq' = IF Full(fcq[c]) THEN fcq ELSE [fcq EXCEPT ![c] = Append(@, msg)]
  /\ UNCHANGED <<load, fast, cp, cfq, txq, loop, mbs, out, refused>>

\* A host that was asked answers, and may answer twice or to another host.
Answer(c, ip, mac) ==
  LET Rep(tpa, tha) ==
        [t |-> "ARP_RX_REP", spa |-> ip, sha |-> mac, tpa |-> tpa, tha |-> tha]
  IN /\ ip \in net.asked
     /\ \/ /\ net' = [net EXCEPT !.asked = @ \ {ip}]
           /\ process_rx_arp(c, Rep("us", "us"))
        \/ /\ net.faults > 0
           /\ net' = [net EXCEPT !.faults = @ - 1]
           /\ \E d \in {<<"us", "broadcast">>, <<"us", "other">>, <<"other", "us">>} :
                process_rx_arp(c, Rep(d[1], d[2]))

\* Another host asks for our address, or for that of a third one.
Request(c, ip, mac) ==
  /\ net.reqs > 0
  /\ net' = [net EXCEPT !.reqs = @ - 1]
  /\ \E tpa \in {"us", "other"} :
       process_rx_arp(c, [t |-> "ARP_RX_REQ", spa |-> ip, sha |-> mac, tpa |-> tpa])

-----------------------------------------------------------------------------
Hosts == {load.outer[d] : d \in DOMAIN load.outer} \ {ARP_IP_EMPTY}

Init ==
  /\ load \in Loads
  /\ fast = [c \in Cores |-> arp_table_init]
  /\ cp = [table |-> arp_table_init, te |-> [b \in Buckets |-> NULL], tm |-> tomgr_init,
           data |-> [e \in Slots |-> NULL], buf |-> arp_buf_init, up |-> TRUE]
  /\ fcq = [c \in Cores |-> <<>>] /\ cfq = [c \in Cores |-> <<>>] /\ txq = <<>>
  /\ loop = [pc |-> "fast", i |-> 0, polled |-> 0, core |-> 0]
  /\ net = [asked |-> {}, reqs |-> load.reqs, faults |-> load.faults,
            expiries |-> load.expiries]
  /\ mbs = [m \in 1 .. load.mbufs |-> 0] /\ out = [m \in 1 .. load.mbufs |-> 0]
  /\ refused = {}

CoreStep(c) ==
  \/ \E mb \in Mbufs, dst \in DOMAIN load.outer : Send(c, mb, dst)
  \/ controlif_poll(c)

Next ==
  \/ control_loop
  \/ \E c \in Cores : CoreStep(c)
  \/ \E c \in Cores, ip \in Hosts, mac \in load.macs : Answer(c, ip, mac) \/ Request(c, ip, mac)

Spec == Init /\ [][Next]_vars

\* The control loop and the cores go on; a host that is asked answers; a timer
\* that is pending whenever the loop looks at the clock expires at last.
Addresses == UNION {{l.outer[d] : d \in DOMAIN l.outer} : l \in Loads}
Fairness ==
  /\ <>[](cp.up) => []<><<TRUE>>_loop
  /\ \A c \in Cores : <>[](cfq[c] # <<>>) => []<><<controlif_poll(c)>>_vars
  /\ \A ip \in Addresses : <>[](ip \in net.asked) => []<><<ip \notin net'.asked>>_net
  /\ []<>(load.slack /\ loop.pc = "timeouts" /\ cp.tm.heap # <<>> /\ txq = <<>>)
       => []<><<Expire>>_vars

FairSpec == Spec /\ Fairness

-----------------------------------------------------------------------------
\* What a core believes of an address is what the control plane believes: no
\* order of answers, requests of the same host from another card, timeouts and
\* updates leaves two copies of the table with different addresses.
CopiesAgree ==
  \A c \in Cores, ip \in Hosts :
    Resolved(fast[c], ip) =>
      Resolved(cp.table, ip) /\ MacOf(fast[c], ip) = MacOf(cp.table, ip)

\* A packet the control plane gives back to a core finds its address resolved
\* there, or behind the update that resolves it: it does not go round again.
\* (Once an update has found a queue full, a packet may go round for ever.)
UpdateFirst ==
  "update" \notin refused =>
    \A c \in Cores : \A k \in DOMAIN cfq[c] :
      cfq[c][k].t = "MBUF_TX" =>
        LET ip == load.outer[mbs[cfq[c][k].mb]]
        IN \/ Resolved(fast[c], ip)
           \/ \E j \in 1 .. k - 1 : cfq[c][j].t = "ARP_UPDATE" /\ cfq[c][j].ip = ip

\* As long as no request was refused, an address that waits for an answer has a
\* timer that will ask again, although timers are also left over from other
\* requests and cancellations may miss them.  And the timers suffice: entries of
\* the timeout manager that are in use, be it by a timer that nobody cancelled
\* or because tomgr_cancel lost them, never outnumber the addresses, so that
\* with an entry more than those tomgr_insert does not fail.
PendingTimed ==
  /\ refused \cap {"request", "timer"} = {} =>
       \A b \in Buckets : cp.table[b].pending =>
         \E k \in DOMAIN cp.tm.heap : cp.data[cp.tm.heap[k].idx] = b
  /\ cp.up => Cardinality(Slots \ FreeEntries(cp.tm)) <= Cardinality(Hosts)

Waiting(m) == mbs[m] # 0 /\ out[m] = 0

\* With room in the queues, every packet that was handed over leaves in the end,
\* with requests and answers lost or repeated and timers expiring in between.
PacketsLeave == load.slack => <>[](\A m \in Mbufs : ~Waiting(m))
=============================================================================
