-------------------------------- MODULE Mbufs --------------------------------
(***************************************************************************)
(* The packet buffers of a fast-path core.  A buffer is in the pool, in    *)
(* the core's cache (a ring of TX_CACHE_SIZE slots, txcache.c), in the     *)
(* transmit batch tx_mbs, with the network card, or with the control plane *)
(* until the address its packet needs is known.  The core takes several    *)
(* buffers out of the cache at once, as a run of slots, uses the first few *)
(* and moves the ring's head back over the others; what a slot holds that  *)
(* is not in use is left there.                                            *)
(*                                                                         *)
(* Each poll of the loop is an action: one thread runs them in turn.  What *)
(* handlers and infra_tx return, how many packets the card takes, and what *)
(* the control plane does are choices.  There are two loops: the default   *)
(* one flushes the batch after every poll; the combined one, whose polls   *)
(* are compiled together with the programs of the guests, starts when they *)
(* are there and flushes after packets were received and at its end.       *)
(***************************************************************************)
EXTENDS Integers, Sequences, FiniteSets, Functions

CONSTANTS
  NBufs,          \* PERTHREAD_MBUFS
  NScarce,        \* so few that the pool runs empty
  TX_CACHE_SIZE,  \* slots of the cache
  TXBUF_SIZE,     \* length of tx_mbs
  RX_BATCH,       \* FAST_RX_BATCH_SIZE
  DEQ_BATCH,      \* FAST_DEQ_BATCH_SIZE, FAST_SCHED_BATCH_SIZE
  NicSize,        \* bound: packets the card holds
  MaxAway,        \* bound: buffers with the control plane
  MaxLost         \* bound: buffers that were lost

VARIABLES
  scarce,     \* there are only NScarce buffers
  comb,       \* fp_jit_combined
  phase,      \* the poll that is next
  cache,      \* tx_cache_mbs
  head,       \* tx_cache_head
  n,          \* tx_cache_n
  pool,       \* free buffers
  tx,         \* tx_mbs, tx_n of them
  nic,        \* buffers the card has not sent yet
  away,       \* buffers of packets that wait for an address
  back,       \* buffers in QUEUE_MBUF_TX messages
  lost        \* buffers nobody has any more (only to state properties)

vars == <<scarce, comb, phase, cache, head, n, pool, tx, nic, away, back, lost>>

\* In the other case the buffers are enough for all who hold some at a time.
ASSUME MbufsAssumption ==
  /\ TX_CACHE_SIZE \in Nat \ {0} /\ TXBUF_SIZE \in Nat \ {0}
  /\ {NBufs, NScarce, RX_BATCH, DEQ_BATCH, NicSize, MaxAway, MaxLost} \subseteq Nat
  /\ NScarce >= TX_CACHE_SIZE
  /\ NBufs >= TX_CACHE_SIZE + TXBUF_SIZE + NicSize + MaxAway + MaxLost - 1

\* Buffers are numbers.
Bufs == 1 .. (IF scarce THEN NScarce ELSE NBufs)

Slots == 0 .. TX_CACHE_SIZE - 1
Mask(k) == k % TX_CACHE_SIZE

\* k different buffers out of s: which ones is the pool's choice.
Some(s, k) == CHOOSE q \in Injection(1 .. k, s) : TRUE

Lower(a, b) == IF a < b THEN a ELSE b

\* fast_context_init: the cache is filled.
Init ==
  /\ scarce \in BOOLEAN
  /\ comb \in BOOLEAN
  /\ phase = IF comb THEN "wait" ELSE "rx"
  /\ LET first == Some(Bufs, TX_CACHE_SIZE)
     IN  /\ cache = [k \in Slots |-> first[k + 1]]
         /\ pool = Bufs \ Range(first)
  /\ head = 0
  /\ n = TX_CACHE_SIZE
  /\ tx = << >>
  /\ nic = {} /\ away = {} /\ back = {} /\ lost = {}

-----------------------------------------------------------------------------
(* The cache *)

\* How many buffers txcache_alloc adds when it wants the cache full: all, in
\* one piece or in two around the end of the array, or the first piece, or
\* none; the pool gives a piece as a whole or not at all.
Growth ==
  LET grow == TX_CACHE_SIZE - n
      tail == Mask(head + n)
      piece == Lower(grow, TX_CACHE_SIZE - tail)
  IN  IF Cardinality(pool) >= grow THEN grow
      ELSE IF Cardinality(pool) >= piece THEN piece
      ELSE 0

\* The state of the cache after txcache_alloc of num buffers, and the buffers:
\* those from head to the end of the array at most.
Alloc(num) ==
  LET added == IF n < num THEN Growth ELSE 0
      new == Some(pool, added)
      filled == [k \in Slots |->
                   LET i == Mask(k - head - n)
                   IN  IF i < added THEN new[i + 1] ELSE cache[k]]
      have == n + added
      got == Lower(num, IF head + have <= TX_CACHE_SIZE THEN have
                        ELSE TX_CACHE_SIZE - head)
  IN  [ cache |-> filled,
        pool |-> pool \ Range(new),
        head |-> Mask(head + got),
        n |-> have - got,
        mbs |-> [i \in 1 .. got |-> filled[head + i - 1]],
        first |-> filled[head] ]

\* txcache_free of the buffers of s, one after the other: in front of the
\* head while there is room, back to the pool after that.
Freed(s) ==
  LET room == Lower(Len(s), TX_CACHE_SIZE - n)
  IN  [ cache |-> [k \in Slots |->
                     LET i == Mask(head - k - 1) + 1
                     IN  IF i <= room THEN s[i] ELSE cache[k]],
        head |-> Mask(head - room),
        n |-> n + room,
        pool |-> {s[i] : i \in room + 1 .. Len(s)} ]

-----------------------------------------------------------------------------
(* The transmit batch *)

\* Mutant of fast_txflush: the wrong end of the batch is kept.
Bug_flush_keeps_last(batch) ==
  \E ret \in 0 .. Lower(Len(batch), NicSize - Cardinality(nic)) :
    /\ nic' = nic \cup {batch[i] : i \in 1 .. ret}
    /\ tx' = IF ret = 0 THEN batch ELSE SubSeq(batch, 1, Len(batch) - ret)

\* fast_txflush: the card takes the first ret packets, the rest move up.
fast_txflush(batch) ==
  \E ret \in 0 .. Lower(Len(batch), NicSize - Cardinality(nic)) :
    /\ nic' = nic \cup {batch[i] : i \in 1 .. ret}
    /\ tx' = SubSeq(batch, ret + 1, Len(batch))

\* Mutant of Free: what the batch holds already is not counted.
Bug_free_ignores_batch == TXBUF_SIZE

\* Room in the batch.
Free == TXBUF_SIZE - Len(tx)

\* Of the buffers in s, those whose packet had outcome what.
Outcome(s, out, what) ==
  LET f[i \in 0 .. Len(s)] ==
        IF i = 0 THEN << >>
        ELSE IF out[s[i]] = what THEN Append(f[i - 1], s[i])
        ELSE f[i - 1]
  IN  f[Len(s)]

-----------------------------------------------------------------------------
(* The polls *)

\* Nothing was received, or no buffer allocated: the poll returns at once.
Nothing == UNCHANGED <<cache, head, n, pool, tx, nic, away, back, lost>>

\* Every received packet is answered in the same buffer, or its buffer waits
\* for an address, or it is used again.
Receive ==
  /\ \E nrx \in 1 .. Lower(Lower(RX_BATCH, Free), Cardinality(pool)) :
       LET mbs == Some(pool, nrx)
       IN  \E out \in [Range(mbs) -> {"tx", "away", "free"}] :
             LET freed == Freed(Outcome(mbs, out, "free"))
             IN  /\ away' = away \cup {b \in Range(mbs) : out[b] = "away"}
                 /\ Cardinality(away' \cup back) <= MaxAway
                 /\ fast_txflush(tx \o Outcome(mbs, out, "tx"))
                 /\ cache' = freed.cache
                 /\ head' = freed.head
                 /\ n' = freed.n
                 /\ pool' = (pool \ Range(mbs)) \cup freed.pool
  /\ UNCHANGED <<back, lost>>

fast_rx_poll ==
  /\ phase = "rx"
  /\ phase' = "queues"
  /\ Nothing \/ Receive

\* The number that txcache_unalloc puts back.
Unused(got, ntx) == got - ntx

\* The packets stay in the batch for a later flush.
Keep(batch) == tx' = batch /\ UNCHANGED nic

\* How a poll of the guests ends: in the default loop with a flush.
Finish(batch, flush) ==
  \/ flush /\ fast_txflush(batch)
  \/ ~flush /\ Keep(batch)

\* Of the buffers mbs the first ntx are used, for packets to send and packets
\* that wait; then the batch is flushed or kept.
UseFirst(mbs, ntx, flush) ==
  LET used == SubSeq(mbs, 1, ntx)
  IN  \E out \in [Range(used) -> {"tx", "away"}] :
        /\ Finish(tx \o Outcome(used, out, "tx"), flush)
        /\ away' = away \cup {b \in Range(used) : out[b] = "away"}
        /\ Cardinality(away' \cup back) <= MaxAway

\* A poll of the guests: with buffers to use it uses some, sends, and puts
\* the others back; without, it returns at once.
PollGuests(at, next, flush) ==
  /\ phase = at
  /\ phase' = next
  /\ LET a == Alloc(Lower(DEQ_BATCH, Free))
         got == Len(a.mbs)
     IN  \E ntx \in 0 .. got :
           /\ IF got = 0 THEN UNCHANGED <<tx, nic, away>>
              ELSE UseFirst(a.mbs, ntx, flush)
           /\ cache' = a.cache
           /\ pool' = a.pool
           /\ head' = Mask(a.head - Unused(got, ntx))
           /\ n' = a.n + Unused(got, ntx)
  /\ UNCHANGED <<back, lost>>

\* A poll of the guests that ends when a handler fails: the batch is not
\* flushed and the buffers that were not used are not put back.
PollFails(at, next) ==
  /\ phase = at
  /\ phase' = next
  /\ LET a == Alloc(Lower(DEQ_BATCH, Free))
         got == Len(a.mbs)
     IN  /\ \E ntx \in 0 .. got - 1 :
              /\ UseFirst(a.mbs, ntx, FALSE)
              /\ lost' = lost \cup {a.mbs[i] : i \in ntx + 1 .. got}
         /\ Cardinality(lost') <= MaxLost
         /\ cache' = a.cache
         /\ pool' = a.pool
         /\ head' = a.head
         /\ n' = a.n
  /\ UNCHANGED back

\* The default loop.
fast_queues_poll == PollGuests("queues", "sched", TRUE)
QueuesPollFails == PollFails("queues", "sched")
fast_sched_poll == PollGuests("sched", "ctl", TRUE)

\* The combined loop: the polls of the guests do not flush, and a handler that
\* fails ends the scheduler poll, too.
fast_rx_poll_comb ==
  /\ phase = "rx"
  /\ phase' = "queues"
  /\ Nothing \/ Receive

fast_queues_poll_comb == PollGuests("queues", "sched", FALSE)
QueuesPollCombFails == PollFails("queues", "sched")
fast_sched_poll_comb == PollGuests("sched", "ctl", FALSE)
SchedPollCombFails == PollFails("sched", "ctl")

\* handle_arp_tx_pkt: the result of txcache_alloc is not looked at; without
\* a buffer it is the slot at the head that is used, whoever has that buffer.
\* Left out where buffers are scarce.
handle_arp_tx_pkt ==
  /\ ~scarce
  /\ phase \in {"wait", "ctl"}
  /\ Free > 0
  /\ LET a == Alloc(1)
     IN  /\ tx' = Append(tx, a.first)
         /\ cache' = a.cache
         /\ pool' = a.pool
         /\ head' = a.head
         /\ n' = a.n
  /\ UNCHANGED <<phase, nic, away, back, lost>>

\* handle_mbuf: the packet is sent, or waits again, or is dropped.
handle_mbuf ==
  /\ phase \in {"wait", "ctl"}
  /\ Free > 0
  /\ \E b \in back :
       /\ back' = back \ {b}
       /\ \/ /\ tx' = Append(tx, b)
             /\ UNCHANGED <<cache, head, n, pool, away>>
          \/ /\ away' = away \cup {b}
             /\ UNCHANGED <<cache, head, n, pool, tx>>
          \/ /\ cache' = Freed(<<b>>).cache
             /\ head' = Freed(<<b>>).head
             /\ n' = Freed(<<b>>).n
             /\ pool' = pool \cup Freed(<<b>>).pool
             /\ UNCHANGED <<tx, away>>
  /\ UNCHANGED <<phase, nic, lost>>

\* agg_fns_ready: one of the messages handled so far brought the programs.
\* The loop goes on without flushing what the others left in the batch.
ProgramsReady ==
  /\ phase = "wait"
  /\ phase' = "rx"
  /\ Nothing

\* The end of controlif_poll and the flush behind it.
ControlEnd ==
  /\ phase = "ctl"
  /\ phase' = "rx"
  /\ fast_txflush(tx)
  /\ UNCHANGED <<cache, head, n, pool, away, back, lost>>

-----------------------------------------------------------------------------
(* The others *)

\* The card has sent a packet and frees its buffer.
NicDone ==
  /\ \E b \in nic :
       /\ nic' = nic \ {b}
       /\ pool' = pool \cup {b}
  /\ UNCHANGED <<phase, cache, head, n, tx, away, back, lost>>

\* The control plane knows the address and returns the buffer.
Resolved ==
  /\ \E b \in away :
       /\ away' = away \ {b}
       /\ back' = back \cup {b}
  /\ UNCHANGED <<phase, cache, head, n, pool, tx, nic, lost>>

\* The control plane has no room to keep the packet and forgets it.
Forgotten ==
  /\ Cardinality(lost) < MaxLost
  /\ \E b \in away :
       /\ away' = away \ {b}
       /\ lost' = lost \cup {b}
  /\ UNCHANGED <<phase, cache, head, n, pool, tx, nic, back>>

loop_fast_default ==
  /\ ~comb
  /\ \/ fast_rx_poll \/ fast_queues_poll \/ QueuesPollFails \/ fast_sched_poll
     \/ handle_arp_tx_pkt \/ handle_mbuf \/ ControlEnd

\* The first messages are handled before the loop proper begins.
loop_fast_comb ==
  /\ comb
  /\ \/ ProgramsReady
     \/ fast_rx_poll_comb \/ fast_queues_poll_comb \/ QueuesPollCombFails
     \/ fast_sched_poll_comb \/ SchedPollCombFails
     \/ handle_arp_tx_pkt \/ handle_mbuf \/ ControlEnd

Next ==
  /\ \/ loop_fast_default \/ loop_fast_comb
     \/ NicDone \/ Resolved \/ Forgotten
  /\ UNCHANGED <<scarce, comb>>

Spec == Init /\ [][Next]_vars

-----------------------------------------------------------------------------
(* Properties *)

\* The slots in use, and what they hold.
InUse == {Mask(head + i) : i \in 0 .. n - 1}
Cached == {cache[k] : k \in InUse}

Owned == Cached \cup pool \cup Range(tx) \cup nic \cup away \cup back \cup lost

\* A buffer has one owner: no packet is written into a buffer that the card
\* still sends, that waits for an address or that is free for another packet,
\* and none is in the batch or in the cache twice.  And no buffer disappears:
\* what is not lost where the code is known to lose it is somewhere.
OneOwner ==
  /\ n + Cardinality(pool) + Len(tx) + Cardinality(nic) + Cardinality(away)
       + Cardinality(back) + Cardinality(lost) = Cardinality(Owned)
  /\ Owned = Bufs

\* The batch fits into tx_mbs, whatever the polls before have left in it.
BatchFits == Len(tx) <= TXBUF_SIZE
=============================================================================
