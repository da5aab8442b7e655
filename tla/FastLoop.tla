------------------------------ MODULE FastLoop ------------------------------
(***************************************************************************)
(* The loop of one fast-path core: receive packets, poll the queues of all *)
(* guests, poll their schedulers, handle messages of the control plane,    *)
(* and again.  Guests take turns; the enabled queues of a guest take turns *)
(* on a linked list that the core rotates; a guest without budget is       *)
(* passed over.  The control plane refills budgets and other cores spend   *)
(* theirs at the same time (Budget).                                       *)
(*                                                                         *)
(* There are two such loops: loop_fast_default, here with the hand-written *)
(* protocols, and loop_fast_comb, whose polls are compiled together with   *)
(* the programs that guests upload.                                        *)
(*                                                                         *)
(* Modelled: core 0, one action per iteration of each of the loops.  What  *)
(* the protocols' handlers do is a choice among what they can do to the    *)
(* scheduler and return.  The packet buffers are left out (Mbufs has       *)
(* them); the number of them that a poll gets is the choice of max.        *)
(***************************************************************************)
EXTENDS Budget, Sched

CONSTANTS
  Queues,             \* ids of the queues of a guest
  PROTOQ_ID_INVALID,  \* not an id
  QLen,               \* nelems of a queue
  Prios,              \* priorities that handlers use
  MaxAvail,           \* bound: units available of a flow
  Loads               \* what is exercised; one is chosen at the start:
                      \*   guests: guests that register
                      \*   queues: ids of queues that are used
                      \*   flows: flows that are scheduled
                      \*   rx: packets arrive
                      \*   cores: cores that charge
                      \*   disable: queues that are disabled and enabled again
                      \*   fails: handlers fail, polls find no buffers
                      \*   guest, queue: what liveness is checked of
                      \*   iso: config->perf_iso
                      \*   batch: FAST_RX_, FAST_DEQ_, FAST_SCHED_BATCH_SIZE
                      \*   comb: fp_jit_combined

ASSUME LoopAssumption ==
  /\ IsFiniteSet(Queues)
  /\ PROTOQ_ID_INVALID \notin Queues
  /\ Prios \subseteq Int
  /\ \A l \in Loads : /\ l.queues \subseteq Queues /\ l.flows \subseteq Flows
                      /\ l.cores \subseteq CoreIds /\ l.batch \in Nat

VARIABLES
  load,       \* a member of Loads
  ng,         \* fast_context.n_guests
  list,       \* per guest: dqueues_head, dqueues_tail, ndqueues, links
  qst,        \* per guest and queue: none, new, on, off or again (on once
              \* more), as the messages handled so far say
  qlen,       \* per guest and queue: entries in it
  sched,      \* per guest: its scheduler
  known,      \* guests with a protocol: proto_type is set, or has_event_*
  cut,        \* history: guests that disabled a queue while they had another
  turn,       \* next_queues_guest, next_sched_guest
  pc          \* where the loop is, and the locals of the poll

vars == <<budgetVars, load, ng, list, qst, qlen, sched, known, cut, turn, pc>>
guestVars == <<list, qst, qlen, sched, known, cut>>

Me == 0

NoQueues ==
  [ head |-> PROTOQ_ID_INVALID, tail |-> PROTOQ_ID_INVALID, n |-> 0,
    next |-> [q \in Queues |-> PROTOQ_ID_INVALID],
    prev |-> [q \in Queues |-> PROTOQ_ID_INVALID] ]

\* The loop at the start of one of its polls.
At(where, max) ==
  [at |-> where, i |-> 0, j |-> 0, max |-> max, n |-> 0, n0 |-> 0,
   last |-> -1, failed |-> FALSE]

\* The loop goes on with a poll that gets some buffers; with none it returns
\* at once.
Poll(where) ==
  \E max \in (IF load.fails THEN 0 ELSE 1) .. load.batch : pc' = At(where, max)

Init ==
  /\ load \in Loads
  /\ BudgetInit
  /\ ng = 0
  /\ list = [g \in GuestIds |-> NoQueues]
  /\ qst = [g \in GuestIds |-> [q \in Queues |-> "none"]]
  /\ qlen = [g \in GuestIds |-> [q \in Queues |-> 0]]
  /\ sched = [g \in GuestIds |-> sched_init]
  /\ turn = [queues |-> 0, sched |-> 0]
  /\ known = {}
  /\ cut = {}
  /\ pc = At(IF load.comb THEN "wait" ELSE "rx", 0)

-----------------------------------------------------------------------------
(* Handlers of protocols *)

\* Without performance isolation budgets are neither read nor charged.
HasBudget(g) == load.iso => val[g][Me] > 0

Spend(g) ==
  IF load.iso THEN \E cyc \in 0 .. MaxCyc : Charge(g, Me, cyc)
  ELSE UNCHANGED budgetVars

\* What a handler may leave of scheduler s: as it was, a flow added with one
\* more unit, or a flow removed and added again.
Handled(s) ==
  {s} \cup
  UNION { LET out == IF s.listed[f] THEN sched_remove(s, f) ELSE s
          IN  { sched_add(s, f, p, 1), sched_add(out, f, p, 1) } :
          f \in {f \in load.flows : s.avail[f] < MaxAvail}, p \in Prios }

\* What the handler of a scheduler event leaves: it takes the first flow out
\* and puts it back if it has more to send.
Sent(s) ==
  LET f == s.head
      out == sched_pop(s)
  IN  IF s.avail[f] > 1
      THEN {sched_add(out, f, p, s.avail[f] - 1) : p \in Prios}
      ELSE {out}

-----------------------------------------------------------------------------
(* Receiving *)

\* fast_rx_poll: a packet of the batch, for a guest whose handler is run and
\* charged even if the guest has no budget.  Without a protocol the packet
\* is dropped.
RxPacket ==
  /\ pc.at = "rx"
  /\ load.rx
  /\ pc.n < load.batch
  /\ \E g \in 0 .. ng - 1 :
       IF g \in known
       THEN /\ Spend(g)
            /\ \E s \in Handled(sched[g]) : sched' = [sched EXCEPT ![g] = s]
       ELSE UNCHANGED <<budgetVars, sched>>
  /\ pc' = [pc EXCEPT !.n = @ + 1]
  /\ UNCHANGED <<load, ng, list, qst, qlen, known, cut, turn>>

RxEnd ==
  /\ pc.at = "rx"
  /\ Poll("guest")
  /\ UNCHANGED <<budgetVars, load, ng, guestVars, turn>>

-----------------------------------------------------------------------------
(* Polling the queues of guests *)

\* The guest of iteration i of a poll whose turns start at t.
GuestAt(t, i) == ((IF t >= ng THEN 0 ELSE t) + i) % ng

\* Mutant of AfterLast: the turn does not move on.
Bug_turn_stays(t) == t

\* The loop over guests is over: the next poll starts behind the last guest
\* that was served.
AfterLast(t) == IF pc.last >= 0 THEN (pc.last + 1) % ng ELSE t

QueuesEnd ==
  /\ pc.at = "guest"
  /\ pc.i >= ng \/ pc.n >= pc.max
  /\ turn' = [turn EXCEPT !.queues = AfterLast(@)]
  /\ Poll("sched")
  /\ UNCHANGED <<budgetVars, load, ng, guestVars>>

\* A guest's turn: it is passed over if it is among those.
QueuesTurn(passed) ==
  /\ pc.at = "guest"
  /\ pc.i < ng /\ pc.n < pc.max
  /\ LET g == GuestAt(turn.queues, pc.i)
     IN  IF g \in passed
         THEN pc' = [pc EXCEPT !.i = @ + 1]
         ELSE pc' = [pc EXCEPT !.at = IF list[g].n > 0 THEN "drain" ELSE "left",
                               !.j = 0, !.n0 = pc.n]
  /\ UNCHANGED <<budgetVars, load, ng, guestVars, turn>>

\* queues_poll_guest: the conditions on which a guest is passed over.
QueuesGuest ==
  QueuesTurn({g \in GuestIds : \/ list[g].head = PROTOQ_ID_INVALID
                               \/ ~HasBudget(g)})

\* One entry of the queue at the head of the guest's list is handled, then
\* dequeued.
Dequeue ==
  /\ pc.at = "drain"
  /\ pc.n < pc.max
  /\ LET g == GuestAt(turn.queues, pc.i)
         q == list[g].head
     IN  /\ qlen[g][q] > 0
         /\ qlen' = [qlen EXCEPT ![g][q] = @ - 1]
         /\ \E s \in Handled(sched[g]) : sched' = [sched EXCEPT ![g] = s]
  /\ pc' = [pc EXCEPT !.n = @ + 1]
  /\ UNCHANGED <<budgetVars, load, ng, list, qst, known, cut, turn>>

\* The handler fails: the whole poll is left, with the entry still in its
\* queue, no guest charged and the turns as they were.
DequeueFails ==
  /\ load.fails
  /\ pc.at = "drain"
  /\ pc.n < pc.max
  /\ LET g == GuestAt(turn.queues, pc.i)
     IN  /\ qlen[g][list[g].head] > 0
         /\ \E s \in Handled(sched[g]) : sched' = [sched EXCEPT ![g] = s]
  /\ Poll("sched")
  /\ UNCHANGED <<budgetVars, load, ng, list, qst, qlen, known, cut, turn>>

\* Mutant of Rotated: the next queue is read before the tail is linked.
Bug_rotate_reads_first(l) ==
  LET q == l.head
      linked == [l.next EXCEPT ![l.tail] = q]
  IN  [l EXCEPT !.tail = q,
                !.head = l.next[q],
                !.next = [linked EXCEPT ![q] = PROTOQ_ID_INVALID]]

\* dqueue_rotate_head: the head of the list goes behind its tail.
Rotated(l) ==
  LET q == l.head
      linked == [l.next EXCEPT ![l.tail] = q]
  IN  [l EXCEPT !.tail = q,
                !.head = IF l.n = 1 THEN q ELSE linked[q],
                !.next = [linked EXCEPT ![q] = PROTOQ_ID_INVALID]]

\* Where the loop over the queues of a guest with list l goes on.
NextQueue(l) ==
  IF pc.j + 1 >= l.n \/ pc.n >= pc.max THEN "left"
  ELSE IF l.head = PROTOQ_ID_INVALID THEN "undefined" ELSE "drain"

\* The queue is empty or the batch full: on to the guest's next queue.  A
\* queue that is on again is read from its first entry on: it may look empty.
\* A list without a tail, or with less queues than it counts, has the core
\* use dqueues[PROTOQ_ID_INVALID], which is outside of the array.
RotateQueue ==
  /\ pc.at = "drain"
  /\ LET g == GuestAt(turn.queues, pc.i)
         l == list[g]
     IN  /\ \/ pc.n >= pc.max
            \/ qlen[g][l.head] = 0
            \/ qst[g][l.head] = "again"
         /\ IF l.tail = PROTOQ_ID_INVALID
            THEN /\ pc' = [pc EXCEPT !.at = "undefined"]
                 /\ list' = list
            ELSE /\ pc' = [pc EXCEPT !.j = @ + 1, !.at = NextQueue(Rotated(l))]
                 /\ list' = [list EXCEPT ![g] = Rotated(l)]
  /\ UNCHANGED <<budgetVars, load, ng, qst, qlen, sched, known, cut, turn>>

\* What a core does after it used memory outside of an array is not modelled.
Undefined == pc.at = "undefined" /\ UNCHANGED vars

\* The guest is charged if it had entries.
QueuesLeave ==
  /\ pc.at = "left"
  /\ LET g == GuestAt(turn.queues, pc.i)
     IN  IF pc.n > pc.n0
         THEN /\ Spend(g)
              /\ pc' = [pc EXCEPT !.at = "guest", !.i = @ + 1, !.last = g]
         ELSE /\ pc' = [pc EXCEPT !.at = "guest", !.i = @ + 1]
              /\ UNCHANGED budgetVars
  /\ UNCHANGED <<load, ng, guestVars, turn>>

-----------------------------------------------------------------------------
(* Polling the schedulers of guests *)

SchedEnd ==
  /\ pc.at = "sched"
  /\ pc.i >= ng \/ pc.n >= pc.max
  /\ turn' = [turn EXCEPT !.sched = AfterLast(@)]
  /\ pc' = At("ctl", 0)
  /\ UNCHANGED <<budgetVars, load, ng, guestVars>>

\* A guest's turn: it is passed over if it is among those.
SchedTurn(passed) ==
  /\ pc.at = "sched"
  /\ pc.i < ng /\ pc.n < pc.max
  /\ pc' = IF GuestAt(turn.sched, pc.i) \in passed
           THEN [pc EXCEPT !.i = @ + 1]
           ELSE [pc EXCEPT !.at = "send", !.n0 = pc.n, !.failed = FALSE]
  /\ UNCHANGED <<budgetVars, load, ng, guestVars, turn>>

\* sched_poll_guest up to its loop.
SchedGuest == SchedTurn({g \in GuestIds : g \notin known \/ ~HasBudget(g)})

\* The handler is run for the first flow: its packet is sent or waits for an
\* address, or the address is not known and the buffer is used again, or
\* there was nothing to send, or the handler failed.  The handler of TCP
\* leaves a flow whose time has not come where it is.
SchedEvent ==
  /\ pc.at = "send"
  /\ pc.n < pc.max
  /\ LET g == GuestAt(turn.sched, pc.i)
     IN  /\ sched[g].head # SCHED_ID_INVALID
         /\ \/ /\ \E s \in Sent(sched[g]) : sched' = [sched EXCEPT ![g] = s]
               /\ \/ pc' = [pc EXCEPT !.n = @ + 1]
                  \/ pc' = pc
                  \/ pc' = [pc EXCEPT !.at = "sent"]
                  \/ load.fails /\ pc' = [pc EXCEPT !.at = "sent", !.failed = TRUE]
            \/ sched' = sched /\ pc' = [pc EXCEPT !.at = "sent"]
  /\ UNCHANGED <<budgetVars, load, ng, list, qst, qlen, known, cut, turn>>

\* The scheduler is empty or the batch full.
SchedStop ==
  /\ pc.at = "send"
  /\ \/ pc.n >= pc.max
     \/ sched[GuestAt(turn.sched, pc.i)].head = SCHED_ID_INVALID
  /\ pc' = [pc EXCEPT !.at = "sent"]
  /\ UNCHANGED <<budgetVars, load, ng, guestVars, turn>>

\* The guest is charged for what was sent; next is where the loop goes on.
SchedLeft(next) ==
  /\ pc.at = "sent"
  /\ pc' = next
  /\ IF pc.n > pc.n0
     THEN Spend(GuestAt(turn.sched, pc.i))
     ELSE UNCHANGED budgetVars
  /\ UNCHANGED <<load, ng, guestVars, turn>>

\* On to the next guest; it was not this one's turn if it failed.
NextSched ==
  [pc EXCEPT !.at = "sched", !.i = @ + 1,
             !.last = IF pc.n > pc.n0 /\ ~pc.failed
                      THEN GuestAt(turn.sched, pc.i) ELSE @]

SchedLeave == SchedLeft(NextSched)

-----------------------------------------------------------------------------
(* The polls of the combined loop *)

\* fast_rx_poll_comb, rx_poll_slot.
RxPacketComb == RxPacket
RxEndComb == RxEnd

\* deq_poll_slot: a guest whose program has not come is passed over, too.
QueuesGuestComb ==
  QueuesTurn({g \in GuestIds : \/ g \notin known
                               \/ list[g].head = PROTOQ_ID_INVALID
                               \/ ~HasBudget(g)})

DequeueComb == Dequeue
DequeueFailsComb == DequeueFails
RotateQueueComb == RotateQueue
QueuesLeaveComb == QueuesLeave
QueuesEndComb == QueuesEnd

\* sched_poll_slot: a guest without flows is passed over, too.
SchedGuestComb ==
  SchedTurn({g \in GuestIds : \/ g \notin known
                              \/ sched[g].head = SCHED_ID_INVALID
                              \/ ~HasBudget(g)})

SchedEventComb == SchedEvent
SchedStopComb == SchedStop

\* A handler that fails ends the poll, with the turns as they were.
SchedLeaveComb == SchedLeft(IF pc.failed THEN At("ctl", 0) ELSE NextSched)

SchedEndComb == SchedEnd

-----------------------------------------------------------------------------
(* Messages of the control plane *)

\* handle_new_guest: guests are numbered in the order they register.
NewGuest ==
  /\ ng < nr
  /\ list' = [list EXCEPT ![ng] = NoQueues]
  /\ sched' = [sched EXCEPT ![ng] = sched_init]
  /\ known' = known \ {ng}
  /\ ng' = ng + 1
  /\ UNCHANGED <<qst, qlen, cut>>

\* proto_type comes with every map and queue; only the default loop reads it.
ProtoType(g) == known' = IF load.comb THEN known ELSE known \cup {g}

\* handle_new_map.
NewMap(g) ==
  /\ ProtoType(g)
  /\ UNCHANGED <<ng, list, qst, qlen, sched, cut>>

\* handle_upload_ebpf: the new combined programs have the handlers of g.
UploadEbpf(g) ==
  /\ load.comb
  /\ known' = known \cup {g}
  /\ UNCHANGED <<ng, list, qst, qlen, sched, cut>>

\* handle_new_queue: the links are cleared, the queue is not polled yet.
NewQueue(g, q) ==
  /\ qst[g][q] = "none"
  /\ qst' = [qst EXCEPT ![g][q] = "new"]
  /\ list' = [list EXCEPT ![g].next[q] = PROTOQ_ID_INVALID,
                          ![g].prev[q] = PROTOQ_ID_INVALID]
  /\ ProtoType(g)
  /\ UNCHANGED <<ng, qlen, sched, cut>>

\* The list with q behind its tail.
Appended(l, q) ==
  [l EXCEPT !.head = IF l.tail = PROTOQ_ID_INVALID THEN q ELSE @,
            !.next = IF l.tail = PROTOQ_ID_INVALID THEN [@ EXCEPT ![q] = l.tail]
                     ELSE [@ EXCEPT ![l.tail] = q, ![q] = PROTOQ_ID_INVALID],
            !.prev[q] = l.tail,
            !.tail = q,
            !.n = @ + 1]

\* handle_enableq.  Assumed of guests: the queue is not enabled.
EnableQueue(g, q) ==
  /\ qst[g][q] \in {"new", "off"}
  /\ qst' = [qst EXCEPT ![g][q] = IF @ = "new" THEN "on" ELSE "again"]
  /\ list' = [list EXCEPT ![g] = Appended(@, q)]
  /\ ProtoType(g)
  /\ UNCHANGED <<ng, qlen, sched, cut>>

\* The list without q: its neighbours are cut off, not joined.
Removed(l, q) ==
  LET clear(f, k) == IF k = PROTOQ_ID_INVALID THEN f
                     ELSE [f EXCEPT ![k] = PROTOQ_ID_INVALID]
  IN  [l EXCEPT !.head = IF @ = q THEN l.next[q] ELSE @,
                !.tail = IF @ = q THEN l.prev[q] ELSE @,
                !.next = [clear(@, l.prev[q]) EXCEPT ![q] = PROTOQ_ID_INVALID],
                !.prev = [clear(@, l.next[q]) EXCEPT ![q] = PROTOQ_ID_INVALID],
                !.n = @ - 1]

\* The queues of guest g that are enabled.
On(g) == {q \in Queues : qst[g][q] \in {"on", "again"}}

\* handle_disableq.  Assumed of guests: the queue is enabled.
DisableQueue(g, q) ==
  /\ q \in load.disable
  /\ q \in On(g)
  /\ qst' = [qst EXCEPT ![g][q] = "off"]
  /\ list' = [list EXCEPT ![g] = Removed(@, q)]
  /\ cut' = IF On(g) = {q} THEN cut ELSE cut \cup {g}
  /\ UNCHANGED <<ng, qlen, sched, known>>

\* controlif_poll: a message, if there is one.
controlif_poll ==
  /\ pc.at = "ctl"
  /\ pc' = At("rx", 0)
  /\ \/ UNCHANGED <<ng, guestVars>>
     \/ NewGuest
     \/ \E g \in 0 .. ng - 1 : NewMap(g) \/ UploadEbpf(g)
     \/ \E g \in 0 .. ng - 1, q \in load.queues :
          NewQueue(g, q) \/ EnableQueue(g, q) \/ DisableQueue(g, q)
  /\ UNCHANGED <<budgetVars, load, turn>>

-----------------------------------------------------------------------------
(* The others *)

\* A slow path or a library puts an entry into a queue of its guest.
Produce ==
  /\ \E g \in 0 .. ng - 1, q \in load.queues :
       /\ qst[g][q] \in {"new", "on", "again"}
       /\ qlen[g][q] < QLen
       /\ qlen' = [qlen EXCEPT ![g][q] = @ + 1]
  /\ UNCHANGED <<budgetVars, load, ng, list, qst, sched, known, cut, turn, pc>>

\* The thread of the control plane.
Register ==
  /\ nr < load.guests
  /\ NewGuestBudget
  /\ UNCHANGED <<load, ng, guestVars, turn, pc>>

Refresh ==
  /\ load.iso
  /\ RefreshStart \/ RefreshLoad \/ RefreshAdd
  /\ UNCHANGED <<load, ng, guestVars, turn, pc>>

\* Another core.
OtherCore ==
  /\ \E j \in load.cores \ {Me}, g \in GuestIds, cyc \in 1 .. MaxCyc :
       Charge(g, j, cyc)
  /\ UNCHANGED <<load, ng, guestVars, turn, pc>>

loop_fast_default ==
  /\ ~load.comb
  /\ \/ RxPacket \/ RxEnd
     \/ QueuesEnd \/ QueuesGuest \/ Dequeue \/ DequeueFails \/ RotateQueue
     \/ QueuesLeave
     \/ SchedEnd \/ SchedGuest \/ SchedEvent \/ SchedStop \/ SchedLeave
     \/ controlif_poll

\* agg_fns_ready: the first message has come, with programs without a guest.
ProgramsReady ==
  /\ pc.at = "wait"
  /\ pc' = At("rx", 0)
  /\ UNCHANGED <<budgetVars, load, ng, guestVars, turn>>

loop_fast_comb ==
  /\ load.comb
  /\ \/ ProgramsReady
     \/ RxPacketComb \/ RxEndComb
     \/ QueuesEndComb \/ QueuesGuestComb \/ DequeueComb \/ DequeueFailsComb
     \/ RotateQueueComb \/ QueuesLeaveComb
     \/ SchedEndComb \/ SchedGuestComb \/ SchedEventComb \/ SchedStopComb
     \/ SchedLeaveComb
     \/ controlif_poll

Next ==
  \/ loop_fast_default \/ loop_fast_comb \/ Undefined
  \/ Produce \/ Register \/ Refresh \/ OtherCore

Spec == Init /\ [][Next]_vars

\* The core and the control plane are loops, in which a step is possible
\* everywhere: they take steps for ever (a step of the core is one that changes
\* pc or a scheduler); nothing is said of a core that is "undefined".  The
\* programs for which the combined loop waits are published when the control
\* plane starts.  Time passes, so that refreshes with credits keep coming.
LiveSpec ==
  /\ Spec
  /\ []<><<TRUE>>_<<pc, sched>>
  /\ load.iso /\ <>(nr > 0) => []<><<creds' > 0>>_creds

-----------------------------------------------------------------------------
(* Properties *)

\* List l is the n queues in w, in this order.
IsList(l, w, n) ==
  /\ l.n = n
  /\ l.head = IF n = 0 THEN PROTOQ_ID_INVALID ELSE w[1]
  /\ l.tail = IF n = 0 THEN PROTOQ_ID_INVALID ELSE w[n]
  /\ \A i \in 1 .. n :
       l.next[w[i]] = IF i < n THEN w[i + 1] ELSE PROTOQ_ID_INVALID
  /\ \A i, k \in 1 .. n : i < k => w[i] # w[k]

\* Every enabled queue is on its guest's list once and no other is, at every
\* point between rotations, new queues and messages: a queue that falls off
\* is never polled again.  This holds of a guest until handle_disableq takes
\* one of several queues off its list, which does not join the neighbours; no
\* core uses dqueues[PROTOQ_ID_INVALID] before some guest did that.
ListExact ==
  /\ \A g \in (0 .. ng - 1) \ cut :
       LET n == Cardinality(On(g))
       IN  \E w \in [1 .. n -> On(g)] : IsList(list[g], w, n)
  /\ pc.at = "undefined" => cut # {}

\* Each guest's scheduler holds every flow that was added and not yet taken
\* out exactly once, lowest priority value first, whatever handlers did.
SchedulersInOrder == \A g \in 0 .. ng - 1 : InOrder(sched[g])

\* The budgets v of all cores together.
Total(v) ==
  LET sum[j \in 0 .. NCores] == IF j = 0 THEN 0 ELSE sum[j - 1] + v[j - 1]
  IN  sum[NCores]

\* The budgets of a guest on all cores together stay within perf_iso_cap, the
\* "Maximum budget cap per guest".
CapPerGuest == \A g \in 0 .. nr - 1 : Total(val[g]) <= Cap

\* No queue starves: one that stays enabled and not empty is served again and
\* again, however busy the other queues and guests are.  No guest starves at
\* the schedulers: one with flows to send is asked again and again for a
\* packet.  Both as long as no handler fails, there are buffers, no guest is
\* charged for packets that it did not ask for, and the guest's protocol has
\* come; the queues of a guest that disabled one of several, and a queue that
\* was disabled and enabled again, are excepted.
NoneStarves ==
  LET g == load.guest
      q == load.queue
      calm == ~load.rx /\ ~load.fails /\ g \in known
  IN  /\ <>[](calm /\ g \notin cut /\ qst[g][q] = "on" /\ qlen[g][q] > 0)
           => []<><<qlen'[g][q] < qlen[g][q]>>_qlen
      /\ <>[](calm /\ g < ng /\ sched[g].head # SCHED_ID_INVALID)
           => []<><<pc.at = "send" /\ GuestAt(turn.sched, pc.i) = g>>_<<pc, sched>>
=============================================================================
