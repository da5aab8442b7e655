------------------------------ MODULE SpscQueue ------------------------------
(***************************************************************************)
(* The shared-memory ring of lib/utils/queue.  Slot k is entry k; its      *)
(* first byte is the entry's type, QUEUE_EMPTY when the slot is free.  The *)
(* producer owns tail, the consumer owns head, and the type byte is the    *)
(* only thing the two synchronise on.  Offsets in bytes (multiples of      *)
(* elsize) are slot numbers here.                                          *)
(*                                                                         *)
(* Every access to shared memory is a step of its own: the producer checks *)
(* the slot (queue_tail), fills the body, and calls queue_enqueue, which   *)
(* advances tail and then, after MEM_BARRIER, writes the type; the         *)
(* consumer checks (queue_head), reads, and calls queue_dequeue, which     *)
(* advances head and then clears the type.                                 *)
(***************************************************************************)
EXTENDS Integers, Sequences

CONSTANTS
  N,          \* nelems
  Msg,        \* bodies of entries
  NoMsg       \* not a body

ASSUME QueueAssumption ==
  /\ N \in Nat \ {0}
  /\ NoMsg \notin Msg

VARIABLES
  type,       \* the type byte of every slot
  body,       \* the rest of every slot (kept after a release)
  tail,       \* equeue.tail
  ppc,        \* where the producer is
  pslot,      \* tail_type: the slot queue_enqueue is publishing
  head,       \* dqueue.head
  cpc,        \* where the consumer is
  cslot,      \* type: the slot queue_dequeue is releasing
  seen        \* the body the consumer read from the head entry

prodVars == <<tail, ppc, pslot>>
consVars == <<head, cpc, cslot, seen>>
vars == <<type, body, tail, ppc, pslot, head, cpc, cslot, seen>>

Slots == 0 .. N - 1

QUEUE_EMPTY == "empty"
Used == "used"          \* any type other than QUEUE_EMPTY

\* The slot after k.
Wrap(k) == IF k + 1 >= N THEN 0 ELSE k + 1

-----------------------------------------------------------------------------

\* equeue_init, dqueue_init on zeroed memory.
Init ==
  /\ type = [k \in Slots |-> QUEUE_EMPTY]
  /\ body \in [Slots -> {NoMsg}]
  /\ tail = 0 /\ ppc = "idle" /\ pslot = 0
  /\ head = 0 /\ cpc = "idle" /\ cslot = 0
  /\ seen = NoMsg

-----------------------------------------------------------------------------
(* The producer *)

\* Mutant of queue_tail: the slot is not looked at.
Bug_tail_no_check ==
  /\ ppc = "idle"
  /\ ppc' = "fill"
  /\ UNCHANGED <<type, body, tail, pslot, consVars>>

\* A free slot is at the tail (otherwise NULL, and the caller tries later).
queue_tail ==
  /\ ppc = "idle"
  /\ type[tail] = QUEUE_EMPTY
  /\ ppc' = "fill"
  /\ UNCHANGED <<type, body, tail, pslot, consVars>>

\* The caller writes the fields of the entry.
Fill ==
  /\ ppc = "fill"
  /\ \E m \in Msg : body' = [body EXCEPT ![tail] = m]
  /\ ppc' = "enqueue"
  /\ UNCHANGED <<type, tail, pslot, consVars>>

\* The caller gives up after filling the entry, for instance because a second
\* queue it needs is full; the slot stays free and is filled again later.
GiveUp ==
  /\ ppc = "enqueue"
  /\ ppc' = "idle"
  /\ UNCHANGED <<type, body, tail, pslot, consVars>>

\* Mutant of queue_enqueue: the slot behind is published.
Bug_publish_next ==
  /\ ppc = "enqueue"
  /\ type[tail] = QUEUE_EMPTY
  /\ pslot' = Wrap(tail)
  /\ tail' = Wrap(tail)
  /\ ppc' = "publish"
  /\ UNCHANGED <<type, body, consVars>>

\* queue_enqueue up to the barrier: check again, then advance tail.
queue_enqueue ==
  /\ ppc = "enqueue"
  /\ type[tail] = QUEUE_EMPTY
  /\ pslot' = tail
  /\ tail' = Wrap(tail)
  /\ ppc' = "publish"
  /\ UNCHANGED <<type, body, consVars>>

\* queue_enqueue after the barrier.
EnqueuePublish ==
  /\ ppc = "publish"
  /\ type' = [type EXCEPT ![pslot] = Used]
  /\ ppc' = "idle"
  /\ UNCHANGED <<body, tail, pslot, consVars>>

-----------------------------------------------------------------------------
(* The consumer *)

\* An entry is at the head (otherwise NULL).
queue_head ==
  /\ cpc = "idle"
  /\ type[head] # QUEUE_EMPTY
  /\ cpc' = "read"
  /\ UNCHANGED <<type, body, head, cslot, seen, prodVars>>

\* The caller reads the entry through the pointer queue_head returned.
Read ==
  /\ cpc = "read"
  /\ seen' = body[head]
  /\ cpc' = "dequeue"
  /\ UNCHANGED <<type, body, head, cslot, prodVars>>

\* The handler of the entry failed and the poll loop returned before
\* queue_dequeue: the same entry is looked at again on the next poll.
HandlerFails ==
  /\ cpc = "dequeue"
  /\ cpc' = "idle"
  /\ seen' = NoMsg
  /\ UNCHANGED <<type, body, head, cslot, prodVars>>

\* queue_dequeue up to the barrier.
queue_dequeue ==
  /\ cpc = "dequeue"
  /\ type[head] # QUEUE_EMPTY
  /\ cslot' = head
  /\ head' = Wrap(head)
  /\ cpc' = "release"
  /\ UNCHANGED <<type, body, seen, prodVars>>

\* Mutant of DequeueRelease: the slot is not given back.
Bug_no_release ==
  /\ cpc = "release"
  /\ cpc' = "idle"
  /\ seen' = NoMsg
  /\ UNCHANGED <<type, body, head, cslot, prodVars>>

\* queue_dequeue after the barrier: the slot is the producer's again.
DequeueRelease ==
  /\ cpc = "release"
  /\ type' = [type EXCEPT ![cslot] = QUEUE_EMPTY]
  /\ cpc' = "idle"
  /\ seen' = NoMsg
  /\ UNCHANGED <<body, head, cslot, prodVars>>

-----------------------------------------------------------------------------

Producer == queue_tail \/ Fill \/ GiveUp \/ queue_enqueue \/ EnqueuePublish
Consumer == queue_head \/ Read \/ HandlerFails \/ queue_dequeue \/ DequeueRelease

Next == Producer \/ Consumer

Spec == Init /\ [][Next]_vars

\* The consumer is a polling loop; a producer that started an enqueue is
\* straight-line code.  Nothing makes a producer start one.
FairSpec ==
  /\ Spec
  /\ WF_vars(Consumer)
  /\ WF_vars(EnqueuePublish)

-----------------------------------------------------------------------------
(* Properties *)

TypeOK ==
  /\ type \in [Slots -> {QUEUE_EMPTY, Used}]
  /\ body \in [Slots -> Msg \cup {NoMsg}]
  /\ tail \in Slots /\ pslot \in Slots
  /\ head \in Slots /\ cslot \in Slots
  /\ ppc \in {"idle", "fill", "enqueue", "publish"}
  /\ cpc \in {"idle", "read", "dequeue", "release"}
  /\ seen \in Msg \cup {NoMsg}

\* The slots the two sides have reached: where the next entry is published,
\* and where the next entry is released.
PubSlot == IF ppc = "publish" THEN pslot ELSE tail
RelSlot == IF cpc = "release" THEN cslot ELSE head

\* The number of entries between the two.
Count ==
  IF PubSlot > RelSlot THEN PubSlot - RelSlot
  ELSE IF PubSlot < RelSlot THEN PubSlot - RelSlot + N
  ELSE IF type[PubSlot] = QUEUE_EMPTY THEN 0 ELSE N

\* The i-th slot (from 1) counted from the oldest entry.
SlotAt(i) ==
  IF RelSlot + i - 1 < N THEN RelSlot + i - 1 ELSE RelSlot + i - 1 - N

\* The entries, oldest first, and the entry the consumer holds.
Contents == [i \in 1 .. Count |-> body[SlotAt(i)]]

F == INSTANCE Fifo WITH
       q <- Contents,
       seen <- seen,
       Capacity <- N

\* The ring behaves as a bounded FIFO: nothing is lost, duplicated,
\* reordered or overwritten while the consumer reads it, and all N slots
\* are usable, however the steps of the two sides interleave.
ImplementsFifo == F!Spec

\* Callers ignore the results of queue_enqueue and queue_dequeue: after a
\* queue_tail (queue_head) that returned an entry, the second check of the
\* type byte finds what the first one found, whatever the other side did in
\* between.
SecondCheckHolds ==
  /\ ppc \in {"fill", "enqueue"} => type[tail] = QUEUE_EMPTY
  /\ cpc \in {"read", "dequeue"} => type[head] = Used

\* The producer never writes the body of a slot the consumer still reads.
NoOverlap ==
  (ppc \in {"fill", "enqueue"} /\ cpc \in {"read", "dequeue"}) => tail # head

\* queue_tail returns NULL only when every one of the N slots is taken, so
\* a producer that sees "full" can rely on the consumer having N entries.
FullMeansFull ==
  (ppc = "idle" /\ type[tail] # QUEUE_EMPTY) =>
    \A k \in Slots : type[k] # QUEUE_EMPTY

\* Every published entry is handled and its slot becomes free again, unless
\* handlers keep failing for ever.
EntriesReleased ==
  \/ \A k \in Slots : type[k] = Used ~> type[k] = QUEUE_EMPTY
  \/ []<><<HandlerFails>>_vars

-----------------------------------------------------------------------------
(* The inductive invariant: the used slots are exactly the circular        *)
(* interval from RelSlot to PubSlot.                                       *)

Between(k) ==
  \/ RelSlot < PubSlot /\ RelSlot <= k /\ k < PubSlot
  \/ PubSlot < RelSlot /\ (RelSlot <= k \/ k < PubSlot)

UsedInterval ==
  /\ PubSlot # RelSlot =>
       \A k \in Slots : type[k] = Used <=> Between(k)
  /\ PubSlot = RelSlot =>
       \A k \in Slots : type[k] = type[PubSlot]

Cursors ==
  /\ ppc = "publish" => tail = Wrap(pslot) /\ type[pslot] = QUEUE_EMPTY
  /\ cpc = "release" => head = Wrap(cslot) /\ type[cslot] = Used

Bodies ==
  /\ \A k \in Slots : type[k] = Used => body[k] \in Msg
  /\ ppc = "enqueue" => body[tail] \in Msg
  /\ ppc = "publish" => body[pslot] \in Msg
  /\ cpc \in {"idle", "read"} => seen = NoMsg
  /\ cpc \in {"dequeue", "release"} => seen = body[RelSlot]

IInv ==
  /\ TypeOK
  /\ UsedInterval
  /\ Cursors
  /\ SecondCheckHolds
  /\ Bodies
=============================================================================
