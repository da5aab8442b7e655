--------------------------- MODULE SpscQueueProofs ---------------------------
(***************************************************************************)
(* Proofs about the shared-memory ring, for every number of slots and      *)
(* every set of messages.                                                  *)
(***************************************************************************)
EXTENDS SpscQueue, TLAPS

\* The queue starts empty: the interval of used slots is empty.
LEMMA InitIInv == Init => IInv
<1> SUFFICES ASSUME Init PROVE IInv
  OBVIOUS
<1> USE QueueAssumption DEF Init, Slots, QUEUE_EMPTY, Used
<1>1. TypeOK
  BY DEF TypeOK
<1>2. UsedInterval /\ Cursors /\ SecondCheckHolds /\ Bodies
  BY <1>1 DEF UsedInterval, Cursors, SecondCheckHolds, Bodies, TypeOK,
     PubSlot, RelSlot
<1> QED
  BY <1>1, <1>2 DEF IInv

\* Every step of the producer keeps the used slots an interval.
LEMMA ProducerIInv == IInv /\ Producer => IInv'
<1> SUFFICES ASSUME IInv, Producer PROVE IInv'
  OBVIOUS
<1> USE QueueAssumption DEF Slots, QUEUE_EMPTY, Used, prodVars, consVars
<1>a. TypeOK /\ UsedInterval /\ Cursors /\ SecondCheckHolds /\ Bodies
  BY DEF IInv
<1>1. CASE queue_tail
  BY <1>a, <1>1 DEF queue_tail, IInv, TypeOK, UsedInterval, Cursors,
     SecondCheckHolds, Bodies, PubSlot, RelSlot, Between
<1>2. CASE Fill
  <2>1. PICK m \in Msg : body' = [body EXCEPT ![tail] = m]
    BY <1>2, Zenon DEF Fill
  <2>2. TypeOK'
    BY <1>a, <1>2, <2>1 DEF Fill, TypeOK
  <2>3. UsedInterval' /\ Cursors' /\ SecondCheckHolds'
    BY <1>a, <1>2 DEF Fill, TypeOK, UsedInterval, Cursors,
       SecondCheckHolds, PubSlot, RelSlot, Between
  <2>4. Bodies'
    BY <1>a, <1>2, <2>1 DEF Fill, TypeOK, Bodies, RelSlot, SecondCheckHolds,
       Cursors
  <2> QED
    BY <2>2, <2>3, <2>4 DEF IInv
<1>3. CASE GiveUp
  BY <1>a, <1>3 DEF GiveUp, IInv, TypeOK, UsedInterval, Cursors,
     SecondCheckHolds, Bodies, PubSlot, RelSlot, Between
<1>4. CASE queue_enqueue
  <2>1. TypeOK'
    BY <1>a, <1>4 DEF queue_enqueue, TypeOK, Wrap
  <2>2. UsedInterval' /\ Cursors' /\ SecondCheckHolds'
    BY <1>a, <1>4 DEF queue_enqueue, TypeOK, UsedInterval, Cursors,
       SecondCheckHolds, PubSlot, RelSlot, Between
  <2>3. Bodies'
    BY <1>a, <1>4 DEF queue_enqueue, TypeOK, Bodies, RelSlot
  <2> QED
    BY <2>1, <2>2, <2>3 DEF IInv
<1>5. CASE EnqueuePublish
  <2>1. TypeOK'
    BY <1>a, <1>5 DEF EnqueuePublish, TypeOK
  <2>2. UsedInterval'
    BY <1>a, <1>5 DEF EnqueuePublish, TypeOK, UsedInterval, Cursors,
       PubSlot, RelSlot, Between, Wrap
  <2>3. Cursors' /\ SecondCheckHolds'
    BY <1>a, <1>5 DEF EnqueuePublish, TypeOK, Cursors, SecondCheckHolds
  <2>4. Bodies'
    BY <1>a, <1>5 DEF EnqueuePublish, TypeOK, Bodies, RelSlot, Cursors
  <2> QED
    BY <2>1, <2>2, <2>3, <2>4 DEF IInv
<1> QED
  BY <1>1, <1>2, <1>3, <1>4, <1>5 DEF Producer

\* Every step of the consumer keeps the used slots an interval.
LEMMA ConsumerIInv == IInv /\ Consumer => IInv'
<1> SUFFICES ASSUME IInv, Consumer PROVE IInv'
  OBVIOUS
<1> USE QueueAssumption DEF Slots, QUEUE_EMPTY, Used, prodVars, consVars
<1>a. TypeOK /\ UsedInterval /\ Cursors /\ SecondCheckHolds /\ Bodies
  BY DEF IInv
<1>1. CASE queue_head
  BY <1>a, <1>1 DEF queue_head, IInv, TypeOK, UsedInterval, Cursors,
     SecondCheckHolds, Bodies, PubSlot, RelSlot, Between
<1>2. CASE Read
  BY <1>a, <1>2 DEF Read, IInv, TypeOK, UsedInterval, Cursors,
     SecondCheckHolds, Bodies, PubSlot, RelSlot, Between
<1>3. CASE HandlerFails
  BY <1>a, <1>3 DEF HandlerFails, IInv, TypeOK, UsedInterval, Cursors,
     SecondCheckHolds, Bodies, PubSlot, RelSlot, Between
<1>4. CASE queue_dequeue
  <2>1. TypeOK'
    BY <1>a, <1>4 DEF queue_dequeue, TypeOK, Wrap
  <2>2. UsedInterval' /\ Cursors' /\ SecondCheckHolds'
    BY <1>a, <1>4 DEF queue_dequeue, TypeOK, UsedInterval, Cursors,
       SecondCheckHolds, PubSlot, RelSlot, Between
  <2>3. Bodies'
    BY <1>a, <1>4 DEF queue_dequeue, TypeOK, Bodies, RelSlot
  <2> QED
    BY <2>1, <2>2, <2>3 DEF IInv
<1>5. CASE DequeueRelease
  <2>1. TypeOK'
    BY <1>a, <1>5 DEF DequeueRelease, TypeOK
  <2>2. UsedInterval'
    BY <1>a, <1>5 DEF DequeueRelease, TypeOK, UsedInterval, Cursors,
       PubSlot, RelSlot, Between, Wrap
  <2>3. Cursors' /\ SecondCheckHolds'
    BY <1>a, <1>5 DEF DequeueRelease, TypeOK, Cursors, SecondCheckHolds
  <2>4. Bodies'
    BY <1>a, <1>5 DEF DequeueRelease, TypeOK, Bodies, RelSlot, Cursors
  <2> QED
    BY <2>1, <2>2, <2>3, <2>4 DEF IInv
<1> QED
  BY <1>1, <1>2, <1>3, <1>4, <1>5 DEF Consumer

\* The inductive invariant holds in every reachable state of the ring.
THEOREM RingInvariant == Spec => []IInv
<1>1. Init => IInv
  BY InitIInv
<1>2. IInv /\ [Next]_vars => IInv'
  <2> SUFFICES ASSUME IInv, [Next]_vars PROVE IInv'
    OBVIOUS
  <2>1. CASE Next
    BY <2>1, ProducerIInv, ConsumerIInv DEF Next
  <2>2. CASE UNCHANGED vars
    BY <2>2 DEF vars, IInv, TypeOK, UsedInterval, Cursors, SecondCheckHolds,
       Bodies, PubSlot, RelSlot, Between
  <2> QED
    BY <2>1, <2>2
<1> QED
  BY <1>1, <1>2, PTL DEF Spec

-----------------------------------------------------------------------------

\* The results of queue_enqueue and queue_dequeue need not be checked.
THEOREM SecondCheck == Spec => []SecondCheckHolds
<1>1. IInv => SecondCheckHolds
  BY DEF IInv
<1> QED
  BY <1>1, RingInvariant, PTL

\* The producer never writes a slot the consumer reads.
THEOREM Exclusive == Spec => []NoOverlap
<1>1. IInv => NoOverlap
  BY DEF IInv, SecondCheckHolds, NoOverlap, QUEUE_EMPTY, Used
<1> QED
  BY <1>1, RingInvariant, PTL

\* A producer finds the ring full only when all N slots are used.
THEOREM FullCapacity == Spec => []FullMeansFull
<1>1. IInv => FullMeansFull
  BY QueueAssumption DEF IInv, TypeOK, UsedInterval, FullMeansFull, PubSlot,
     RelSlot, Between, Slots, QUEUE_EMPTY, Used
<1> QED
  BY <1>1, RingInvariant, PTL

-----------------------------------------------------------------------------
(* Refinement: the ring implements the bounded FIFO. *)

\* The number of entries is at most N, and the slots they occupy are used.
LEMMA CountAndSlots ==
  ASSUME IInv
  PROVE  /\ Count \in 0 .. N
         /\ \A i \in 1 .. Count : SlotAt(i) \in Slots /\ type[SlotAt(i)] = Used
         /\ PubSlot \in Slots /\ RelSlot \in Slots
         /\ Contents \in Seq(Msg)
         /\ Len(Contents) = Count
<1> USE QueueAssumption DEF Slots, QUEUE_EMPTY, Used
<1>1. PubSlot \in Slots /\ RelSlot \in Slots
  BY DEF IInv, TypeOK, PubSlot, RelSlot
<1>2. Count \in 0 .. N
  BY <1>1 DEF Count
<1>3. ASSUME NEW i \in 1 .. Count
      PROVE  SlotAt(i) \in Slots /\ type[SlotAt(i)] = Used
  <2>1. SlotAt(i) \in Slots
    BY <1>1, <1>2 DEF SlotAt
  <2>2. CASE PubSlot # RelSlot
    <3>1. Between(SlotAt(i))
      BY <1>1, <1>2, <2>2 DEF SlotAt, Between, Count
    <3> QED
      BY <2>1, <2>2, <3>1 DEF IInv, UsedInterval
  <2>3. CASE PubSlot = RelSlot
    BY <1>1, <1>2, <2>1, <2>3 DEF IInv, UsedInterval, Count, TypeOK
  <2> QED
    BY <2>2, <2>3
<1>4. \A i \in 1 .. Count : body[SlotAt(i)] \in Msg
  BY <1>3 DEF IInv, Bodies
<1>5. Contents \in [1 .. Count -> Msg]
  BY <1>4 DEF Contents
<1> QED
  BY <1>1, <1>2, <1>3, <1>5 DEF Contents

\* A step that moves neither end and changes no used slot leaves the
\* contents alone.
LEMMA SameContents ==
  ASSUME IInv,
         PubSlot' = PubSlot, RelSlot' = RelSlot, type' = type,
         \A k \in Slots : type[k] = Used => body'[k] = body[k]
  PROVE  Contents' = Contents
<1>1. Count' = Count
  BY DEF Count
<1>2. ASSUME NEW i \in 1 .. Count
      PROVE  body'[SlotAt(i)'] = body[SlotAt(i)]
  <2>1. SlotAt(i)' = SlotAt(i)
    BY DEF SlotAt
  <2> QED
    BY <2>1, CountAndSlots
<1> QED
  BY <1>1, <1>2 DEF Contents

\* Publishing an entry appends its body to the queue.
LEMMA PublishAppends ==
  ASSUME IInv, EnqueuePublish
  PROVE  /\ Len(Contents) < N
         /\ \E m \in Msg : Contents' = Append(Contents, m)
<1> USE QueueAssumption DEF Slots, QUEUE_EMPTY, Used
<1>0. TypeOK /\ UsedInterval /\ Cursors /\ SecondCheckHolds /\ Bodies
  BY DEF IInv
<1>1. PubSlot = pslot /\ PubSlot' = Wrap(pslot) /\ type[pslot] = QUEUE_EMPTY
  BY <1>0 DEF EnqueuePublish, Cursors, PubSlot, consVars
<1>2. RelSlot' = RelSlot /\ body' = body
  BY DEF EnqueuePublish, RelSlot, consVars
<1>3. Count < N /\ Count \in Nat
  BY <1>0, <1>1, CountAndSlots DEF Count
<1>4. Count' = Count + 1
  <2>0. RelSlot \in Slots /\ pslot \in Slots /\ Wrap(pslot) \in Slots
    BY <1>0, CountAndSlots DEF TypeOK, Wrap
  <2>1. CASE Wrap(pslot) = RelSlot
    <3>1. type'[RelSlot] = Used
      BY <1>0, <1>1, <2>0, <2>1 DEF EnqueuePublish, TypeOK, UsedInterval,
         Between, Wrap
    <3>2. Count' = N
      BY <1>1, <1>2, <2>1, <3>1, <2>0 DEF Count
    <3>3. Count = N - 1
      BY <1>1, <2>1, <2>0 DEF Count, Wrap
    <3> QED
      BY <3>2, <3>3
  <2>2. CASE Wrap(pslot) # RelSlot
    BY <1>1, <1>2, <2>0, <2>2 DEF Count, Wrap
  <2> QED
    BY <2>1, <2>2
<1>5. SlotAt(Count + 1) = pslot
  BY <1>0, <1>1, <1>3, CountAndSlots DEF SlotAt, Count, TypeOK
<1>6. \A i \in 1 .. Count + 1 : SlotAt(i)' = SlotAt(i)
  BY <1>2 DEF SlotAt
<1>7. body[pslot] \in Msg
  BY <1>0 DEF Bodies, EnqueuePublish
<1>8. Contents' = [i \in 1 .. Count + 1 |-> body[SlotAt(i)]]
  BY <1>2, <1>4, <1>6 DEF Contents
<1>9. Append(Contents, body[pslot])
        = [i \in 1 .. Count + 1 |-> body[SlotAt(i)]]
  BY <1>3, <1>5, CountAndSlots DEF Contents
<1> QED
  BY <1>3, <1>7, <1>8, <1>9, CountAndSlots, Zenon

\* Releasing an entry removes the oldest message of the queue.
LEMMA ReleaseDropsHead ==
  ASSUME IInv, DequeueRelease
  PROVE  /\ Contents # <<>>
         /\ seen = Head(Contents)
         /\ Contents' = Tail(Contents)
<1> USE QueueAssumption DEF Slots, QUEUE_EMPTY, Used
<1>0. TypeOK /\ UsedInterval /\ Cursors /\ SecondCheckHolds /\ Bodies
  BY DEF IInv
<1>1. RelSlot = cslot /\ RelSlot' = Wrap(cslot) /\ type[cslot] = Used
  BY <1>0 DEF DequeueRelease, Cursors, RelSlot, prodVars
<1>2. PubSlot' = PubSlot /\ body' = body
  BY DEF DequeueRelease, PubSlot, prodVars
<1>3. Count >= 1 /\ Count \in Nat
  BY <1>0, <1>1, CountAndSlots DEF Count, UsedInterval, Between, TypeOK
<1>4. Count' = Count - 1
  BY <1>0, <1>1, <1>2, CountAndSlots DEF DequeueRelease, Count, Wrap, TypeOK,
     UsedInterval, Between
<1>5. \A i \in 1 .. Count - 1 : SlotAt(i)' = SlotAt(i + 1)
  BY <1>0, <1>1, <1>3, CountAndSlots DEF SlotAt, Wrap, TypeOK
<1>6. Contents' = [i \in 1 .. Count - 1 |-> body[SlotAt(i + 1)]]
  BY <1>2, <1>4, <1>5 DEF Contents
<1>7. Tail(Contents) = [i \in 1 .. Count - 1 |-> body[SlotAt(i + 1)]]
  BY <1>3, CountAndSlots DEF Contents
<1>8. Head(Contents) = body[cslot]
  BY <1>0, <1>1, <1>3, CountAndSlots DEF Contents, SlotAt, TypeOK
<1>9. seen = body[cslot]
  BY <1>0, <1>1 DEF Bodies, DequeueRelease
<1> QED
  BY <1>3, <1>6, <1>7, <1>8, <1>9, CountAndSlots

\* Reading the head entry is looking at the oldest message.
LEMMA ReadPeeks ==
  ASSUME IInv, Read
  PROVE  /\ Contents # <<>>
         /\ seen = NoMsg
         /\ seen' = Head(Contents)
         /\ seen' # NoMsg
<1> USE QueueAssumption DEF Slots, QUEUE_EMPTY, Used
<1>0. TypeOK /\ UsedInterval /\ Cursors /\ SecondCheckHolds /\ Bodies
  BY DEF IInv
<1>1. RelSlot = head /\ type[head] = Used /\ seen = NoMsg
  BY <1>0 DEF Read, RelSlot, SecondCheckHolds, Bodies
<1>2. Count >= 1 /\ Count \in Nat
  BY <1>0, <1>1, CountAndSlots DEF Count, UsedInterval, Between, TypeOK
<1>3. Head(Contents) = body[head]
  BY <1>0, <1>1, <1>2, CountAndSlots DEF Contents, SlotAt, TypeOK
<1>4. body[head] \in Msg
  BY <1>0, <1>1 DEF Bodies, TypeOK
<1> QED
  BY <1>1, <1>2, <1>3, <1>4, CountAndSlots DEF Read

\* The ring of lib/utils/queue implements the bounded FIFO, for every number
\* of slots and every interleaving of one producer and one consumer.
THEOREM RingImplementsFifo == Spec => ImplementsFifo
<1>1. Init => F!Init
  <2> SUFFICES ASSUME Init PROVE F!Init
    OBVIOUS
  <2>1. IInv
    BY InitIInv
  <2>2. Count = 0
    BY QueueAssumption DEF Init, Count, PubSlot, RelSlot, Slots, QUEUE_EMPTY
  <2>3. Contents = <<>>
    BY <2>1, <2>2, CountAndSlots
  <2> QED
    BY <2>3 DEF F!Init, Init
<1>2. IInv /\ [Next]_vars => [F!Next]_(F!vars)
  <2> SUFFICES ASSUME IInv, [Next]_vars PROVE [F!Next]_(F!vars)
    OBVIOUS
  <2> USE DEF prodVars, consVars
  <2>1. CASE queue_tail \/ GiveUp
    <3>1. Contents' = Contents
      BY <2>1, SameContents DEF queue_tail, GiveUp, PubSlot, RelSlot
    <3> QED
      BY <2>1, <3>1 DEF queue_tail, GiveUp, F!vars
  <2>2. CASE Fill
    <3>1. Contents' = Contents
      BY <2>2, SameContents DEF Fill, PubSlot, RelSlot, IInv, TypeOK,
         SecondCheckHolds, QUEUE_EMPTY, Used
    <3> QED
      BY <2>2, <3>1 DEF Fill, F!vars
  <2>3. CASE queue_enqueue
    <3>1. Contents' = Contents
      BY <2>3, SameContents DEF queue_enqueue, PubSlot, RelSlot
    <3> QED
      BY <2>3, <3>1 DEF queue_enqueue, F!vars
  <2>4. CASE EnqueuePublish
    <3>1. seen' = seen
      BY <2>4 DEF EnqueuePublish
    <3> QED
      BY <2>4, <3>1, PublishAppends DEF F!Next, F!Enqueue
  <2>5. CASE queue_head
    <3>1. Contents' = Contents
      BY <2>5, SameContents DEF queue_head, PubSlot, RelSlot
    <3> QED
      BY <2>5, <3>1 DEF queue_head, F!vars
  <2>6. CASE Read
    <3>1. Contents' = Contents
      BY <2>6, SameContents DEF Read, PubSlot, RelSlot
    <3> QED
      BY <2>6, <3>1, ReadPeeks DEF F!Next, F!Peek
  <2>7. CASE HandlerFails
    <3>1. Contents' = Contents
      BY <2>7, SameContents DEF HandlerFails, PubSlot, RelSlot
    <3>2. seen # NoMsg /\ seen' = NoMsg
      BY <2>7, QueueAssumption DEF HandlerFails, IInv, Bodies, RelSlot,
         SecondCheckHolds, TypeOK
    <3> QED
      BY <3>1, <3>2 DEF F!Next, F!PutBack
  <2>8. CASE queue_dequeue
    <3>1. Contents' = Contents
      BY <2>8, SameContents DEF queue_dequeue, PubSlot, RelSlot
    <3> QED
      BY <2>8, <3>1 DEF queue_dequeue, F!vars
  <2>9. CASE DequeueRelease
    <3>1. seen' = NoMsg
      BY <2>9 DEF DequeueRelease
    <3> QED
      BY <2>9, <3>1, ReleaseDropsHead DEF F!Next, F!Dequeue
  <2>10. CASE UNCHANGED vars
    <3>1. Contents' = Contents
      BY <2>10, SameContents DEF vars, PubSlot, RelSlot
    <3> QED
      BY <2>10, <3>1 DEF vars, F!vars
  <2> QED
    BY <2>1, <2>2, <2>3, <2>4, <2>5, <2>6, <2>7, <2>8, <2>9, <2>10
    DEF Next, Producer, Consumer
<1> QED
  BY <1>1, <1>2, RingInvariant, PTL DEF Spec, ImplementsFifo, F!Spec
=============================================================================
