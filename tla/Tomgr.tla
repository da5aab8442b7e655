-------------------------------- MODULE Tomgr --------------------------------
(***************************************************************************)
(* The timeout manager under any callers: a binary heap of timers over a   *)
(* table of entries, with which the control plane times its ARP requests   *)
(* and the TCP slow path its retransmissions.  A caller keeps the entry    *)
(* tomgr_insert gives it until it cancels it or it is popped.  An entry is *)
(* named by its index; its timeout is the one the heap has for it.         *)
(***************************************************************************)
EXTENDS TomgrHeap

CONSTANTS
  MaxTo,  \* timeouts are 1 .. MaxTo
  MaxInserts

ASSUME TomgrAssumption == MaxTo \in Nat

VARIABLES
  heap,      \* of [idx, to]
  heap_idx,  \* heap_idx[e]: where entry e believes to be in the heap
  held,      \* entries whose caller has neither cancelled them nor seen them pop
  inserts    \* calls of tomgr_insert
vars == <<heap, heap_idx, held, inserts>>

M == [heap |-> heap, pos |-> heap_idx]
Becomes(m) == heap' = m.heap /\ heap_idx' = m.pos

Init ==
  /\ heap = tomgr_init.heap /\ heap_idx = tomgr_init.pos
  /\ held = {} /\ inserts = 0

tomgr_insert(to) ==
  /\ CanInsert(M)
  /\ inserts < MaxInserts /\ inserts' = inserts + 1
  /\ Becomes(Inserted(M, to))
  /\ held' = held \cup {find_free_entry(M)}

tomgr_cancel(e) ==
  /\ e \in held
  /\ Becomes(Cancelled(M, e))
  /\ held' = held \ {e}
  /\ UNCHANGED inserts

\* tomgr_peek and then tomgr_pop, as both callers do: the handler of the
\* popped timer forgets its entry.
tomgr_pop ==
  /\ heap # <<>>
  /\ Becomes(Popped(M))
  /\ held' = held \ {heap[1].idx}
  /\ UNCHANGED inserts

Next ==
  \/ \E to \in 1 .. MaxTo : tomgr_insert(to)
  \/ \E e \in Slots : tomgr_cancel(e)
  \/ tomgr_pop

Spec == Init /\ [][Next]_vars

-----------------------------------------------------------------------------
Pending == {heap[k].idx : k \in DOMAIN heap}
Dom == 0 .. Len(heap) - 1

\* Whatever is inserted, cancelled and popped, no timer is later than one
\* below it, so that the root is the earliest; and the heap holds an entry at
\* most once, and none that find_free_entry may hand out again.
HeapOrdered ==
  /\ \A k \in Dom \ {0} : At(M, Parent(k)).to <= At(M, k).to
  /\ \A j, k \in DOMAIN heap : heap[j].idx = heap[k].idx => j = k
  /\ Pending \cap FreeEntries(M) = {}

\* A cancellation takes out the timer it was called for, or none when it
\* fails; a pop takes out one than which none is earlier; every other timer
\* stays.
RemovesExactly ==
  [][LET before == ToSet(heap)
         after == ToSet(heap')
     IN /\ \A e \in Slots : tomgr_cancel(e) =>
             after \in {before, {t \in before : t.idx # e}}
        /\ tomgr_pop => /\ after = before \ {heap[1]}
                        /\ \A t \in before : heap[1].to <= t.to]_vars

\* A caller that holds a timer can cancel it: afterwards it is not pending.
CancelStops ==
  [][\A e \in Slots : tomgr_cancel(e) => e \notin {t.idx : t \in ToSet(heap')}]_vars
=============================================================================
