------------------------------ MODULE TomgrHeap ------------------------------
(***************************************************************************)
(* The heap of the timeout manager, as operators on m = [heap, pos]:       *)
(* m.heap[k + 1] is the code's heap[k], a record of the index of an entry  *)
(* and its timeout; size is Len(m.heap), since nothing beyond it is ever   *)
(* read.  m.pos[e] is heap_idx of entry e: where it believes to be in the  *)
(* heap.  a, b and k are heap indices from 0.                              *)
(***************************************************************************)
EXTENDS Integers, SequencesExt

CONSTANT Size   \* TOMGR_SIZE

ASSUME SizeAssumption == Size \in Nat \ {0}

Slots == 0 .. Size - 1
TO_INVALID == Size
Parent(k) == (k - 1) \div 2
Left(k) == 2 * k + 1
Right(k) == 2 * k + 2

tomgr_init == [heap |-> <<>>, pos |-> [e \in Slots |-> TO_INVALID]]

-----------------------------------------------------------------------------
At(m, k) == m.heap[k + 1]
Place(m, e, k) == [m EXCEPT !.pos[e] = k]

swap(m, a, b) ==
  LET s == [m EXCEPT !.heap = [@ EXCEPT ![a + 1] = At(m, b), ![b + 1] = At(m, a)]]
  IN Place(Place(s, At(s, a).idx, a), At(s, b).idx, b)

Smallest(m, k) ==
  LET left == IF Left(k) < Len(m.heap) /\ At(m, Left(k)).to < At(m, k).to
              THEN Left(k) ELSE k
  IN IF Right(k) < Len(m.heap) /\ At(m, Right(k)).to < At(m, left).to
     THEN Right(k) ELSE left

RECURSIVE heapify_down(_, _)
heapify_down(m, k) ==
  LET s == Smallest(m, k)
  IN IF Len(m.heap) = 0 \/ s = k THEN m ELSE heapify_down(swap(m, k, s), s)

RECURSIVE heapify_up(_, _)
heapify_up(m, k) ==
  IF k > 0 /\ At(m, Parent(k)).to > At(m, k).to
  THEN heapify_up(swap(m, k, Parent(k)), Parent(k)) ELSE m

FreeEntries(m) == {e \in Slots : m.pos[e] = TO_INVALID}
find_free_entry(m) == IF FreeEntries(m) = {} THEN -1 ELSE Min(FreeEntries(m))

-----------------------------------------------------------------------------
(* What the calls do to the heap *)

\* tomgr_insert returns NULL without room or without a free entry.
CanInsert(m) == Len(m.heap) < Size /\ find_free_entry(m) >= 0

Inserted(m, to) ==
  LET e == find_free_entry(m)
      n == Len(m.heap)
  IN heapify_up([heap |-> Append(m.heap, [idx |-> e, to |-> to]),
                 pos |-> [m.pos EXCEPT ![e] = n]], n)

\* Mutant of Found: the heap is not asked whether it holds e there.
Bug_found_in_range(m, e) == m.pos[e] < Len(m.heap)

\* The check that the heap holds e where e believes to be.
Found(m, e) == m.pos[e] < Len(m.heap) /\ At(m, m.pos[e]).idx = e

\* The last element moves to place k, and from there to where it belongs.
Refill(m, k, pos) ==
  LET r == [heap |-> Front([m.heap EXCEPT ![k + 1] = Last(m.heap)]), pos |-> pos]
  IN IF k >= Len(r.heap) THEN r
     ELSE IF k > 0 /\ At(r, Parent(k)).to > At(r, k).to THEN heapify_up(r, k)
     ELSE heapify_down(r, k)

\* Mutant of Removed: the heap is only repaired downwards.
Bug_removed_down(m, k) ==
  LET r == [heap |-> Front([m.heap EXCEPT ![k + 1] = Last(m.heap)]),
            pos |-> [m.pos EXCEPT ![At(m, k).idx] = TO_INVALID, ![Last(m.heap).idx] = k]]
  IN IF k < Len(r.heap) THEN heapify_down(r, k) ELSE r

\* If the last element is the one removed, its entry is marked as in use again.
Removed(m, k) ==
  LET free == [m.pos EXCEPT ![At(m, k).idx] = TO_INVALID]
  IN IF Len(m.heap) = 1 THEN [heap |-> <<>>, pos |-> free]
     ELSE Refill(m, k, [free EXCEPT ![Last(m.heap).idx] = k])

Cancelled(m, e) == IF Found(m, e) THEN Removed(m, m.pos[e]) ELSE m

\* The element that goes to the root is not told where it is, unless it moves
\* on from there.
Popped(m) == Refill(m, 0, [m.pos EXCEPT ![At(m, 0).idx] = TO_INVALID])
=============================================================================
