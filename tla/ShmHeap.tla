------------------------------ MODULE ShmHeap ------------------------------
(***************************************************************************)
(* The allocator of shared memory (shmalloc).  A region of memory is cut   *)
(* into blocks; the free ones are on a list, the others are handles that   *)
(* callers hold.  The operators take and return the free list, a sequence  *)
(* of blocks in the order of the next pointers.  Offsets and lengths are   *)
(* in bytes.  Running out of memory for the handles themselves is left     *)
(* out.                                                                    *)
(***************************************************************************)
EXTENDS Integers, Sequences

CONSTANTS
  SHMALLOC_ALIGN,     \* blocks start and end at multiples of it
  shm_len             \* size of a region

ASSUME AlignAssumption == SHMALLOC_ALIGN \in Nat \ {0}
ASSUME ShmLenAssumption == shm_len \in Nat \ {0}

Block == [off : Nat, len : Nat]

End(b) == b.off + b.len

ALIGN_UP(x) ==
  ((x + SHMALLOC_ALIGN - 1) \div SHMALLOC_ALIGN) * SHMALLOC_ALIGN

shmalloc_init == <<[off |-> 0, len |-> shm_len]>>

-----------------------------------------------------------------------------
(* shmalloc_alloc *)

prefix_len(b) == ALIGN_UP(b.off) - b.off

Fits(b, length) == prefix_len(b) + length <= b.len

CanAlloc(free, length) ==
  \E k \in 1 .. Len(free) : Fits(free[k], ALIGN_UP(length))

\* The first block of the list that fits.
FirstFit(free, length) ==
  CHOOSE k \in 1 .. Len(free) :
    /\ Fits(free[k], length)
    /\ \A i \in 1 .. k - 1 : ~Fits(free[i], length)

Unlinked(free, k) ==
  SubSeq(free, 1, k - 1) \o SubSeq(free, k + 1, Len(free))

\* Block b behind element k; in front of all of them if k = 0.
LinkedBehind(free, k, b) ==
  SubSeq(free, 1, k) \o <<b>> \o SubSeq(free, k + 1, Len(free))

\* The handle that is cut out of element k.
Taken(free, k, length) == [off |-> ALIGN_UP(free[k].off), len |-> length]

\* Mutant of Left: the block that stays does not move behind the handle.
Bug_left_stays(free, k, length) ==
  IF free[k].len = length THEN Unlinked(free, k)
  ELSE [free EXCEPT ![k].len = @ - length]

\* The list without it: an exact fit is unlinked, else the block stays as
\* what is left behind it, in front of it, or on both sides.
Left(free, k, length) ==
  LET b == free[k]
      prefix == prefix_len(b)
      suffix == b.len - prefix - length
      front == [free EXCEPT ![k] = [off |-> b.off, len |-> prefix]]
      behind == [off |-> ALIGN_UP(b.off) + length, len |-> suffix]
  IN  IF prefix = 0 /\ suffix = 0 THEN Unlinked(free, k)
      ELSE IF prefix = 0 THEN [free EXCEPT ![k] = behind]
      ELSE IF suffix > 0 THEN LinkedBehind(front, k, behind)
      ELSE front

\* shmalloc_alloc if CanAlloc: the handle and the list.
shmalloc_alloc(free, length) ==
  LET aligned == ALIGN_UP(length)
      k == FirstFit(free, aligned)
  IN  [block |-> Taken(free, k, aligned), free |-> Left(free, k, aligned)]

-----------------------------------------------------------------------------
(* shmalloc_free *)

\* The element behind which a freed block is linked.  The loop stops with sh
\* at the last element in front of the block, and sh_prev at the one before.
sh_prev(free, b) ==
  CHOOSE k \in 0 .. Len(free) :
    /\ k = 0 \/ k + 1 <= Len(free)
    /\ \A i \in 2 .. k + 1 : free[i].off < b.off
    /\ k + 2 <= Len(free) => ~(free[k + 2].off < b.off)

\* Element k takes up element k + 1 if it ends where that one starts.
Joins(free, k) ==
  /\ k >= 1 /\ k + 1 <= Len(free)
  /\ End(free[k]) = free[k + 1].off

Joined(free, k) ==
  Unlinked([free EXCEPT ![k] = [off |-> @.off,
                                len |-> @.len + free[k + 1].len]], k + 1)

MergedAt(free, k) == IF Joins(free, k) THEN Joined(free, k) ELSE free

\* merge_items: around the item behind element k, first with element k, then
\* with its successor.
merge_items(free, k) ==
  MergedAt(MergedAt(free, k), IF Joins(free, k) THEN k ELSE k + 1)

shmalloc_free(free, b) ==
  LET k == sh_prev(free, b)
  IN  merge_items(LinkedBehind(free, k, b), k)

-----------------------------------------------------------------------------
(* What the allocator promises *)

Apart(a, b) == End(a) <= b.off \/ End(b) <= a.off

\* No two blocks share a byte, neither free ones nor handles.
BlocksApart(free, used) ==
  /\ \A i, j \in 1 .. Len(free) : i # j => Apart(free[i], free[j])
  /\ \A i \in 1 .. Len(free), u \in used : Apart(free[i], u)
  /\ \A u, v \in used : u # v => Apart(u, v)

Holds(b, x) == b.off <= x /\ x < End(b)

\* No byte of the region is lost: each is in a free block or in a handle.
NothingLost(free, used) ==
  \A x \in 0 .. shm_len - 1 :
    \/ \E i \in 1 .. Len(free) : Holds(free[i], x)
    \/ \E u \in used : Holds(u, x)

=============================================================================
