------------------------------ MODULE Shmalloc ------------------------------
(***************************************************************************)
(* The allocator of one region of shared memory, and callers that ask for  *)
(* blocks of any length and give back blocks they hold, in any order.      *)
(* Callers hold the handles they were given and free each at most once;    *)
(* they ask for at least one byte.                                         *)
(***************************************************************************)
EXTENDS ShmHeap

VARIABLES
  free,       \* alloc->freelist
  used        \* the handles that callers hold

vars == <<free, used>>

Init ==
  /\ free = shmalloc_init
  /\ used = {}

Alloc(length) ==
  /\ CanAlloc(free, length)
  /\ LET a == shmalloc_alloc(free, length)
     IN  /\ free' = a.free
         /\ used' = used \cup {a.block}

Free(b) ==
  /\ free' = shmalloc_free(free, b)
  /\ used' = used \ {b}

Next ==
  \/ \E length \in 1 .. shm_len : Alloc(length)
  \/ \E b \in used : Free(b)

Spec == Init /\ [][Next]_vars

-----------------------------------------------------------------------------

\* The blocks are not empty, lie in the region, share no byte, and no byte of
\* the region is lost.
Sound(f, us) ==
  /\ f \in Seq(Block) /\ us \subseteq Block
  /\ \A i \in 1 .. Len(f) : f[i].len > 0 /\ End(f[i]) <= shm_len
  /\ \A u \in us : u.len > 0 /\ End(u) <= shm_len
  /\ BlocksApart(f, us)
  /\ NothingLost(f, us)

\* The inductive invariant of the allocator.
IInv == Sound(free, used)

=============================================================================
