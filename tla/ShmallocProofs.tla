--------------------------- MODULE ShmallocProofs ---------------------------
(***************************************************************************)
(* Proofs about the allocator of shared memory, for every size of the      *)
(* region, every alignment and every sequence of allocations and frees.    *)
(***************************************************************************)
EXTENDS Shmalloc, SequenceTheorems, WellFoundedInduction, TLAPS

\* Rounding up does not make a number smaller.
LEMMA AlignUp ==
  ASSUME NEW x \in Nat
  PROVE  ALIGN_UP(x) \in Nat /\ ALIGN_UP(x) >= x
<1> DEFINE a == SHMALLOC_ALIGN
           y == x + SHMALLOC_ALIGN - 1
           q == y \div a
<1>1. a \in Nat /\ a > 0 /\ y \in Nat
  BY AlignAssumption
<1>2. q \in Nat /\ (y % a) \in 0 .. a - 1 /\ y = (a * q) + (y % a)
  BY <1>1
<1>3. a * q \in Nat /\ q * a = a * q
  BY <1>1, <1>2
<1>4. q * a >= x
  BY <1>1, <1>2, <1>3
<1> QED
  BY <1>3, <1>4 DEF ALIGN_UP

\* What is left of a list without its element k.
LEMMA UnlinkedFacts ==
  ASSUME NEW f \in Seq(Block), NEW k \in 1 .. Len(f)
  PROVE  /\ Unlinked(f, k) \in Seq(Block)
         /\ Len(Unlinked(f, k)) = Len(f) - 1
         /\ \A i \in 1 .. Len(f) - 1 :
              Unlinked(f, k)[i] = f[IF i < k THEN i ELSE i + 1]
<1> DEFINE s == SubSeq(f, 1, k - 1)
           t == SubSeq(f, k + 1, Len(f))
<1>1. Len(f) \in Nat /\ \A i \in 1 .. Len(f) : f[i] \in Block
  BY LenProperties, ElementOfSeq
<1>2. /\ s \in Seq(Block) /\ Len(s) = k - 1
      /\ \A i \in 1 .. k - 1 : s[i] = f[i]
  BY <1>1, SubSeqProperties
<1>3. /\ t \in Seq(Block) /\ Len(t) = Len(f) - k
      /\ \A i \in 1 .. Len(f) - k : t[i] = f[k + i]
  BY <1>1, SubSeqProperties
<1> HIDE DEF s, t
<1> DEFINE st == s \o t
<1>4. /\ st \in Seq(Block)
      /\ Len(st) = Len(s) + Len(t)
      /\ \A i \in 1 .. Len(s) + Len(t) :
           st[i] = IF i <= Len(s) THEN s[i] ELSE t[i - Len(s)]
  BY <1>2, <1>3, ConcatProperties, Zenon
<1>5. Unlinked(f, k) = st
  BY DEF Unlinked, s, t
<1> HIDE DEF st
<1>6. Len(st) = Len(f) - 1
  BY <1>1, <1>2, <1>3, <1>4
<1>7. ASSUME NEW i \in 1 .. Len(f) - 1
      PROVE  st[i] = f[IF i < k THEN i ELSE i + 1]
  <2>1. CASE i < k
    <3>0. i \in 1 .. Len(s) + Len(t) /\ i <= Len(s)
      BY <1>1, <1>2, <1>3, <2>1
    <3>1. st[i] = s[i]
      BY <1>4, <3>0
    <3> QED
      BY <1>1, <1>2, <2>1, <3>1
  <2>2. CASE i >= k
    <3>0. /\ i \in 1 .. Len(s) + Len(t) /\ ~(i <= Len(s))
          /\ i - Len(s) = i - k + 1
      BY <1>1, <1>2, <1>3, <2>2
    <3>1. st[i] = t[i - Len(s)] /\ i - Len(s) = i - k + 1
      BY <1>4, <3>0
    <3>2. i - k + 1 \in 1 .. Len(f) - k
      BY <1>1, <2>2
    <3>3. t[i - k + 1] = f[k + (i - k + 1)]
      BY <1>3, <3>2
    <3>4. k + (i - k + 1) = i + 1
      BY <1>1
    <3> QED
      BY <2>2, <3>1, <3>3, <3>4
  <2> QED
    BY <1>1, <2>1, <2>2
<1> QED
  BY <1>4, <1>5, <1>6, <1>7

\* A list with a block linked behind its element k.
LEMMA LinkedFacts ==
  ASSUME NEW f \in Seq(Block), NEW k \in 0 .. Len(f), NEW b \in Block
  PROVE  /\ LinkedBehind(f, k, b) \in Seq(Block)
         /\ Len(LinkedBehind(f, k, b)) = Len(f) + 1
         /\ \A i \in 1 .. Len(f) + 1 :
              LinkedBehind(f, k, b)[i] =
                IF i <= k THEN f[i] ELSE IF i = k + 1 THEN b ELSE f[i - 1]
<1> DEFINE s == SubSeq(f, 1, k)
           o == <<b>>
           t == SubSeq(f, k + 1, Len(f))
<1>1. Len(f) \in Nat /\ \A i \in 1 .. Len(f) : f[i] \in Block
  BY LenProperties, ElementOfSeq
<1>2. /\ s \in Seq(Block) /\ Len(s) = k
      /\ \A i \in 1 .. k : s[i] = f[i]
  BY <1>1, SubSeqProperties
<1>3. /\ t \in Seq(Block) /\ Len(t) = Len(f) - k
      /\ \A i \in 1 .. Len(f) - k : t[i] = f[k + i]
  BY <1>1, SubSeqProperties
<1>4. o \in Seq(Block) /\ Len(o) = 1 /\ o[1] = b
  OBVIOUS
<1> HIDE DEF s, t, o
<1> DEFINE so == s \o o
<1>5. /\ so \in Seq(Block)
      /\ Len(so) = Len(s) + Len(o)
      /\ \A i \in 1 .. Len(s) + Len(o) :
           so[i] = IF i <= Len(s) THEN s[i] ELSE o[i - Len(s)]
  BY <1>2, <1>4, ConcatProperties, Zenon
<1> DEFINE st == so \o t
<1>6. LinkedBehind(f, k, b) = st
  BY DEF LinkedBehind, s, t, o
<1> HIDE DEF so
<1>a. so \in Seq(Block) /\ t \in Seq(Block)
  BY <1>3, <1>5
<1>7. /\ st \in Seq(Block)
      /\ Len(st) = Len(so) + Len(t)
      /\ \A i \in 1 .. Len(so) + Len(t) :
           st[i] = IF i <= Len(so) THEN so[i] ELSE t[i - Len(so)]
  BY <1>a, ConcatProperties
<1> HIDE DEF st
<1>8. Len(so) = k + 1 /\ Len(st) = Len(f) + 1
  BY <1>1, <1>2, <1>3, <1>4, <1>5, <1>7
<1>9. ASSUME NEW i \in 1 .. Len(f) + 1
      PROVE  st[i] = IF i <= k THEN f[i] ELSE IF i = k + 1 THEN b ELSE f[i - 1]
  <2>1. CASE i <= k
    BY <1>1, <1>2, <1>4, <1>5, <1>7, <1>8, <2>1
  <2>2. CASE i = k + 1
    <3>1. so[i] = o[i - Len(s)] /\ i - Len(s) = 1
      BY <1>1, <1>2, <1>4, <1>5, <2>2
    <3>2. st[i] = so[i]
      BY <1>1, <1>3, <1>7, <1>8, <2>2
    <3> QED
      BY <1>1, <1>4, <2>2, <3>1, <3>2
  <2>3. CASE i > k + 1
    <3>0. /\ i \in 1 .. Len(so) + Len(t) /\ ~(i <= Len(so))
          /\ i - Len(so) = i - k - 1
      BY <1>1, <1>3, <1>8, <2>3
    <3>1. st[i] = t[i - Len(so)] /\ i - Len(so) = i - k - 1
      BY <1>7, <3>0
    <3>2. i - k - 1 \in 1 .. Len(f) - k
      BY <1>1, <2>3
    <3>3. t[i - k - 1] = f[k + (i - k - 1)]
      BY <1>3, <3>2
    <3>4. k + (i - k - 1) = i - 1 /\ ~(i <= k) /\ i # k + 1
      BY <1>1, <2>3
    <3> QED
      BY <3>1, <3>3, <3>4
  <2> QED
    BY <1>1, <2>1, <2>2, <2>3
<1> QED
  BY <1>6, <1>7, <1>8, <1>9, Zenon

-----------------------------------------------------------------------------

\* A free block becomes a handle.
LEMMA TakeWhole ==
  ASSUME NEW f, NEW us, Sound(f, us), NEW k \in 1 .. Len(f)
  PROVE  Sound(Unlinked(f, k), us \cup {f[k]})
<1> DEFINE g == Unlinked(f, k)
           vs == us \cup {f[k]}
           src(i) == IF i < k THEN i ELSE i + 1
<1>1. /\ f \in Seq(Block) /\ us \subseteq Block /\ Len(f) \in Nat
      /\ \A i \in 1 .. Len(f) : f[i] \in Block
  BY LenProperties, ElementOfSeq DEF Sound
<1>2. /\ g \in Seq(Block) /\ Len(g) = Len(f) - 1
      /\ \A i \in 1 .. Len(f) - 1 : g[i] = f[src(i)]
  BY <1>1, UnlinkedFacts
<1> HIDE DEF g
<1>3. /\ \A i \in 1 .. Len(g) : src(i) \in 1 .. Len(f) /\ src(i) # k
      /\ \A i, j \in 1 .. Len(g) : i # j => src(i) # src(j)
  BY <1>1, <1>2
<1>4. \A i \in 1 .. Len(f) : i # k => \E j \in 1 .. Len(g) : src(j) = i
  <2> SUFFICES ASSUME NEW i \in 1 .. Len(f), i # k
               PROVE  \E j \in 1 .. Len(g) : src(j) = i
    OBVIOUS
  <2>1. CASE i < k
    <3>1. i \in 1 .. Len(g) /\ src(i) = i
      BY <1>1, <1>2, <2>1
    <3> QED
      BY <3>1
  <2>2. CASE i > k
    <3>1. i - 1 \in 1 .. Len(g) /\ src(i - 1) = i
      BY <1>1, <1>2, <2>2
    <3> QED
      BY <3>1
  <2> QED
    BY <1>1, <2>1, <2>2
<1>5. \A i \in 1 .. Len(g) : g[i] = f[src(i)]
  BY <1>1, <1>2
<1> HIDE DEF src
<1>6. /\ \A i \in 1 .. Len(g) : g[i].len > 0 /\ End(g[i]) <= shm_len
      /\ \A u \in vs : u.len > 0 /\ End(u) <= shm_len
  BY <1>3, <1>5 DEF Sound
<1>7. BlocksApart(g, vs)
  <2>1. \A i, j \in 1 .. Len(g) : i # j => Apart(g[i], g[j])
    BY <1>3, <1>5 DEF Sound, BlocksApart
  <2>2. \A i \in 1 .. Len(g), u \in vs : Apart(g[i], u)
    BY <1>3, <1>5 DEF Sound, BlocksApart
  <2>3. \A i \in 1 .. Len(f), u \in us : Apart(u, f[i])
    BY DEF Sound, BlocksApart, Apart
  <2>4. \A u, v \in vs : u # v => Apart(u, v)
    BY <2>3 DEF Sound, BlocksApart
  <2> QED
    BY <2>1, <2>2, <2>4 DEF BlocksApart
<1>8. NothingLost(g, vs)
  <2> SUFFICES ASSUME NEW x \in 0 .. shm_len - 1
               PROVE  \/ \E i \in 1 .. Len(g) : Holds(g[i], x)
                      \/ \E u \in vs : Holds(u, x)
    BY DEF NothingLost
  <2>1. CASE \E u \in us : Holds(u, x)
    BY <2>1
  <2>2. CASE \E i \in 1 .. Len(f) : Holds(f[i], x)
    <3>1. PICK i \in 1 .. Len(f) : Holds(f[i], x)
      BY <2>2
    <3>2. CASE i = k
      BY <3>1, <3>2
    <3>3. CASE i # k
      BY <1>4, <1>5, <3>1, <3>3
    <3> QED
      BY <3>2, <3>3
  <2> QED
    BY <2>1, <2>2 DEF Sound, NothingLost
<1> QED
  BY <1>1, <1>2, <1>6, <1>7, <1>8 DEF Sound, g

\* Blocks a and b are the two parts of block c.
Parts(a, b, c) ==
  /\ a \in Block /\ b \in Block
  /\ a.len > 0 /\ b.len > 0
  /\ \/ a.off = c.off /\ End(a) = b.off /\ End(b) = End(c)
     \/ b.off = c.off /\ End(b) = a.off /\ End(a) = End(c)

\* Each part of a block is apart from what the block is apart from.
LEMMA PartsApart ==
  ASSUME NEW a, NEW b, NEW c \in Block, Parts(a, b, c)
  PROVE  /\ Apart(a, b) /\ Apart(b, a)
         /\ End(a) <= End(c) /\ End(b) <= End(c)
         /\ \A d \in Block : Apart(c, d) \/ Apart(d, c) =>
              Apart(a, d) /\ Apart(d, a) /\ Apart(b, d) /\ Apart(d, b)
         /\ \A x \in Int : Holds(c, x) => Holds(a, x) \/ Holds(b, x)
         /\ \A x \in Int : Holds(a, x) \/ Holds(b, x) => Holds(c, x)
BY DEF Parts, Apart, End, Block, Holds

\* Two blocks, the second of which starts where the first ends, make one block.
LEMMA WholeOfParts ==
  ASSUME NEW a \in Block, NEW b \in Block, a.len > 0, b.len > 0,
         End(a) = b.off
  PROVE  LET c == [off |-> a.off, len |-> a.len + b.len]
         IN  c \in Block /\ c.len > 0 /\ End(c) = End(b) /\ Parts(a, b, c)
<1> DEFINE c == [off |-> a.off, len |-> a.len + b.len]
<1>1. /\ a.off \in Nat /\ a.len \in Nat /\ b.len \in Nat
      /\ a.off + a.len = b.off
  BY DEF Block, End
<1>2. c \in Block /\ c.off = a.off /\ c.len = a.len + b.len
  BY <1>1 DEF Block
<1> HIDE DEF c
<1>3. c.len > 0
  BY <1>1, <1>2
<1>4. End(c) = End(b)
  BY <1>1, <1>2 DEF End
<1>5. Parts(a, b, c)
  BY <1>2, <1>4 DEF Parts
<1> QED
  BY <1>2, <1>3, <1>4, <1>5 DEF c

\* Part of a free block becomes a handle, the other part stays in its place.
LEMMA TakePart ==
  ASSUME NEW f, NEW us, Sound(f, us), NEW k \in 1 .. Len(f),
         NEW a, NEW b, Parts(a, b, f[k])
  PROVE  Sound([f EXCEPT ![k] = b], us \cup {a})
<1> DEFINE g == [f EXCEPT ![k] = b]
           vs == us \cup {a}
<1>1. /\ f \in Seq(Block) /\ us \subseteq Block /\ Len(f) \in Nat
      /\ \A i \in 1 .. Len(f) : f[i] \in Block
      /\ a \in Block /\ b \in Block /\ a.len > 0 /\ b.len > 0
  BY LenProperties, ElementOfSeq DEF Sound, Parts
<1>2. /\ g \in Seq(Block) /\ Len(g) = Len(f)
      /\ g[k] = b
      /\ \A i \in 1 .. Len(f) : i # k => g[i] = f[i]
  BY <1>1, ExceptSeq
<1> HIDE DEF g
<1>3. /\ Apart(a, b) /\ Apart(b, a)
      /\ End(a) <= End(f[k]) /\ End(b) <= End(f[k])
      /\ \A d \in Block : Apart(f[k], d) \/ Apart(d, f[k]) =>
           Apart(a, d) /\ Apart(d, a) /\ Apart(b, d) /\ Apart(d, b)
      /\ \A x \in Int : Holds(f[k], x) => Holds(a, x) \/ Holds(b, x)
  BY <1>1, PartsApart
<1>4. /\ \A i \in 1 .. Len(g) : g[i].len > 0 /\ End(g[i]) <= shm_len
      /\ \A u \in vs : u.len > 0 /\ End(u) <= shm_len
  <2>0. End(f[k]) <= shm_len
    BY DEF Sound
  <2>a. f[k] \in Block
    BY <1>1
  <2>b. \A d \in Block : End(d) \in Nat
    BY DEF End, Block
  <2>1. End(f[k]) \in Nat /\ End(a) \in Nat /\ End(b) \in Nat
    BY <1>1, <2>a, <2>b
  <2>2. End(a) <= shm_len /\ End(b) <= shm_len
    BY <1>1, <1>3, <2>0, <2>1, ShmLenAssumption
  <2>3. \A i \in 1 .. Len(g) : g[i].len > 0 /\ End(g[i]) <= shm_len
    <3>1. \A i \in 1 .. Len(f) : f[i].len > 0 /\ End(f[i]) <= shm_len
      BY DEF Sound
    <3> QED
      BY <1>1, <1>2, <2>2, <3>1
  <2>4. \A u \in vs : u.len > 0 /\ End(u) <= shm_len
    <3>1. \A u \in us : u.len > 0 /\ End(u) <= shm_len
      BY DEF Sound
    <3> QED
      BY <1>1, <2>2, <3>1
  <2> QED
    BY <2>3, <2>4
<1>5. BlocksApart(g, vs)
  <2>1. \A i, j \in 1 .. Len(g) : i # j => Apart(g[i], g[j])
    BY <1>1, <1>2, <1>3 DEF Sound, BlocksApart
  <2>2. \A i \in 1 .. Len(g), u \in vs : Apart(g[i], u)
    BY <1>1, <1>2, <1>3 DEF Sound, BlocksApart
  <2>3. \A u, v \in vs : u # v => Apart(u, v)
    BY <1>1, <1>3 DEF Sound, BlocksApart
  <2> QED
    BY <2>1, <2>2, <2>3 DEF BlocksApart
<1>6. NothingLost(g, vs)
  <2> SUFFICES ASSUME NEW x \in 0 .. shm_len - 1
               PROVE  \/ \E i \in 1 .. Len(g) : Holds(g[i], x)
                      \/ \E u \in vs : Holds(u, x)
    BY DEF NothingLost
  <2>1. CASE \E u \in us : Holds(u, x)
    BY <2>1
  <2>2. CASE \E i \in 1 .. Len(f) : Holds(f[i], x)
    <3>1. PICK i \in 1 .. Len(f) : Holds(f[i], x)
      BY <2>2
    <3>2. CASE i = k
      <4>1. x \in Int
        BY ShmLenAssumption
      <4>2. Holds(a, x) \/ Holds(b, x)
        BY <1>3, <3>1, <3>2, <4>1
      <4> QED
        BY <1>2, <4>2
    <3>3. CASE i # k
      BY <1>2, <3>1, <3>3
    <3> QED
      BY <3>2, <3>3
  <2> QED
    BY <2>1, <2>2 DEF Sound, NothingLost
<1> QED
  BY <1>1, <1>2, <1>4, <1>5, <1>6 DEF Sound, g

\* A handle becomes a free block, linked anywhere.
LEMMA GiveBack ==
  ASSUME NEW f, NEW us, Sound(f, us), NEW k \in 0 .. Len(f), NEW b \in us
  PROVE  Sound(LinkedBehind(f, k, b), us \ {b})
<1> DEFINE g == LinkedBehind(f, k, b)
           vs == us \ {b}
<1>1. /\ f \in Seq(Block) /\ us \subseteq Block /\ Len(f) \in Nat
      /\ \A i \in 1 .. Len(f) : f[i] \in Block
      /\ b \in Block
  BY LenProperties, ElementOfSeq DEF Sound
<1>2. /\ g \in Seq(Block) /\ Len(g) = Len(f) + 1
      /\ \A i \in 1 .. Len(f) + 1 :
           g[i] = IF i <= k THEN f[i] ELSE IF i = k + 1 THEN b ELSE f[i - 1]
  BY <1>1, LinkedFacts
<1> HIDE DEF g
<1> DEFINE src(i) == IF i <= k THEN i ELSE i - 1
<1>3. /\ k + 1 \in 1 .. Len(g) /\ g[k + 1] = b
      /\ \A i \in 1 .. Len(g) : i # k + 1 =>
           src(i) \in 1 .. Len(f) /\ g[i] = f[src(i)]
      /\ \A i, j \in 1 .. Len(g) :
           i # j /\ i # k + 1 /\ j # k + 1 => src(i) # src(j)
  BY <1>1, <1>2
<1>4. \A i \in 1 .. Len(f) : \E j \in 1 .. Len(g) : g[j] = f[i]
  <2> SUFFICES ASSUME NEW i \in 1 .. Len(f)
               PROVE  \E j \in 1 .. Len(g) : g[j] = f[i]
    OBVIOUS
  <2>1. CASE i <= k
    <3>1. i \in 1 .. Len(g) /\ g[i] = f[i]
      BY <1>1, <1>2, <2>1
    <3> QED
      BY <3>1
  <2>2. CASE i > k
    <3>1. i + 1 \in 1 .. Len(g) /\ (i + 1) - 1 = i /\ ~(i + 1 <= k) /\ i + 1 # k + 1
      BY <1>1, <1>2, <2>2
    <3>2. g[i + 1] = f[(i + 1) - 1]
      BY <1>2, <3>1
    <3> QED
      BY <3>1, <3>2
  <2> QED
    BY <1>1, <2>1, <2>2
<1> HIDE DEF src
<1>5. /\ \A i \in 1 .. Len(g) : g[i].len > 0 /\ End(g[i]) <= shm_len
      /\ \A u \in vs : u.len > 0 /\ End(u) <= shm_len
  BY <1>3, SMTT(30) DEF Sound
<1>6. BlocksApart(g, vs)
  <2>1. \A i \in 1 .. Len(f), u \in us : Apart(f[i], u) /\ Apart(u, f[i])
    BY DEF Sound, BlocksApart, Apart
  <2>2. \A i, j \in 1 .. Len(g) : i # j => Apart(g[i], g[j])
    BY <1>3, <2>1 DEF Sound, BlocksApart
  <2>3. \A i \in 1 .. Len(g), u \in vs : Apart(g[i], u)
    BY <1>3, <2>1 DEF Sound, BlocksApart
  <2> QED
    BY <2>2, <2>3 DEF Sound, BlocksApart
<1>7. NothingLost(g, vs)
  BY <1>3, <1>4 DEF Sound, NothingLost
<1> QED
  BY <1>1, <1>2, <1>5, <1>6, <1>7 DEF Sound, g

\* Two neighbours on the list that touch become one.
LEMMA JoinFree ==
  ASSUME NEW f, NEW us, Sound(f, us), NEW k \in Int, Joins(f, k)
  PROVE  Sound(Joined(f, k), us)
<1> DEFINE c == [off |-> f[k].off, len |-> f[k].len + f[k + 1].len]
           h == [f EXCEPT ![k] = c]
           g == Unlinked(h, k + 1)
           src(i) == IF i < k + 1 THEN i ELSE i + 1
<1>1. /\ f \in Seq(Block) /\ us \subseteq Block /\ Len(f) \in Nat
      /\ \A i \in 1 .. Len(f) : f[i] \in Block
      /\ k \in 1 .. Len(f) /\ k + 1 \in 1 .. Len(f)
  BY LenProperties, ElementOfSeq DEF Sound, Joins
<1>2. c \in Block /\ Parts(f[k], f[k + 1], c)
  <2>1. f[k].len > 0 /\ f[k + 1].len > 0
    BY <1>1 DEF Sound
  <2>2. f[k] \in Block /\ f[k + 1] \in Block /\ End(f[k]) = f[k + 1].off
    BY <1>1 DEF Joins
  <2> QED
    BY <2>1, <2>2, WholeOfParts
<1>3. /\ h \in Seq(Block) /\ Len(h) = Len(f)
      /\ \A i \in 1 .. Len(f) : h[i] = IF i = k THEN c ELSE f[i]
  BY <1>1, <1>2, ExceptSeq
<1>4. Joined(f, k) = g
  BY <1>1 DEF Joined
<1> HIDE DEF c, h
<1>5. /\ g \in Seq(Block) /\ Len(g) = Len(f) - 1
      /\ \A i \in 1 .. Len(f) - 1 : g[i] = h[src(i)]
  <2>1. h \in Seq(Block) /\ k + 1 \in 1 .. Len(h) /\ Len(h) = Len(f)
    BY <1>1, <1>3
  <2>2. /\ g \in Seq(Block) /\ Len(g) = Len(h) - 1
        /\ \A i \in 1 .. Len(h) - 1 : g[i] = h[src(i)]
    BY <2>1, UnlinkedFacts
  <2> HIDE DEF g, src
  <2> QED
    BY <2>1, <2>2
<1> HIDE DEF g
<1>6. /\ k \in 1 .. Len(g) /\ g[k] = c
      /\ \A i \in 1 .. Len(g) : i # k =>
           src(i) \in 1 .. Len(f) /\ src(i) # k /\ src(i) # k + 1 /\ g[i] = f[src(i)]
      /\ \A i, j \in 1 .. Len(g) : i # j => src(i) # src(j)
  <2>1. /\ k \in 1 .. Len(g) /\ src(k) = k
        /\ \A i \in 1 .. Len(g) :
             src(i) \in 1 .. Len(f) /\ (i # k => src(i) # k) /\ src(i) # k + 1
        /\ \A i, j \in 1 .. Len(g) : i # j => src(i) # src(j)
    BY <1>1, <1>5
  <2>2. \A i \in 1 .. Len(g) : g[i] = h[src(i)]
    BY <1>1, <1>5
  <2> HIDE DEF src
  <2> QED
    BY <1>1, <1>3, <2>1, <2>2
<1>7. \A i \in 1 .. Len(f) : i # k /\ i # k + 1 =>
        \E j \in 1 .. Len(g) : g[j] = f[i]
  <2> SUFFICES ASSUME NEW i \in 1 .. Len(f), i # k, i # k + 1
               PROVE  \E j \in 1 .. Len(g) : g[j] = f[i]
    OBVIOUS
  <2>1. CASE i < k
    <3>1. i \in 1 .. Len(g) /\ src(i) = i /\ i # k
      BY <1>1, <1>5, <2>1
    <3> QED
      BY <1>6, <3>1
  <2>2. CASE i > k
    <3>1. i - 1 \in 1 .. Len(g) /\ src(i - 1) = i /\ i - 1 # k
      BY <1>1, <1>5, <2>2
    <3> QED
      BY <1>6, <3>1, Zenon
  <2> QED
    BY <1>1, <2>1, <2>2
<1> HIDE DEF src
<1>8. /\ c.len > 0 /\ End(c) <= shm_len
      /\ \A d \in Block : Apart(f[k], d) /\ Apart(f[k + 1], d) /\ d.len > 0 =>
           Apart(c, d) /\ Apart(d, c)
      /\ \A x \in Int : Holds(f[k], x) \/ Holds(f[k + 1], x) => Holds(c, x)
  <2>1. f[k] \in Block /\ f[k + 1] \in Block /\ f[k].len > 0 /\ f[k + 1].len > 0
    BY <1>1 DEF Sound
  <2>2. End(f[k + 1]) <= shm_len /\ End(f[k]) = f[k + 1].off
    BY <1>1 DEF Sound, Joins
  <2> QED
    BY <2>1, <2>2 DEF c, Apart, End, Block, Holds
<1>9. \A i \in 1 .. Len(g) : g[i].len > 0 /\ End(g[i]) <= shm_len
  BY <1>6, <1>8 DEF Sound
<1>10. BlocksApart(g, us)
  <2>1. \A i, j \in 1 .. Len(g) : i # j => Apart(g[i], g[j])
    <3>1. \A i \in 1 .. Len(g) : i # k =>
            /\ g[i] \in Block /\ g[i].len > 0
            /\ Apart(f[k], g[i]) /\ Apart(f[k + 1], g[i])
      BY <1>1, <1>6 DEF Sound, BlocksApart
    <3> QED
      BY <1>6, <1>8, <3>1, Zenon DEF Sound, BlocksApart
  <2>2. \A i \in 1 .. Len(g), u \in us : Apart(g[i], u)
    BY <1>1, <1>6, <1>8 DEF Sound, BlocksApart
  <2> QED
    BY <2>1, <2>2 DEF Sound, BlocksApart
<1>11. NothingLost(g, us)
  <2> SUFFICES ASSUME NEW x \in 0 .. shm_len - 1
               PROVE  \/ \E i \in 1 .. Len(g) : Holds(g[i], x)
                      \/ \E u \in us : Holds(u, x)
    BY DEF NothingLost
  <2>1. CASE \E u \in us : Holds(u, x)
    BY <2>1
  <2>2. CASE \E i \in 1 .. Len(f) : Holds(f[i], x)
    <3>1. PICK i \in 1 .. Len(f) : Holds(f[i], x)
      BY <2>2
    <3>2. CASE i = k \/ i = k + 1
      <4>1. x \in Int
        BY ShmLenAssumption
      <4> QED
        BY <1>6, <1>8, <3>1, <3>2, <4>1
    <3>3. CASE i # k /\ i # k + 1
      BY <1>7, <3>1, <3>3
    <3> QED
      BY <3>2, <3>3
  <2> QED
    BY <2>1, <2>2 DEF Sound, NothingLost
<1> QED
  BY <1>1, <1>4, <1>5, <1>9, <1>10, <1>11 DEF Sound

-----------------------------------------------------------------------------

\* A free block is cut into three parts: the middle one becomes a handle, the
\* others stay on the list.
LEMMA TakeMiddle ==
  ASSUME NEW f, NEW us, Sound(f, us), NEW k \in 1 .. Len(f),
         NEW front \in Block, NEW a \in Block, NEW behind \in Block,
         front.len > 0, a.len > 0, behind.len > 0,
         front.off = f[k].off, End(front) = a.off, End(a) = behind.off,
         End(behind) = End(f[k])
  PROVE  Sound(LinkedBehind([f EXCEPT ![k] = front], k, behind), us \cup {a})
<1> DEFINE m == [off |-> a.off, len |-> a.len + behind.len]
           g == [f EXCEPT ![k] = front]
           h == LinkedBehind(g, k, m)
           r == LinkedBehind(g, k, behind)
<1>1. /\ f \in Seq(Block) /\ us \subseteq Block /\ Len(f) \in Nat
      /\ f[k] \in Block
  BY LenProperties, ElementOfSeq DEF Sound
<1>2. m \in Block /\ Parts(m, front, f[k]) /\ Parts(a, behind, m)
  <2>1. m.off = a.off
    OBVIOUS
  <2>2. m \in Block /\ m.len > 0 /\ End(m) = End(behind) /\ Parts(a, behind, m)
    BY WholeOfParts
  <2> HIDE DEF m
  <2> QED
    BY <2>1, <2>2 DEF Parts
<1>3. Sound(g, us \cup {m})
  BY <1>2, TakePart, Zenon
<1>4. g \in Seq(Block) /\ Len(g) = Len(f)
  BY <1>1, ExceptSeq
<1>5. m \notin us
  <2>1. \A u \in us : Apart(f[k], u)
    BY DEF Sound, BlocksApart
  <2>2. \A u \in us : Apart(m, u)
    BY <1>1, <1>2, <2>1, PartsApart
  <2>3. ~Apart(m, m)
    BY <1>2 DEF Apart, End, Block, Parts
  <2> QED
    BY <2>2, <2>3
<1> HIDE DEF m, g
<1>6. k \in 0 .. Len(g)
  BY <1>1, <1>4
<1>h. Sound(h, us)
  <2>1. (us \cup {m}) \ {m} = us
    BY <1>5
  <2> QED
    BY <1>3, <1>6, <2>1, GiveBack
<1>7. /\ h \in Seq(Block) /\ Len(h) = Len(g) + 1
      /\ \A i \in 1 .. Len(g) + 1 :
           h[i] = IF i <= k THEN g[i] ELSE IF i = k + 1 THEN m ELSE g[i - 1]
  <2>1. g \in Seq(Block) /\ m \in Block
    BY <1>2, <1>4
  <2> QED
    BY <1>6, <2>1, LinkedFacts, ZenonT(40)
<1>8. /\ r \in Seq(Block) /\ Len(r) = Len(g) + 1
      /\ \A i \in 1 .. Len(g) + 1 :
           r[i] = IF i <= k THEN g[i] ELSE IF i = k + 1 THEN behind ELSE g[i - 1]
  <2>1. g \in Seq(Block)
    BY <1>4
  <2> QED
    BY <1>6, <2>1, LinkedFacts, ZenonT(40)
<1> HIDE DEF h, r
<1>9. k + 1 \in 1 .. Len(h) /\ h[k + 1] = m
  BY <1>1, <1>4, <1>7
<1> DEFINE t == [h EXCEPT ![k + 1] = behind]
<1>10. Sound(t, us \cup {a})
  BY <1>2, <1>h, <1>9, TakePart, Zenon
<1>11. /\ t \in Seq(Block) /\ Len(t) = Len(h)
       /\ \A i \in 1 .. Len(h) : t[i] = IF i = k + 1 THEN behind ELSE h[i]
  BY <1>7, <1>9, ExceptSeq
<1> HIDE DEF t
<1>12. ASSUME NEW i \in 1 .. Len(t)
       PROVE  t[i] = r[i]
  <2>1. i \in 1 .. Len(g) + 1 /\ i \in 1 .. Len(h)
    BY <1>7, <1>11
  <2>2. CASE i = k + 1
    BY <1>1, <1>8, <1>11, <2>1, <2>2
  <2>3. CASE i # k + 1
    <3>1. t[i] = h[i]
      BY <1>11, <2>1, <2>3
    <3> QED
      BY <1>7, <1>8, <2>1, <2>3, <3>1
  <2> QED
    BY <2>2, <2>3
<1>13. t = r
  BY <1>7, <1>8, <1>11, <1>12, SeqEqual
<1> QED
  BY <1>10, <1>13 DEF r, g

-----------------------------------------------------------------------------

\* A set of natural numbers has a smallest one.
LEMMA SmallestNat ==
  ASSUME NEW T, T \subseteq Nat, T # {}
  PROVE  \E x \in T : \A y \in T : x <= y
<1>1. PICK x \in T : \A y \in T : ~(<<y, x>> \in OpToRel(<, Nat))
  BY NatLessThanWellFounded, WFMin
<1>2. \A y \in T : ~(y < x)
  BY <1>1, Zenon DEF OpToRel
<1> QED
  BY <1>2

\* A list with a block that fits has a first one.
LEMMA FirstExists ==
  ASSUME NEW f, NEW n, Len(f) \in Nat,
         \E i \in 1 .. Len(f) : Fits(f[i], n)
  PROVE  \E i \in 1 .. Len(f) :
           Fits(f[i], n) /\ \A j \in 1 .. i - 1 : ~Fits(f[j], n)
<1> DEFINE T == {i \in 1 .. Len(f) : Fits(f[i], n)}
<1>1. T \subseteq Nat /\ T # {}
  OBVIOUS
<1>2. PICK i \in T : \A y \in T : i <= y
  BY <1>1, SmallestNat, Zenon
<1>3. \A j \in 1 .. i - 1 : j \notin T /\ j \in 1 .. Len(f)
  BY <1>2
<1> QED
  BY <1>2, <1>3

\* The search for the place of a freed block ends.
LEMMA SuccessorExists ==
  ASSUME NEW f, NEW b, Len(f) \in Nat
  PROVE  \E k \in 0 .. Len(f) :
           /\ k = 0 \/ k + 1 <= Len(f)
           /\ \A i \in 2 .. k + 1 : f[i].off < b.off
           /\ k + 2 <= Len(f) => ~(f[k + 2].off < b.off)
<1> DEFINE T == {k \in Nat : k + 2 <= Len(f) => ~(f[k + 2].off < b.off)}
<1>1. T \subseteq Nat /\ Len(f) \in T
  OBVIOUS
<1>2. PICK k \in T : \A y \in T : k <= y
  BY <1>1, SmallestNat, Zenon
<1>3. k = 0 \/ k + 1 <= Len(f)
  <2>1. CASE Len(f) = 0
    BY <1>1, <1>2, <2>1
  <2>2. CASE Len(f) # 0
    <3>1. Len(f) - 1 \in T
      BY <2>2
    <3>2. k \in Nat /\ k <= Len(f) - 1
      BY <1>1, <1>2, <3>1, Zenon
    <3> HIDE DEF T
    <3> QED
      BY <3>2
  <2> QED
    BY <2>1, <2>2
<1>4. ASSUME NEW i \in 2 .. k + 1
      PROVE  f[i].off < b.off
  <2>1. i - 2 \in Nat /\ (i - 2) + 2 = i /\ ~(k <= i - 2)
    BY <1>1, <1>2
  <2>2. i - 2 \notin T
    BY <1>2, <2>1
  <2> QED
    BY <2>1, <2>2
<1>5. k \in 0 .. Len(f)
  BY <1>1, <1>3
<1> QED
  BY <1>2, <1>3, <1>4, <1>5

-----------------------------------------------------------------------------

\* shmalloc_alloc hands out a block that nobody has and keeps the rest.
LEMMA AllocSound ==
  ASSUME IInv, NEW length \in 1 .. shm_len, Alloc(length)
  PROVE  IInv'
<1> DEFINE n == ALIGN_UP(length)
           k == FirstFit(free, n)
           a == Taken(free, k, n)
           rest == Left(free, k, n)
<1>1. Sound(free, used) /\ free \in Seq(Block) /\ Len(free) \in Nat
  BY LenProperties DEF IInv, Sound
<1>2. free' = rest /\ used' = used \cup {a}
  BY DEF Alloc, shmalloc_alloc
<1>3. n \in Nat /\ n > 0
  BY AlignUp, ShmLenAssumption
<1> HIDE DEF n
<1>4. k \in 1 .. Len(free) /\ Fits(free[k], n)
  <2>1. \E i \in 1 .. Len(free) : Fits(free[i], n)
    BY DEF Alloc, CanAlloc, n
  <2>2. \E i \in 1 .. Len(free) :
          Fits(free[i], n) /\ \A j \in 1 .. i - 1 : ~Fits(free[j], n)
    BY <1>1, <2>1, FirstExists, Zenon
  <2> QED
    BY <2>2 DEF FirstFit
<1> HIDE DEF k
<1> DEFINE c == free[k]
           p == prefix_len(c)
           s == c.len - p - n
<1>5. c \in Block /\ c.len > 0
  BY <1>1, <1>4, ElementOfSeq DEF Sound
<1>6. /\ p \in Nat /\ ALIGN_UP(c.off) = c.off + p
      /\ s \in Nat /\ p + n + s = c.len
  <2>1. c.off \in Nat /\ c.len \in Nat
    BY <1>5 DEF Block
  <2>2. ALIGN_UP(c.off) \in Nat /\ ALIGN_UP(c.off) >= c.off
    BY <2>1, AlignUp
  <2>3. p = ALIGN_UP(c.off) - c.off /\ p + n <= c.len
    BY <1>4 DEF prefix_len, Fits
  <2> HIDE DEF p
  <2> QED
    BY <1>3, <2>1, <2>2, <2>3
<1>7. a = [off |-> c.off + p, len |-> n]
  BY <1>6 DEF Taken
<1> DEFINE front == [off |-> c.off, len |-> p]
           behind == [off |-> c.off + p + n, len |-> s]
<1>8. rest = IF p = 0 /\ s = 0 THEN Unlinked(free, k)
             ELSE IF p = 0 THEN [free EXCEPT ![k] = behind]
             ELSE IF s > 0
                  THEN LinkedBehind([free EXCEPT ![k] = front], k, behind)
             ELSE [free EXCEPT ![k] = front]
  BY <1>6 DEF Left
<1> HIDE DEF rest, a, p, s
<1>9. Sound(rest, used \cup {a})
  <2>1. CASE p = 0 /\ s = 0
    <3>1. a = c
      BY <1>3, <1>5, <1>6, <1>7, <2>1 DEF Block
    <3> QED
      BY <1>1, <1>4, <1>8, <2>1, <3>1, TakeWhole
  <2>2. CASE p = 0 /\ s # 0
    <3>1. Parts(a, behind, c)
      BY <1>3, <1>5, <1>6, <1>7, <2>2 DEF Parts, Block, End
    <3> QED
      BY <1>1, <1>4, <1>8, <2>2, <3>1, TakePart, Zenon
  <2>3. CASE p # 0 /\ s = 0
    <3>1. Parts(a, front, c)
      BY <1>3, <1>5, <1>6, <1>7, <2>3 DEF Parts, Block, End
    <3>2. rest = [free EXCEPT ![k] = front]
      BY <1>8, <2>3
    <3> QED
      BY <1>1, <1>4, <3>1, <3>2, TakePart, Zenon
  <2>4. CASE p # 0 /\ s # 0
    <3>1. /\ front \in Block /\ a \in Block /\ behind \in Block
          /\ front.len > 0 /\ a.len > 0 /\ behind.len > 0
          /\ front.off = c.off /\ End(front) = a.off /\ End(a) = behind.off
          /\ End(behind) = End(c)
      BY <1>3, <1>5, <1>6, <1>7, <2>4 DEF Block, End
    <3>2. rest = LinkedBehind([free EXCEPT ![k] = front], k, behind)
      BY <1>6, <1>8, <2>4
    <3> QED
      BY <1>1, <1>4, <3>1, <3>2, TakeMiddle
  <2> QED
    BY <2>1, <2>2, <2>3, <2>4
<1> QED
  BY <1>2, <1>9 DEF IInv

\* shmalloc_free puts a handle on the list and joins it with neighbours.
LEMMA FreeSound ==
  ASSUME IInv, NEW b \in used, Free(b)
  PROVE  IInv'
<1> DEFINE k == sh_prev(free, b)
           l == LinkedBehind(free, k, b)
           m == MergedAt(l, k)
           k2 == IF Joins(l, k) THEN k ELSE k + 1
<1>1. Sound(free, used)
  BY DEF IInv
<1>2. free' = MergedAt(m, k2) /\ used' = used \ {b}
  BY DEF Free, shmalloc_free, merge_items
<1>3. k \in 0 .. Len(free)
  BY SuccessorExists DEF sh_prev
<1> HIDE DEF k
<1>4. Sound(l, used \ {b})
  BY <1>1, <1>3, GiveBack
<1> HIDE DEF l
<1>5. Sound(m, used \ {b})
  BY <1>3, <1>4, JoinFree DEF MergedAt
<1> HIDE DEF m
<1>6. k2 \in Int
  BY <1>3
<1> HIDE DEF k2
<1>7. Sound(MergedAt(m, k2), used \ {b})
  BY <1>5, <1>6, JoinFree DEF MergedAt
<1> QED
  BY <1>2, <1>7 DEF IInv

\* At the start the region is one free block.
LEMMA InitSound == Init => IInv
<1> SUFFICES ASSUME Init PROVE IInv
  OBVIOUS
<1> DEFINE o == [off |-> 0, len |-> shm_len]
<1>1. o \in Block /\ o.off = 0 /\ o.len = shm_len
  BY ShmLenAssumption DEF Block
<1>2. free = <<o>> /\ used = {}
  BY DEF Init, shmalloc_init
<1> HIDE DEF o
<1>3. free \in Seq(Block) /\ Len(free) = 1 /\ free[1] = o
  BY <1>1, <1>2
<1>4. \A i \in 1 .. Len(free) : free[i] = o
  BY <1>3
<1>5. End(o) = shm_len /\ \A x \in 0 .. shm_len - 1 : Holds(o, x)
  BY <1>1, ShmLenAssumption DEF End, Holds
<1>6. BlocksApart(free, used)
  BY <1>2, <1>3 DEF BlocksApart
<1>7. NothingLost(free, used)
  BY <1>3, <1>5 DEF NothingLost
<1> QED
  BY <1>1, <1>2, <1>3, <1>4, <1>5, <1>6, <1>7, ShmLenAssumption DEF IInv, Sound

\* However callers allocate and free, no two blocks of a region ever share a
\* byte, handles and free blocks alike, none leaves the region, and no byte
\* of it is lost (shmalloc_alloc, shmalloc_free).
THEOREM MemoryPartitioned == Spec => []IInv
<1>1. Init => IInv
  BY InitSound
<1>2. IInv /\ [Next]_vars => IInv'
  <2> SUFFICES ASSUME IInv, [Next]_vars
               PROVE  IInv'
    OBVIOUS
  <2>1. ASSUME NEW length \in 1 .. shm_len, Alloc(length)
        PROVE  IInv'
    BY <2>1, AllocSound
  <2>2. ASSUME NEW b \in used, Free(b)
        PROVE  IInv'
    BY <2>2, FreeSound
  <2>3. CASE UNCHANGED vars
    BY <2>3 DEF vars, IInv
  <2> QED
    BY <2>1, <2>2, <2>3 DEF Next
<1> QED
  BY <1>1, <1>2, PTL DEF Spec

=============================================================================
