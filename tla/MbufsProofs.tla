----------------------------- MODULE MbufsProofs -----------------------------
(***************************************************************************)
(* Proofs about the packet buffers of a fast-path core, for pools, caches  *)
(* and batches of every size.                                              *)
(***************************************************************************)
EXTENDS Mbufs, FiniteSetTheorems, WellFoundedInduction, TLAPS

\* Leaves that need arithmetic, or updates of records, say SMTT.
USE ZenonT(40)

\* The elements of a sequence, and that none is there twice.
Elems(q) == {q[i] : i \in 1 .. Len(q)}
Inj(q) == \A i, j \in 1 .. Len(q) : q[i] = q[j] => i = j

\* The same of k slots of the cache c from h on.
RingSet(c, h, k) == {c[Mask(h + i)] : i \in 0 .. k - 1}
RingInj(c, h, k) ==
  \A i, j \in 0 .. k - 1 : c[Mask(h + i)] = c[Mask(h + j)] => i = j

-----------------------------------------------------------------------------
(* Induction over the natural numbers *)

\* A set of natural numbers that is not empty has a least element.
LEMMA LeastOf ==
  ASSUME NEW T \in SUBSET Nat, T # {}
  PROVE  \E x \in T : \A y \in T : x <= y
<1> DEFINE R == OpToRel(<, Nat)
<1>1. IsWellFoundedOn(R, Nat)
  BY NatLessThanWellFounded
<1>2. \A x, y \in Nat : <<x, y>> \in R <=> x < y
  BY DEF OpToRel
<1> HIDE DEF R
<1>3. PICK x \in T : \A y \in T : ~(<<y, x>> \in R)
  BY <1>1, WFMin
<1>4. ASSUME NEW y \in T
      PROVE  x <= y
  <2>1. x \in Nat /\ y \in Nat
    OBVIOUS
  <2>2. ~(y < x)
    BY <1>2, <1>3, <2>1
  <2> QED
    BY <2>1, <2>2, SMTT(40)
<1> QED
  BY <1>3, <1>4

\* A set that has 0 and with every number up to m its successor has all.
LEMMA Induct ==
  ASSUME NEW S, NEW m \in Nat, 0 \in S,
         \A i \in 0 .. m - 1 : i \in S => i + 1 \in S
  PROVE  0 .. m \subseteq S
<1> DEFINE T == (0 .. m) \ S
<1>1. SUFFICES ASSUME T # {}
               PROVE  FALSE
  OBVIOUS
<1>2. PICK x \in T : \A y \in T : x <= y
  <2>1. T \in SUBSET Nat
    BY SMTT(40)
  <2> HIDE DEF T
  <2> QED
    BY <1>1, <2>1, LeastOf
<1>3. x \in 1 .. m /\ x \notin S
  BY SMTT(40)
<1>4. x - 1 \in 0 .. m - 1 /\ x - 1 \notin S
  BY <1>3, SMTT(40)
<1>5. x - 1 \in T
  BY <1>4, SMTT(40)
<1> QED
  BY <1>2, <1>3, <1>5, SMTT(40)

-----------------------------------------------------------------------------
(* Slots of the ring *)

\* A number is reduced to the slot it differs from by a multiple of the size.
LEMMA MaskOf == \A r \in Slots, q \in Int : Mask(q * TX_CACHE_SIZE + r) = r
  BY MbufsAssumption, SMTT(40) DEF Mask, Slots

\* Reduction of the numbers near the ring.
LEMMA MaskNear ==
  /\ \A x \in Int : x \in 0 .. TX_CACHE_SIZE - 1 => Mask(x) = x
  /\ \A x \in Int : x \in TX_CACHE_SIZE .. 2 * TX_CACHE_SIZE - 1
                      => Mask(x) = x - TX_CACHE_SIZE
  /\ \A x \in Int : x \in 0 - TX_CACHE_SIZE .. 0 - 1
                      => Mask(x) = x + TX_CACHE_SIZE
  /\ \A x \in Int : x \in 0 - 2 * TX_CACHE_SIZE .. 0 - TX_CACHE_SIZE - 1
                      => Mask(x) = x + 2 * TX_CACHE_SIZE
<1> DEFINE L == TX_CACHE_SIZE
<1>0. L \in Nat \ {0}
  BY MbufsAssumption
<1>1. \A r \in Slots, q \in Int : Mask(q * L + r) = r
  BY MaskOf
<1>2. Slots = 0 .. L - 1
  BY DEF Slots
<1> HIDE DEF L
<1>3. ASSUME NEW x \in Int, x \in 0 .. L - 1 PROVE Mask(x) = x
  <2>1. 0 * L + x = x
    BY <1>0, SMTT(40)
  <2>2. x \in Slots
    BY <1>2, <1>3
  <2> QED BY <1>1, <2>1, <2>2, SMTT(40)
<1>4. ASSUME NEW x \in Int, x \in L .. 2 * L - 1 PROVE Mask(x) = x - L
  <2>1. 1 * L + (x - L) = x
    BY <1>0, SMTT(40)
  <2>2. x - L \in Slots
    BY <1>0, <1>2, <1>4, SMTT(40)
  <2> QED BY <1>1, <2>1, <2>2, SMTT(40)
<1>5. ASSUME NEW x \in Int, x \in 0 - L .. 0 - 1 PROVE Mask(x) = x + L
  <2>1. (0 - 1) * L + (x + L) = x
    BY <1>0, SMTT(40)
  <2>2. x + L \in Slots
    BY <1>0, <1>2, <1>5, SMTT(40)
  <2>3. 0 - 1 \in Int
    BY SMTT(40)
  <2> QED BY <1>1, <2>1, <2>2, <2>3
<1>6. ASSUME NEW x \in Int, x \in 0 - 2 * L .. 0 - L - 1
      PROVE  Mask(x) = x + 2 * L
  <2>1. (0 - 2) * L + (x + 2 * L) = x
    BY <1>0, SMTT(40)
  <2>2. x + 2 * L \in Slots
    BY <1>0, <1>2, <1>6, SMTT(40)
  <2>3. 0 - 2 \in Int
    BY SMTT(40)
  <2> QED BY <1>1, <2>1, <2>2, <2>3
<1> QED BY <1>3, <1>4, <1>5, <1>6 DEF L

\* The same in one formula: which multiple of the size is taken off.
LEMMA MaskCases ==
  \A x \in Int :
    /\ 0 - 2 * TX_CACHE_SIZE <= x
    /\ x < 2 * TX_CACHE_SIZE
    => /\ Mask(x) \in 0 .. TX_CACHE_SIZE - 1
       /\ \/ Mask(x) = x + 2 * TX_CACHE_SIZE
          \/ Mask(x) = x + TX_CACHE_SIZE
          \/ Mask(x) = x
          \/ Mask(x) = x - TX_CACHE_SIZE
<1> DEFINE L == TX_CACHE_SIZE
<1>0. L \in Nat \ {0}
  BY MbufsAssumption
<1> HIDE DEF L
<1> SUFFICES ASSUME NEW x \in Int, 0 - 2 * L <= x, x < 2 * L
             PROVE  /\ Mask(x) \in 0 .. L - 1
                    /\ \/ Mask(x) = x + 2 * L
                       \/ Mask(x) = x + L
                       \/ Mask(x) = x
                       \/ Mask(x) = x - L
  BY DEF L
<1>1. CASE x \in 0 .. L - 1
  <2>1. Mask(x) = x
    BY <1>1, MaskNear DEF L
  <2> QED BY <1>1, <2>1
<1>2. CASE x \in L .. 2 * L - 1
  <2>1. Mask(x) = x - L
    BY <1>2, MaskNear DEF L
  <2> QED BY <1>0, <1>2, <2>1, SMTT(40)
<1>3. CASE x \in 0 - L .. 0 - 1
  <2>1. Mask(x) = x + L
    BY <1>3, MaskNear DEF L
  <2> QED BY <1>0, <1>3, <2>1, SMTT(40)
<1>4. CASE x \in 0 - 2 * L .. 0 - L - 1
  <2>1. Mask(x) = x + 2 * L
    BY <1>4, MaskNear DEF L
  <2> QED BY <1>0, <1>4, <2>1, SMTT(40)
<1> QED BY <1>0, <1>1, <1>2, <1>3, <1>4, SMTT(40)

\* Going on from a slot: two reductions are one.
LEMMA MaskTwice ==
  \A h \in Slots : \A j, i \in Nat :
    j + i < TX_CACHE_SIZE => Mask(Mask(h + j) + i) = Mask(h + (j + i))
<1> DEFINE L == TX_CACHE_SIZE
<1> SUFFICES ASSUME NEW h \in Slots, NEW j \in Nat, NEW i \in Nat, j + i < L
             PROVE  Mask(Mask(h + j) + i) = Mask(h + (j + i))
  OBVIOUS
<1>0. L \in Nat \ {0} /\ h \in 0 .. L - 1
  BY MbufsAssumption DEF Slots
<1>1. \A x \in Int : 0 - 2 * L <= x /\ x < 2 * L
        => /\ Mask(x) \in 0 .. L - 1
           /\ \/ Mask(x) = x + 2 * L \/ Mask(x) = x + L
              \/ Mask(x) = x \/ Mask(x) = x - L
  BY MaskCases
<1> HIDE DEF L
<1>2. /\ Mask(h + j) \in 0 .. L - 1
      /\ Mask(h + j) = h + j \/ Mask(h + j) = (h + j) - L
  BY <1>0, <1>1, SMTT(40)
<1> DEFINE m == Mask(h + j)
<1>3. m \in 0 .. L - 1 /\ (m = h + j \/ m = (h + j) - L)
  BY <1>2
<1> HIDE DEF m
<1>4. /\ Mask(m + i) \in 0 .. L - 1
      /\ Mask(m + i) = m + i \/ Mask(m + i) = (m + i) - L
  BY <1>0, <1>1, <1>3, SMTT(40)
<1>5. /\ Mask(h + (j + i)) \in 0 .. L - 1
      /\ Mask(h + (j + i)) = h + (j + i) \/ Mask(h + (j + i)) = (h + (j + i)) - L
  BY <1>0, <1>1, SMTT(40)
<1>6. Mask(m + i) = Mask(h + (j + i))
  BY <1>0, <1>3, <1>4, <1>5, SMTT(40)
<1> QED BY <1>6 DEF m

-----------------------------------------------------------------------------
(* What k slots of the ring hold *)

\* The first m elements of q are different, and new to k slots of c.
NewTo(q, m, c, h, k) ==
  /\ \A i, j \in 1 .. m : q[i] = q[j] => i = j
  /\ \A i \in 1 .. m : q[i] \notin RingSet(c, h, k)

\* c2 is c with the m elements of q behind the k slots in use.
Behind(c2, c, h, k, q, m) ==
  /\ \A i \in 0 .. k - 1 : c2[Mask(h + i)] = c[Mask(h + i)]
  /\ \A i \in 0 .. m - 1 : c2[Mask(h + (k + i))] = q[i + 1]

\* c2, from h2 on, is c with them in front, each in front of the one before.
InFront(c2, h2, c, h, k, q, m) ==
  /\ \A i \in 0 .. k - 1 : c2[Mask(h2 + (m + i))] = c[Mask(h + i)]
  /\ \A i \in 0 .. m - 1 : c2[Mask(h2 + i)] = q[m - i]

Firsts(q, m) == {q[i] : i \in 1 .. m}

\* The slots of c2 from h2 on hold those of c from h on and the elements of q.
Extended(c2, h2, c, h, k, q, m) ==
  /\ RingInj(c2, h2, k + m)
  /\ RingSet(c2, h2, k + m) = RingSet(c, h, k) \cup Firsts(q, m)

\* Buffers put behind those in use.
LEMMA RingGrow ==
  ASSUME NEW c, NEW c2, NEW h, NEW k \in Nat, NEW m \in Nat, NEW q,
         RingInj(c, h, k), Behind(c2, c, h, k, q, m), NewTo(q, m, c, h, k)
  PROVE  Extended(c2, h, c, h, k, q, m)
<1>0. /\ \A i \in 0 .. k - 1 : c2[Mask(h + i)] = c[Mask(h + i)]
      /\ \A i \in 0 .. m - 1 : c2[Mask(h + (k + i))] = q[i + 1]
      /\ \A i, j \in 1 .. m : q[i] = q[j] => i = j
      /\ \A i \in 1 .. m : q[i] \notin RingSet(c, h, k)
  BY DEF Behind, NewTo
<1> USE <1>0
<1>1. \A i \in 0 .. (k + m) - 1 :
        \/ i \in 0 .. k - 1 /\ c2[Mask(h + i)] = c[Mask(h + i)]
        \/ i \in k .. (k + m) - 1 /\ c2[Mask(h + i)] = q[(i - k) + 1]
  <2> SUFFICES ASSUME NEW i \in 0 .. (k + m) - 1, i >= k
               PROVE  c2[Mask(h + i)] = q[(i - k) + 1]
    BY SMTT(40)
  <2>1. i - k \in 0 .. m - 1 /\ k + (i - k) = i
    BY SMTT(40)
  <2> QED BY <2>1
<1>2. \A i \in 0 .. k - 1 : c[Mask(h + i)] \in RingSet(c, h, k)
  BY DEF RingSet
<1>3. RingInj(c2, h, k + m)
  <2> SUFFICES ASSUME NEW i \in 0 .. (k + m) - 1, NEW j \in 0 .. (k + m) - 1,
                      c2[Mask(h + i)] = c2[Mask(h + j)]
               PROVE  i = j
    BY DEF RingInj
  <2>1. CASE i \in 0 .. k - 1 /\ j \in 0 .. k - 1
    BY <1>1, <2>1 DEF RingInj
  <2>2. CASE i \in 0 .. k - 1 /\ j \in k .. (k + m) - 1
    <3>1. (j - k) + 1 \in 1 .. m
      BY <2>2, SMTT(40)
    <3> QED BY <1>1, <1>2, <2>2, <3>1, SMTT(40)
  <2>3. CASE j \in 0 .. k - 1 /\ i \in k .. (k + m) - 1
    <3>1. (i - k) + 1 \in 1 .. m
      BY <2>3, SMTT(40)
    <3> QED BY <1>1, <1>2, <2>3, <3>1, SMTT(40)
  <2>4. CASE i \in k .. (k + m) - 1 /\ j \in k .. (k + m) - 1
    <3>1. (j - k) + 1 \in 1 .. m /\ (i - k) + 1 \in 1 .. m
      BY <2>4, SMTT(40)
    <3>2. c2[Mask(h + i)] = q[(i - k) + 1] /\ c2[Mask(h + j)] = q[(j - k) + 1]
      BY <1>1, <2>4, SMTT(40)
    <3>3. (i - k) + 1 = (j - k) + 1
      BY <3>1, <3>2
    <3> QED BY <3>3, SMTT(40)
  <2> QED BY <2>1, <2>2, <2>3, <2>4, SMTT(40)
<1>4. RingSet(c2, h, k + m) = RingSet(c, h, k) \cup {q[i] : i \in 1 .. m}
  <2>1. ASSUME NEW b \in RingSet(c2, h, k + m)
        PROVE  b \in RingSet(c, h, k) \cup {q[i] : i \in 1 .. m}
    <3>1. PICK i \in 0 .. (k + m) - 1 : b = c2[Mask(h + i)]
      BY DEF RingSet
    <3>2. CASE i \in 0 .. k - 1
      BY <1>1, <1>2, <3>1, <3>2
    <3>3. CASE i \in k .. (k + m) - 1
      <4>1. (i - k) + 1 \in 1 .. m
        BY <3>3, SMTT(40)
      <4>2. b = q[(i - k) + 1]
        BY <1>1, <3>1, <3>3, SMTT(40)
      <4> QED BY <4>1, <4>2
    <3> QED BY <3>2, <3>3, SMTT(40)
  <2>2. ASSUME NEW b \in RingSet(c, h, k) PROVE b \in RingSet(c2, h, k + m)
    <3>1. PICK i \in 0 .. k - 1 : b = c[Mask(h + i)]
      BY DEF RingSet
    <3>2. i \in 0 .. (k + m) - 1 /\ b = c2[Mask(h + i)]
      BY <3>1, SMTT(40)
    <3> QED BY <3>2 DEF RingSet
  <2>3. ASSUME NEW i \in 1 .. m PROVE q[i] \in RingSet(c2, h, k + m)
    <3>1. i - 1 \in 0 .. m - 1 /\ (i - 1) + 1 = i /\ k + (i - 1) \in 0 .. (k + m) - 1
      BY SMTT(40)
    <3>2. c2[Mask(h + (k + (i - 1)))] = q[i]
      BY <3>1
    <3> QED BY <3>1, <3>2 DEF RingSet
  <2> QED BY <2>1, <2>2, <2>3, SMTT(40)
<1> QED BY <1>3, <1>4 DEF Extended, Firsts

\* Buffers put in front of those in use.
LEMMA RingFront ==
  ASSUME NEW c, NEW c2, NEW h, NEW h2, NEW k \in Nat, NEW m \in Nat, NEW q,
         RingInj(c, h, k), InFront(c2, h2, c, h, k, q, m), NewTo(q, m, c, h, k)
  PROVE  Extended(c2, h2, c, h, k, q, m)
<1>0. /\ \A i \in 0 .. k - 1 : c2[Mask(h2 + (m + i))] = c[Mask(h + i)]
      /\ \A i \in 0 .. m - 1 : c2[Mask(h2 + i)] = q[m - i]
      /\ \A i, j \in 1 .. m : q[i] = q[j] => i = j
      /\ \A i \in 1 .. m : q[i] \notin RingSet(c, h, k)
  BY DEF InFront, NewTo
<1> USE <1>0
<1>1. \A i \in 0 .. (k + m) - 1 :
        \/ i \in 0 .. m - 1 /\ c2[Mask(h2 + i)] = q[m - i]
        \/ i \in m .. (k + m) - 1 /\ c2[Mask(h2 + i)] = c[Mask(h + (i - m))]
  <2> SUFFICES ASSUME NEW i \in 0 .. (k + m) - 1, i >= m
               PROVE  c2[Mask(h2 + i)] = c[Mask(h + (i - m))]
    BY SMTT(40)
  <2>1. i - m \in 0 .. k - 1 /\ m + (i - m) = i
    BY SMTT(40)
  <2> QED BY <2>1
<1>2. \A i \in 0 .. k - 1 : c[Mask(h + i)] \in RingSet(c, h, k)
  BY DEF RingSet
<1>3. RingInj(c2, h2, k + m)
  <2> SUFFICES ASSUME NEW i \in 0 .. (k + m) - 1, NEW j \in 0 .. (k + m) - 1,
                      c2[Mask(h2 + i)] = c2[Mask(h2 + j)]
               PROVE  i = j
    BY DEF RingInj
  <2>1. CASE i \in 0 .. m - 1 /\ j \in 0 .. m - 1
    <3>1. m - i \in 1 .. m /\ m - j \in 1 .. m
      BY <2>1, SMTT(40)
    <3>2. q[m - i] = q[m - j]
      BY <1>1, <2>1
    <3>3. m - i = m - j
      BY <3>1, <3>2
    <3> QED BY <3>3, SMTT(40)
  <2>2. CASE i \in 0 .. m - 1 /\ j \in m .. (k + m) - 1
    <3>1. m - i \in 1 .. m /\ j - m \in 0 .. k - 1
      BY <2>2, SMTT(40)
    <3>2. q[m - i] = c[Mask(h + (j - m))]
      BY <1>1, <2>2, SMTT(40)
    <3> QED BY <1>2, <3>1, <3>2
  <2>3. CASE j \in 0 .. m - 1 /\ i \in m .. (k + m) - 1
    <3>1. m - j \in 1 .. m /\ i - m \in 0 .. k - 1
      BY <2>3, SMTT(40)
    <3>2. q[m - j] = c[Mask(h + (i - m))]
      BY <1>1, <2>3, SMTT(40)
    <3> QED BY <1>2, <3>1, <3>2
  <2>4. CASE i \in m .. (k + m) - 1 /\ j \in m .. (k + m) - 1
    <3>1. i - m \in 0 .. k - 1 /\ j - m \in 0 .. k - 1
      BY <2>4, SMTT(40)
    <3>2. c[Mask(h + (i - m))] = c[Mask(h + (j - m))]
      BY <1>1, <2>4, SMTT(40)
    <3>3. i - m = j - m
      BY <3>1, <3>2 DEF RingInj
    <3> QED BY <3>3, SMTT(40)
  <2> QED BY <2>1, <2>2, <2>3, <2>4, SMTT(40)
<1>4. RingSet(c2, h2, k + m) = RingSet(c, h, k) \cup {q[i] : i \in 1 .. m}
  <2>1. ASSUME NEW b \in RingSet(c2, h2, k + m)
        PROVE  b \in RingSet(c, h, k) \cup {q[i] : i \in 1 .. m}
    <3>1. PICK i \in 0 .. (k + m) - 1 : b = c2[Mask(h2 + i)]
      BY DEF RingSet
    <3>2. CASE i \in 0 .. m - 1
      <4>1. m - i \in 1 .. m
        BY <3>2, SMTT(40)
      <4>2. b = q[m - i]
        BY <1>1, <3>1, <3>2
      <4> QED BY <4>1, <4>2
    <3>3. CASE i \in m .. (k + m) - 1
      <4>1. i - m \in 0 .. k - 1
        BY <3>3, SMTT(40)
      <4>2. b = c[Mask(h + (i - m))]
        BY <1>1, <3>1, <3>3, SMTT(40)
      <4> QED BY <1>2, <4>1, <4>2
    <3> QED BY <3>2, <3>3, SMTT(40)
  <2>2. ASSUME NEW b \in RingSet(c, h, k) PROVE b \in RingSet(c2, h2, k + m)
    <3>1. PICK i \in 0 .. k - 1 : b = c[Mask(h + i)]
      BY DEF RingSet
    <3>2. m + i \in 0 .. (k + m) - 1 /\ b = c2[Mask(h2 + (m + i))]
      BY <3>1, SMTT(40)
    <3> QED BY <3>2 DEF RingSet
  <2>3. ASSUME NEW i \in 1 .. m PROVE q[i] \in RingSet(c2, h2, k + m)
    <3>1. m - i \in 0 .. m - 1 /\ m - (m - i) = i /\ m - i \in 0 .. (k + m) - 1
      BY SMTT(40)
    <3>2. c2[Mask(h2 + (m - i))] = q[i]
      BY <3>1
    <3> QED BY <3>1, <3>2 DEF RingSet
  <2> QED BY <2>1, <2>2, <2>3
<1> QED BY <1>3, <1>4 DEF Extended, Firsts

\* h2 is j slots behind h.
Shifted(h2, h, k, j) ==
  \A i \in Nat : i < k - j => Mask(h2 + i) = Mask(h + (j + i))

Dropped(c, h2, h, k, j) ==
  /\ RingInj(c, h2, k - j)
  /\ RingSet(c, h2, k - j) = RingSet(c, h, k) \ RingSet(c, h, j)
  /\ RingSet(c, h, j) \subseteq RingSet(c, h, k)

\* The first j taken out.
LEMMA RingDrop ==
  ASSUME NEW c, NEW h, NEW h2, NEW k \in Nat, NEW j \in 0 .. k,
         RingInj(c, h, k), Shifted(h2, h, k, j)
  PROVE  Dropped(c, h2, h, k, j)
<1>1. \A i \in 0 .. (k - j) - 1 :
        j + i \in 0 .. k - 1 /\ Mask(h2 + i) = Mask(h + (j + i))
  BY SMTT(40) DEF Shifted
<1>2. RingInj(c, h2, k - j)
  <2> SUFFICES ASSUME NEW x \in 0 .. (k - j) - 1, NEW y \in 0 .. (k - j) - 1,
                      c[Mask(h2 + x)] = c[Mask(h2 + y)]
               PROVE  x = y
    BY DEF RingInj
  <2>1. c[Mask(h + (j + x))] = c[Mask(h + (j + y))]
    BY <1>1
  <2>2. j + x = j + y
    BY <1>1, <2>1 DEF RingInj
  <2> QED BY <2>2, SMTT(40)
<1>3. RingSet(c, h, j) \subseteq RingSet(c, h, k)
  <2>1. \A i \in 0 .. j - 1 : i \in 0 .. k - 1
    BY SMTT(40)
  <2> QED BY <2>1 DEF RingSet
<1>4. ASSUME NEW b \in RingSet(c, h2, k - j)
      PROVE  b \in RingSet(c, h, k) \ RingSet(c, h, j)
  <2>1. PICK i \in 0 .. (k - j) - 1 : b = c[Mask(h2 + i)]
    BY DEF RingSet
  <2>2. j + i \in 0 .. k - 1 /\ b = c[Mask(h + (j + i))]
    BY <1>1, <2>1
  <2>3. ASSUME b \in RingSet(c, h, j) PROVE FALSE
    <3>1. PICK x \in 0 .. j - 1 : b = c[Mask(h + x)]
      BY <2>3 DEF RingSet
    <3>2. x \in 0 .. k - 1
      BY SMTT(40)
    <3>3. x = j + i
      BY <2>2, <3>1, <3>2 DEF RingInj
    <3> QED BY <3>3, SMTT(40)
  <2>4. b \in RingSet(c, h, k)
    BY <2>2 DEF RingSet
  <2> QED BY <2>3, <2>4
<1>5. ASSUME NEW b \in RingSet(c, h, k), b \notin RingSet(c, h, j)
      PROVE  b \in RingSet(c, h2, k - j)
  <2>1. PICK i \in 0 .. k - 1 : b = c[Mask(h + i)]
    BY DEF RingSet
  <2>2. ~ (i \in 0 .. j - 1)
    BY <1>5, <2>1 DEF RingSet
  <2>3. i - j \in 0 .. (k - j) - 1 /\ j + (i - j) = i
    BY <2>2, SMTT(40)
  <2>4. b = c[Mask(h2 + (i - j))]
    BY <1>1, <2>1, <2>3
  <2> QED BY <2>3, <2>4 DEF RingSet
<1> QED BY <1>2, <1>3, <1>4, <1>5 DEF Dropped

-----------------------------------------------------------------------------
(* Sequences of different buffers *)

\* Taking k buffers out of a finite set that has as many.
LEMMA SomeOf ==
  ASSUME NEW s, IsFiniteSet(s), NEW k \in Nat, k <= Cardinality(s)
  PROVE  /\ Some(s, k) \in [1 .. k -> s]
         /\ \A i, j \in 1 .. k : Some(s, k)[i] = Some(s, k)[j] => i = j
<1>1. PICK f : f \in Bijection(1 .. Cardinality(s), s)
  BY FS_CardinalityType DEF ExistsBijection
<1>2. Cardinality(s) \in Nat
  BY FS_CardinalityType
<1> DEFINE g == [i \in 1 .. k |-> f[i]]
<1>3. f \in [1 .. Cardinality(s) -> s] /\ IsInjective(f)
  BY <1>1 DEF Bijection, Injection
<1>4. g \in [1 .. k -> s]
  BY <1>2, <1>3, SMTT(40)
<1>5. IsInjective(g)
  BY <1>2, <1>3, <1>4, SMTT(40) DEF IsInjective
<1>6. g \in Injection(1 .. k, s)
  BY <1>4, <1>5 DEF Injection
<1>7. Some(s, k) \in Injection(1 .. k, s)
  BY <1>6 DEF Some
<1> QED BY <1>7 DEF Injection, IsInjective

\* A sequence of different elements behind another.
LEMMA InjConcat ==
  ASSUME NEW S, NEW p \in Seq(S), NEW q \in Seq(S), Inj(p), Inj(q),
         Elems(p) \cap Elems(q) = {}
  PROVE  /\ p \o q \in Seq(S)
         /\ Len(p \o q) = Len(p) + Len(q)
         /\ Inj(p \o q)
         /\ Elems(p \o q) = Elems(p) \cup Elems(q)
<1>1. p \o q \in Seq(S) /\ Len(p \o q) = Len(p) + Len(q)
  BY SMTT(40)
<1>2. Len(p) \in Nat /\ Len(q) \in Nat
  BY SMTT(40)
<1>3. \A i \in 1 .. Len(p) + Len(q) :
        \/ i \in 1 .. Len(p) /\ (p \o q)[i] = p[i]
        \/ i - Len(p) \in 1 .. Len(q) /\ (p \o q)[i] = q[i - Len(p)]
  BY SMTT(40)
<1>4. (\A i \in 1 .. Len(p) : p[i] \in Elems(p)) /\ \A i \in 1 .. Len(q) : q[i] \in Elems(q)
  BY DEF Elems
<1>5. Inj(p \o q)
  <2> SUFFICES ASSUME NEW i \in 1 .. Len(p) + Len(q), NEW j \in 1 .. Len(p) + Len(q),
                      (p \o q)[i] = (p \o q)[j]
               PROVE  i = j
    BY <1>1 DEF Inj
  <2>1. CASE i \in 1 .. Len(p) /\ (p \o q)[i] = p[i]
    <3>1. CASE j \in 1 .. Len(p) /\ (p \o q)[j] = p[j]
      BY <2>1, <3>1 DEF Inj
    <3>2. CASE j - Len(p) \in 1 .. Len(q) /\ (p \o q)[j] = q[j - Len(p)]
      BY <1>4, <2>1, <3>2
    <3> QED BY <1>3, <3>1, <3>2
  <2>2. CASE i - Len(p) \in 1 .. Len(q) /\ (p \o q)[i] = q[i - Len(p)]
    <3>1. CASE j \in 1 .. Len(p) /\ (p \o q)[j] = p[j]
      BY <1>4, <2>2, <3>1
    <3>2. CASE j - Len(p) \in 1 .. Len(q) /\ (p \o q)[j] = q[j - Len(p)]
      <4>1. i - Len(p) = j - Len(p)
        BY <2>2, <3>2 DEF Inj
      <4> QED BY <1>2, <4>1, SMTT(40)
    <3> QED BY <1>3, <3>1, <3>2
  <2> QED BY <1>3, <2>1, <2>2
<1>6. Elems(p \o q) = Elems(p) \cup Elems(q)
  <2>1. \A b \in Elems(p \o q) : b \in Elems(p) \cup Elems(q)
    BY <1>1, <1>3, <1>4, SMTT(40) DEF Elems
  <2>2. \A i \in 1 .. Len(p) : i \in 1 .. Len(p) + Len(q) /\ (p \o q)[i] = p[i]
    BY <1>2, SMTT(40)
  <2>3. \A i \in 1 .. Len(q) : Len(p) + i \in 1 .. Len(p) + Len(q)
                               /\ (p \o q)[Len(p) + i] = q[i]
    BY <1>2, SMTT(40)
  <2>4. \A b \in Elems(p) : b \in Elems(p \o q)
    BY <1>1, <2>2 DEF Elems
  <2>5. \A b \in Elems(q) : b \in Elems(p \o q)
    BY <1>1, <2>3 DEF Elems
  <2> QED BY <2>1, <2>4, <2>5
<1> QED BY <1>1, <1>5, <1>6

\* One more element behind a sequence of different ones.
LEMMA InjAppend ==
  ASSUME NEW S, NEW q \in Seq(S), NEW b \in S, Inj(q), b \notin Elems(q)
  PROVE  /\ Append(q, b) \in Seq(S)
         /\ Len(Append(q, b)) = Len(q) + 1
         /\ Inj(Append(q, b))
         /\ Elems(Append(q, b)) = Elems(q) \cup {b}
<1>1. Append(q, b) \in Seq(S) /\ Len(Append(q, b)) = Len(q) + 1 /\ Len(q) \in Nat
  BY SMTT(40)
<1>2. /\ \A i \in 1 .. Len(q) : Append(q, b)[i] = q[i] /\ q[i] \in Elems(q)
      /\ Append(q, b)[Len(q) + 1] = b
  BY SMTT(40) DEF Elems
<1>3. \A i \in 1 .. Len(q) + 1 : i \in 1 .. Len(q) \/ i = Len(q) + 1
  BY <1>1, SMTT(40)
<1>4. Inj(Append(q, b))
  BY <1>1, <1>2, <1>3 DEF Inj
<1>5. \A x \in Elems(Append(q, b)) : x \in Elems(q) \cup {b}
  BY <1>1, <1>2, <1>3 DEF Elems
<1>6. \A x \in Elems(q) : x \in Elems(Append(q, b))
  <2>1. \A i \in 1 .. Len(q) : i \in 1 .. Len(q) + 1
    BY <1>1, SMTT(40)
  <2> QED BY <1>1, <1>2, <2>1 DEF Elems
<1>7. b \in Elems(Append(q, b))
  <2>1. Len(q) + 1 \in 1 .. Len(q) + 1
    BY <1>1, SMTT(40)
  <2> QED BY <1>1, <1>2, <2>1 DEF Elems
<1> QED BY <1>1, <1>4, <1>5, <1>6, <1>7

\* The first r elements of q, and the others.
SplitAt(S, q, r) ==
  /\ SubSeq(q, 1, r) \in Seq(S)
  /\ Len(SubSeq(q, 1, r)) = r
  /\ Inj(SubSeq(q, 1, r))
  /\ Elems(SubSeq(q, 1, r)) = Firsts(q, r)
  /\ SubSeq(q, r + 1, Len(q)) \in Seq(S)
  /\ Len(SubSeq(q, r + 1, Len(q))) = Len(q) - r
  /\ Inj(SubSeq(q, r + 1, Len(q)))
  /\ Elems(SubSeq(q, r + 1, Len(q))) = Elems(q) \ Firsts(q, r)
  /\ Firsts(q, r) \subseteq Elems(q)

\* A sequence without repetitions is split into two.
LEMMA InjParts ==
  ASSUME NEW S, NEW q \in Seq(S), Inj(q), NEW r \in 0 .. Len(q)
  PROVE  SplitAt(S, q, r)
<1> DEFINE a == SubSeq(q, 1, r)
           z == SubSeq(q, r + 1, Len(q))
           m == Len(q)
<1>0. m \in Nat
  BY SMTT(40)
<1>1. a \in Seq(S) /\ Len(a) = r /\ \A i \in 1 .. r : a[i] = q[i]
  BY SMTT(40)
<1>2. z \in Seq(S) /\ Len(z) = m - r /\ \A i \in 1 .. m - r : z[i] = q[r + i]
  BY SMTT(40)
<1>3. Inj(q) /\ Elems(q) = {q[i] : i \in 1 .. m}
  BY DEF Elems
<1>4. \A i, j \in 1 .. m : q[i] = q[j] => i = j
  BY DEF Inj
<1>5. \A i \in 1 .. r : i \in 1 .. m
  BY <1>0, SMTT(40)
<1>6. \A i \in 1 .. m - r : r + i \in 1 .. m
  BY <1>0, SMTT(40)
<1> HIDE DEF a, z, m
<1>7. Inj(a)
  BY <1>1, <1>4, <1>5 DEF Inj
<1>8. Elems(a) = {q[i] : i \in 1 .. r}
  BY <1>1 DEF Elems
<1>9. Inj(z)
  <2> SUFFICES ASSUME NEW i \in 1 .. m - r, NEW j \in 1 .. m - r, z[i] = z[j]
               PROVE  i = j
    BY <1>2 DEF Inj
  <2>1. r + i = r + j
    BY <1>2, <1>4, <1>6
  <2> QED BY <2>1, SMTT(40)
<1>10. {q[i] : i \in 1 .. r} \subseteq Elems(q)
  BY <1>3, <1>5
<1>11. ASSUME NEW b \in Elems(z) PROVE b \in Elems(q) \ {q[i] : i \in 1 .. r}
  <2>1. PICK i \in 1 .. m - r : b = q[r + i]
    BY <1>2 DEF Elems
  <2>2. \A j \in 1 .. r : j # r + i
    BY SMTT(40)
  <2> QED BY <1>3, <1>4, <1>5, <1>6, <2>1, <2>2
<1>12. ASSUME NEW b \in Elems(q), b \notin {q[i] : i \in 1 .. r} PROVE b \in Elems(z)
  <2>1. PICK i \in 1 .. m : b = q[i]
    BY <1>3
  <2>2. i \notin 1 .. r
    BY <1>12, <2>1
  <2>3. i - r \in 1 .. m - r /\ r + (i - r) = i
    BY <1>0, <2>2, SMTT(40)
  <2>4. z[i - r] = b
    BY <1>2, <2>1, <2>3
  <2> QED BY <1>2, <2>3, <2>4 DEF Elems
<1>13. Elems(z) = Elems(q) \ {q[i] : i \in 1 .. r}
  BY <1>11, <1>12
<1> QED BY <1>1, <1>2, <1>7, <1>8, <1>9, <1>10, <1>13 DEF a, z, m, SplitAt, Firsts

\* The buffers with an outcome, by the recursion of Outcome.
OutcomeIs(f, s, out, what) ==
  f = [i \in 0 .. Len(s) |->
         IF i = 0 THEN << >>
         ELSE IF out[s[i]] = what THEN Append(f[i - 1], s[i])
         ELSE f[i - 1]]

LEMMA OutcomeExists ==
  ASSUME NEW S, NEW s \in Seq(S), NEW out, NEW what
  PROVE  \E f : OutcomeIs(f, s, out, what)
<1> DEFINE m == Len(s)
           P(f, i) == /\ f[0] = << >>
                      /\ \A j \in 1 .. i :
                           f[j] = IF out[s[j]] = what THEN Append(f[j - 1], s[j])
                                  ELSE f[j - 1]
           T == {i \in 0 .. m : \E f \in [0 .. i -> Seq(S)] : P(f, i)}
<1>1. m \in Nat /\ \A j \in 1 .. m : s[j] \in S
  BY SMTT(40)
<1>2. 0 \in T
  <2> DEFINE z == [j \in 0 .. 0 |-> << >>]
  <2>1. P(z, 0) /\ z \in [0 .. 0 -> Seq(S)] /\ 0 \in 0 .. m
    BY <1>1, SMTT(40)
  <2> HIDE DEF P, z
  <2> QED BY <2>1
<1>3. ASSUME NEW i \in 0 .. m - 1, i \in T PROVE i + 1 \in T
  <2>1. PICK f \in [0 .. i -> Seq(S)] : P(f, i)
    BY <1>3
  <2> DEFINE last == IF out[s[i + 1]] = what THEN Append(f[i], s[i + 1]) ELSE f[i]
             g == [j \in 0 .. i + 1 |-> IF j <= i THEN f[j] ELSE last]
  <2>2. last \in Seq(S)
    <3>1. f[i] \in Seq(S) /\ s[i + 1] \in S
      BY <1>1, SMTT(40)
    <3> QED BY <3>1, SMTT(40)
  <2>3. g \in [0 .. i + 1 -> Seq(S)]
    <3> HIDE DEF last
    <3> QED BY <2>2, SMTT(40)
  <2>4. /\ \A j \in 0 .. i : g[j] = f[j]
        /\ g[i + 1] = last
    <3> HIDE DEF last
    <3> QED BY SMTT(40)
  <2> HIDE DEF g
  <2>5. g[0] = << >>
    BY <2>1, <2>4, SMTT(40)
  <2>6. ASSUME NEW j \in 1 .. i + 1
        PROVE  g[j] = IF out[s[j]] = what THEN Append(g[j - 1], s[j]) ELSE g[j - 1]
    <3>1. j - 1 \in 0 .. i /\ g[j - 1] = f[j - 1]
      BY <2>4, SMTT(40)
    <3>2. CASE j \in 1 .. i
      <4>1. f[j] = IF out[s[j]] = what THEN Append(f[j - 1], s[j]) ELSE f[j - 1]
        <5>1. \A x \in 1 .. i :
                f[x] = IF out[s[x]] = what THEN Append(f[x - 1], s[x]) ELSE f[x - 1]
          BY <2>1
        <5> QED BY <3>2, <5>1
      <4>2. g[j] = f[j]
        BY <2>4, <3>2, SMTT(40)
      <4> QED BY <3>1, <4>1, <4>2
    <3>3. CASE j = i + 1
      <4>1. j - 1 = i
        BY <3>3, SMTT(40)
      <4> QED BY <2>4, <3>1, <3>3, <4>1
    <3> QED BY <3>2, <3>3, SMTT(40)
  <2>7. P(g, i + 1)
    BY <2>5, <2>6
  <2>8. i + 1 \in 0 .. m
    BY <1>1, SMTT(40)
  <2> HIDE DEF P
  <2> QED BY <2>3, <2>7, <2>8
<1>4. m \in T
  <2> HIDE DEF T, m
  <2>1. 0 .. m \subseteq T
    BY <1>1, <1>2, <1>3, Induct
  <2> QED BY <1>1, <2>1, SMTT(40)
<1>5. PICK f \in [0 .. m -> Seq(S)] : P(f, m)
  BY <1>4
<1>6. \A i \in 0 .. m : f[i] = IF i = 0 THEN << >>
                               ELSE IF out[s[i]] = what THEN Append(f[i - 1], s[i])
                               ELSE f[i - 1]
  <2>1. /\ f[0] = << >>
        /\ \A i \in 1 .. m : f[i] = IF out[s[i]] = what THEN Append(f[i - 1], s[i])
                                   ELSE f[i - 1]
    BY <1>5
  <2>2. \A i \in 0 .. m : i = 0 \/ (i \in 1 .. m /\ i # 0)
    <3> HIDE DEF m
    <3> QED BY <1>1, SMTT(40)
  <2> QED BY <2>1, <2>2
<1>7. OutcomeIs(f, s, out, what)
  <2> HIDE DEF P
  <2> QED BY <1>5, <1>6 DEF OutcomeIs
<1> QED BY <1>7

\* Outcome keeps the order, and so what makes its result a sequence of
\* different buffers.
LEMMA OutcomeOf ==
  ASSUME NEW S, NEW s \in Seq(S), Inj(s), NEW out, NEW what
  PROVE  /\ Outcome(s, out, what) \in Seq(S)
         /\ Len(Outcome(s, out, what)) <= Len(s)
         /\ Inj(Outcome(s, out, what))
         /\ Elems(Outcome(s, out, what)) = {b \in Elems(s) : out[b] = what}
<1> DEFINE f == CHOOSE g : OutcomeIs(g, s, out, what)
           m == Len(s)
           Had(i) == {b \in {s[j] : j \in 1 .. i} : out[b] = what}
           Good(i) == /\ f[i] \in Seq(S)
                      /\ Len(f[i]) <= i
                      /\ Inj(f[i])
                      /\ Elems(f[i]) = Had(i)
           T == {i \in 0 .. m : Good(i)}
<1>1. OutcomeIs(f, s, out, what)
  BY OutcomeExists
<1>2. Outcome(s, out, what) = f[m]
  BY DEF Outcome, OutcomeIs
<1>3. m \in Nat /\ \A j \in 1 .. m : s[j] \in S
  BY SMTT(40)
<1> HIDE DEF f
<1>4. f[0] = << >>
  BY <1>1, <1>3, SMTT(40) DEF OutcomeIs
<1>5. \A i \in 1 .. m : f[i] = IF out[s[i]] = what THEN Append(f[i - 1], s[i])
                              ELSE f[i - 1]
  <2> SUFFICES ASSUME NEW i \in 1 .. m
               PROVE  f[i] = IF out[s[i]] = what THEN Append(f[i - 1], s[i])
                             ELSE f[i - 1]
    OBVIOUS
  <2>1. i \in 0 .. m /\ i # 0
    BY SMTT(40)
  <2> QED BY <1>1, <2>1 DEF OutcomeIs
<1>6. 0 \in T
  <2>1. << >> \in Seq(S) /\ Len(<< >>) = 0
    BY SMTT(40)
  <2>2. Inj(<< >>) /\ Elems(<< >>) = {}
    BY <2>1, SMTT(40) DEF Inj, Elems
  <2>3. Had(0) = {}
    BY SMTT(40)
  <2>4. Good(0)
    BY <1>4, <2>1, <2>2, <2>3, SMTT(40)
  <2> HIDE DEF Good
  <2> QED BY <1>3, <2>4, SMTT(40)
<1>7. ASSUME NEW i \in 0 .. m - 1, i \in T PROVE i + 1 \in T
  <2>1. i + 1 \in 1 .. m /\ (i + 1) - 1 = i /\ i \in Nat
    BY <1>3, SMTT(40)
  <2> DEFINE b == s[i + 1]
  <2>2. b \in S /\ b \notin {s[j] : j \in 1 .. i}
    <3>1. \A j \in 1 .. i : j \in 1 .. m /\ j # i + 1
      BY <1>3, SMTT(40)
    <3> QED BY <1>3, <2>1, <3>1 DEF Inj
  <2>3. f[i + 1] = IF out[b] = what THEN Append(f[i], b) ELSE f[i]
    BY <1>5, <2>1
  <2>4. {s[j] : j \in 1 .. i + 1} = {s[j] : j \in 1 .. i} \cup {b}
    <3>1. \A j \in 1 .. i + 1 : j \in 1 .. i \/ j = i + 1
      BY SMTT(40)
    <3>2. \A j \in 1 .. i : j \in 1 .. i + 1
      BY SMTT(40)
    <3>3. i + 1 \in 1 .. i + 1
      BY SMTT(40)
    <3> QED BY <3>1, <3>2, <3>3
  <2> HIDE DEF b
  <2>5. Good(i)
    BY <1>7
  <2>6. CASE out[b] = what
    <3>1. b \notin Elems(f[i])
      BY <2>2, <2>5
    <3>2. /\ Append(f[i], b) \in Seq(S)
          /\ Len(Append(f[i], b)) = Len(f[i]) + 1
          /\ Inj(Append(f[i], b))
          /\ Elems(Append(f[i], b)) = Elems(f[i]) \cup {b}
      BY <2>2, <2>5, <3>1, InjAppend, SMTT(40)
    <3>3. Had(i + 1) = Had(i) \cup {b}
      BY <2>4, <2>6
    <3>4. f[i + 1] = Append(f[i], b)
      BY <2>3, <2>6
    <3>5. Len(f[i]) \in Nat /\ Len(f[i]) <= i
      BY <2>5, SMTT(40)
    <3>6. Len(f[i + 1]) <= i + 1
      BY <2>1, <3>2, <3>4, <3>5, SMTT(40)
    <3>7. Elems(f[i + 1]) = Had(i + 1)
      BY <2>5, <3>2, <3>3, <3>4
    <3>8. Good(i + 1)
      BY <3>2, <3>4, <3>6, <3>7
    <3> HIDE DEF Good
    <3> QED BY <2>1, <3>8, SMTT(40)
  <2>7. CASE out[b] # what
    <3>1. Had(i + 1) = Had(i)
      BY <2>4, <2>7
    <3>2. f[i + 1] = f[i]
      BY <2>3, <2>7
    <3>3. Len(f[i]) \in Nat /\ Len(f[i]) <= i
      BY <2>5, SMTT(40)
    <3>4. Len(f[i + 1]) <= i + 1
      BY <2>1, <3>2, <3>3, SMTT(40)
    <3>5. Good(i + 1)
      BY <2>5, <3>1, <3>2, <3>4
    <3> HIDE DEF Good
    <3> QED BY <2>1, <3>5, SMTT(40)
  <2> QED BY <2>6, <2>7
<1>8. m \in T
  <2> HIDE DEF T, m
  <2>1. 0 .. m \subseteq T
    BY <1>3, <1>6, <1>7, Induct
  <2> QED BY <1>3, <2>1, SMTT(40)
<1>9. Good(m)
  BY <1>8
<1>10. Had(m) = {b \in Elems(s) : out[b] = what}
  BY DEF Elems
<1> QED BY <1>2, <1>9, <1>10

-----------------------------------------------------------------------------
(* Counting *)

\* As many buffers as positions, when no position repeats another.
LEMMA ElemsCount ==
  ASSUME NEW S, NEW q \in Seq(S), Inj(q)
  PROVE  IsFiniteSet(Elems(q)) /\ Cardinality(Elems(q)) = Len(q)
<1>1. Len(q) \in Nat
  BY SMTT(40)
<1> DEFINE f == [i \in 1 .. Len(q) |-> q[i]]
<1>2. f \in [1 .. Len(q) -> Elems(q)]
  BY DEF Elems
<1>3. f \in Injection(1 .. Len(q), Elems(q))
  BY <1>2 DEF Injection, IsInjective, Inj
<1>4. f \in Surjection(1 .. Len(q), Elems(q))
  BY <1>2 DEF Surjection, Elems
<1>5. ExistsBijection(1 .. Len(q), Elems(q))
  BY <1>3, <1>4 DEF ExistsBijection, Bijection
<1>6. IsFiniteSet(1 .. Len(q)) /\ Cardinality(Elems(q)) = Len(q)
  BY <1>1, <1>5, FS_CountingElements, FS_Interval, SMTT(40)
<1> QED BY <1>5, <1>6, FS_Bijection

LEMMA RingCount ==
  ASSUME NEW c, NEW h, NEW k \in Nat, RingInj(c, h, k)
  PROVE  IsFiniteSet(RingSet(c, h, k)) /\ Cardinality(RingSet(c, h, k)) = k
<1> DEFINE f == [i \in 1 .. k |-> c[Mask(h + (i - 1))]]
           R == RingSet(c, h, k)
<1>0. \A i \in 1 .. k : i - 1 \in 0 .. k - 1
  BY SMTT(40)
<1>1. f \in [1 .. k -> R]
  BY <1>0 DEF RingSet
<1>2. \A i, j \in 1 .. k : f[i] = f[j] => i = j
  <2> SUFFICES ASSUME NEW i \in 1 .. k, NEW j \in 1 .. k, f[i] = f[j] PROVE i = j
    OBVIOUS
  <2>1. i - 1 = j - 1
    BY <1>0 DEF RingInj
  <2> QED BY <2>1, SMTT(40)
<1>3. f \in Injection(1 .. k, R)
  <2> HIDE DEF f
  <2> QED BY <1>1, <1>2 DEF Injection, IsInjective
<1>4. ASSUME NEW b \in R PROVE \E i \in 1 .. k : f[i] = b
  <2>1. PICK i \in 0 .. k - 1 : b = c[Mask(h + i)]
    BY DEF RingSet
  <2>2. i + 1 \in 1 .. k /\ (i + 1) - 1 = i
    BY SMTT(40)
  <2>3. f[i + 1] = b
    BY <2>1, <2>2
  <2> QED BY <2>2, <2>3
<1>5. f \in Surjection(1 .. k, R)
  <2> HIDE DEF f, R
  <2> QED BY <1>1, <1>4 DEF Surjection
<1>6. ExistsBijection(1 .. k, R)
  BY <1>3, <1>5 DEF ExistsBijection, Bijection
<1>7. IsFiniteSet(1 .. k) /\ Cardinality(R) = k
  BY <1>6, FS_CountingElements, FS_Interval, SMTT(40)
<1> QED BY <1>6, <1>7, FS_Bijection

\* Some elements of a sequence are no more than the positions they come from.
LEMMA FirstCount ==
  ASSUME NEW q, NEW r \in Nat
  PROVE  /\ IsFiniteSet({q[i] : i \in 1 .. r})
         /\ Cardinality({q[i] : i \in 1 .. r}) \in Nat
         /\ Cardinality({q[i] : i \in 1 .. r}) <= r
<1> DEFINE f == [i \in 1 .. r |-> q[i]]
           R == {q[i] : i \in 1 .. r}
<1>1. f \in Surjection(1 .. r, R)
  BY DEF Surjection
<1>2. IsFiniteSet(1 .. r) /\ Cardinality(1 .. r) = r
  BY FS_Interval, SMTT(40)
<1> HIDE DEF f, R
<1>3. IsFiniteSet(R) /\ Cardinality(R) <= r
  BY <1>1, <1>2, FS_Surjection, SMTT(40)
<1> QED BY <1>3, FS_CardinalityType DEF R

-----------------------------------------------------------------------------
(* The invariant *)

\* The sets c, p, t, d, a, b and l have no buffer in common and are all of u.
Parts(c, p, t, d, a, b, l, u) ==
  /\ c \cup p \cup t \cup d \cup a \cup b \cup l = u
  /\ c \cap p = {}
  /\ t \cap (c \cup p) = {}
  /\ d \cap (c \cup p \cup t) = {}
  /\ a \cap (c \cup p \cup t \cup d) = {}
  /\ b \cap (c \cup p \cup t \cup d \cup a) = {}
  /\ l \cap (c \cup p \cup t \cup d \cup a \cup b) = {}

\* The cache: k slots from h on are in use, with different buffers.
CacheOk(c, h, k) ==
  /\ c \in [Slots -> Bufs]
  /\ h \in Slots
  /\ k \in 0 .. TX_CACHE_SIZE
  /\ RingInj(c, h, k)

\* The batch.
BatchOk(q) == q \in Seq(Bufs) /\ Inj(q) /\ Len(q) <= TXBUF_SIZE

IInv ==
  /\ scarce \in BOOLEAN
  /\ CacheOk(cache, head, n)
  /\ BatchOk(tx)
  /\ Parts(RingSet(cache, head, n), pool, Elems(tx), nic, away, back, lost, Bufs)
  /\ Cardinality(nic) <= NicSize
  /\ Cardinality(away \cup back) <= MaxAway
  /\ Cardinality(lost) <= MaxLost

LEMMA BatchRoom ==
  ASSUME BatchOk(tx)
  PROVE  /\ tx \in Seq(Bufs) /\ Inj(tx)
         /\ Len(tx) \in Nat /\ TXBUF_SIZE \in Nat /\ Len(tx) <= TXBUF_SIZE
         /\ Free = TXBUF_SIZE - Len(tx)
BY MbufsAssumption, SMTT(40) DEF BatchOk, Free

\* The buffers are finitely many.
LEMMA BufsFinite == IsFiniteSet(Bufs) /\ \A s \in SUBSET Bufs : IsFiniteSet(s)
<1> DEFINE m == IF scarce THEN NScarce ELSE NBufs
<1>0. m \in Nat
  BY MbufsAssumption
<1>1. IsFiniteSet(Bufs)
  <2> HIDE DEF m
  <2>1. IsFiniteSet(1 .. m)
    BY <1>0, FS_Interval, SMTT(40)
  <2> QED BY <2>1 DEF Bufs, m
<1> QED BY <1>1, FS_Subset

-----------------------------------------------------------------------------
(* txcache_alloc *)

\* What txcache_alloc of num buffers gives: the buffers of new come from the
\* pool, have slots are in use then, and got of them are taken, from the head
\* on.
AllocOk(a, num, c2, have, got, new) ==
  /\ new \subseteq pool
  /\ CacheOk(c2, head, have)
  /\ RingSet(c2, head, have) = RingSet(cache, head, n) \cup new
  /\ got \in 0 .. have
  /\ got <= num
  /\ head + got <= TX_CACHE_SIZE
  /\ a.cache = c2
  /\ a.pool = pool \ new
  /\ a.head = Mask(head + got)
  /\ a.n = have - got
  /\ a.mbs \in [1 .. got -> Bufs]
  /\ \A i \in 1 .. got : a.mbs[i] = c2[Mask(head + (i - 1))]
  /\ a.first = c2[Mask(head + 0)]
  /\ num >= 1 /\ (n >= 1 \/ Cardinality(pool) >= TX_CACHE_SIZE) => got >= 1

\* The pieces are no larger than the room and no larger than the pool.
LEMMA GrowthFits ==
  ASSUME n \in 0 .. TX_CACHE_SIZE, head \in Slots, Cardinality(pool) \in Nat
  PROVE  /\ Growth \in 0 .. TX_CACHE_SIZE - n
         /\ Growth <= Cardinality(pool)
         /\ Cardinality(pool) >= TX_CACHE_SIZE - n => Growth = TX_CACHE_SIZE - n
<1> DEFINE L == TX_CACHE_SIZE
           tail == Mask(head + n)
           room == Cardinality(pool)
           piece == Lower(L - n, L - tail)
<1>0. L \in Nat \ {0} /\ head \in 0 .. L - 1 /\ n \in 0 .. L /\ room \in Nat
  BY MbufsAssumption DEF Slots
<1>1. tail \in 0 .. L - 1
  BY <1>0, MaskCases, SMTT(40)
<1>2. Growth = IF room >= L - n THEN L - n ELSE IF room >= piece THEN piece ELSE 0
  BY DEF Growth
<1> HIDE DEF L, tail, room
<1>3. piece \in 0 .. L - n
  BY <1>0, <1>1, SMTT(40) DEF Lower
<1> HIDE DEF piece
<1>4. Growth \in 0 .. L - n /\ Growth <= room /\ (room >= L - n => Growth = L - n)
  BY <1>0, <1>2, <1>3, SMTT(40)
<1> QED BY <1>4 DEF L, room

\* Seen from behind the k slots in use from h on, those slots come last, and
\* the next m come first.
LEMMA SlotsBehind ==
  \A h \in Slots : \A k \in 0 .. TX_CACHE_SIZE : \A m \in 0 .. TX_CACHE_SIZE - k :
    /\ \A x \in Slots : Mask(x - h - k) \in 0 .. TX_CACHE_SIZE - 1
    /\ \A i \in 0 .. k - 1 : /\ Mask(h + i) \in Slots
                             /\ ~ (Mask(Mask(h + i) - h - k) < m)
    /\ \A i \in 0 .. m - 1 : /\ Mask(h + (k + i)) \in Slots
                             /\ Mask(Mask(h + (k + i)) - h - k) = i
<1> DEFINE L == TX_CACHE_SIZE
<1> SUFFICES ASSUME NEW h \in Slots, NEW k \in 0 .. L, NEW m \in 0 .. L - k
             PROVE  /\ \A x \in Slots : Mask(x - h - k) \in 0 .. L - 1
                    /\ \A i \in 0 .. k - 1 : /\ Mask(h + i) \in Slots
                                             /\ ~ (Mask(Mask(h + i) - h - k) < m)
                    /\ \A i \in 0 .. m - 1 : /\ Mask(h + (k + i)) \in Slots
                                             /\ Mask(Mask(h + (k + i)) - h - k) = i
  OBVIOUS
<1>0. L \in Nat \ {0} /\ h \in 0 .. L - 1 /\ Slots = 0 .. L - 1
  BY MbufsAssumption DEF Slots
<1>1. \A x \in Int : 0 - 2 * L <= x /\ x < 2 * L
        => /\ Mask(x) \in 0 .. L - 1
           /\ \/ Mask(x) = x + 2 * L \/ Mask(x) = x + L
              \/ Mask(x) = x \/ Mask(x) = x - L
  BY MaskCases
<1> HIDE DEF L
<1>2. \A x \in Slots : Mask(x - h - k) \in 0 .. L - 1
  BY <1>0, <1>1, SMTT(40)
<1>3. ASSUME NEW i \in 0 .. k - 1
      PROVE  Mask(h + i) \in Slots /\ ~ (Mask(Mask(h + i) - h - k) < m)
  <2>1. PICK x : x = Mask(h + i)
    OBVIOUS
  <2>2. x \in 0 .. L - 1 /\ (x = h + i \/ x = (h + i) - L)
    BY <1>0, <1>1, <2>1, SMTT(40)
  <2>3. ~ (Mask(x - h - k) < m)
    BY <1>0, <1>1, <2>2, SMTT(40)
  <2> QED BY <1>0, <2>1, <2>2, <2>3
<1>4. ASSUME NEW i \in 0 .. m - 1
      PROVE  Mask(h + (k + i)) \in Slots /\ Mask(Mask(h + (k + i)) - h - k) = i
  <2>1. PICK x : x = Mask(h + (k + i))
    OBVIOUS
  <2>2. x \in 0 .. L - 1 /\ (x = h + (k + i) \/ x = (h + (k + i)) - L)
    BY <1>0, <1>1, <2>1, SMTT(40)
  <2>3. Mask(x - h - k) = i
    BY <1>0, <1>1, <2>2, SMTT(40)
  <2> QED BY <1>0, <2>1, <2>2, <2>3
<1> QED BY <1>2, <1>3, <1>4

\* Writing the m buffers of q into the slots behind those in use.
Filled(m, q) ==
  [k \in Slots |-> IF Mask(k - head - n) < m
                   THEN q[Mask(k - head - n) + 1] ELSE cache[k]]

LEMMA FillStep ==
  ASSUME CacheOk(cache, head, n), NEW m \in 0 .. TX_CACHE_SIZE - n,
         NEW q, q \in [1 .. m -> Bufs], NewTo(q, m, cache, head, n)
  PROVE  /\ CacheOk(Filled(m, q), head, n + m)
         /\ RingSet(Filled(m, q), head, n + m)
              = RingSet(cache, head, n) \cup {q[i] : i \in 1 .. m}
<1> DEFINE L == TX_CACHE_SIZE
           c2 == Filled(m, q)
<1>0. /\ L \in Nat \ {0} /\ head \in Slots /\ n \in 0 .. L /\ m \in 0 .. L - n
      /\ cache \in [Slots -> Bufs] /\ RingInj(cache, head, n)
  BY MbufsAssumption DEF CacheOk
<1>1. /\ \A x \in Slots : Mask(x - head - n) \in 0 .. L - 1
      /\ \A i \in 0 .. n - 1 : /\ Mask(head + i) \in Slots
                               /\ ~ (Mask(Mask(head + i) - head - n) < m)
      /\ \A i \in 0 .. m - 1 : /\ Mask(head + (n + i)) \in Slots
                               /\ Mask(Mask(head + (n + i)) - head - n) = i
  BY <1>0, SlotsBehind
<1>2. \A k \in Slots : c2[k] = IF Mask(k - head - n) < m
                               THEN q[Mask(k - head - n) + 1] ELSE cache[k]
  BY DEF Filled
<1>3. ASSUME NEW k \in Slots PROVE c2[k] \in Bufs
  <2>1. PICK x : x = Mask(k - head - n)
    OBVIOUS
  <2>2. x \in 0 .. L - 1
    BY <1>1, <2>1
  <2>3. x < m => x + 1 \in 1 .. m
    BY <1>0, <2>2, SMTT(40)
  <2>4. c2[k] = IF x < m THEN q[x + 1] ELSE cache[k]
    BY <1>2, <2>1
  <2>5. cache[k] \in Bufs
    BY <1>0
  <2>6. x + 1 \in 1 .. m => q[x + 1] \in Bufs
    OBVIOUS
  <2> HIDE DEF c2
  <2> QED BY <2>3, <2>4, <2>5, <2>6
<1>4. c2 \in [Slots -> Bufs]
  BY <1>3 DEF Filled
<1> HIDE DEF c2
<1>5. \A i \in 0 .. n - 1 : c2[Mask(head + i)] = cache[Mask(head + i)]
  BY <1>1, <1>2
<1>6. ASSUME NEW i \in 0 .. m - 1 PROVE c2[Mask(head + (n + i))] = q[i + 1]
  <2>1. PICK k \in Slots : k = Mask(head + (n + i))
    BY <1>1
  <2>2. Mask(k - head - n) = i /\ i < m
    BY <1>0, <1>1, <2>1, SMTT(40)
  <2> QED BY <1>2, <2>1, <2>2
<1>7. \A i \in 0 .. m - 1 : c2[Mask(head + (n + i))] = q[i + 1]
  BY <1>6
<1>8. n \in Nat /\ m \in Nat /\ n + m \in 0 .. L
  BY <1>0, SMTT(40)
<1>9. /\ RingInj(c2, head, n + m)
      /\ RingSet(c2, head, n + m) = RingSet(cache, head, n) \cup Firsts(q, m)
  <2>1. Behind(c2, cache, head, n, q, m)
    BY <1>5, <1>7 DEF Behind
  <2>2. RingInj(cache, head, n) /\ NewTo(q, m, cache, head, n)
    BY <1>0
  <2>3. Extended(c2, head, cache, head, n, q, m)
    BY <1>8, <2>1, <2>2, RingGrow
  <2> QED BY <2>3 DEF Extended
<1> QED BY <1>0, <1>4, <1>8, <1>9 DEF CacheOk, c2, L, Firsts

LEMMA AllocStep ==
  ASSUME IInv, NEW num \in Nat
  PROVE  \E c2, have, got, new : AllocOk(Alloc(num), num, c2, have, got, new)
<1> DEFINE L == TX_CACHE_SIZE
           room == Cardinality(pool)
           added == IF n < num THEN Growth ELSE 0
           q == Some(pool, added)
           new == {q[i] : i \in 1 .. added}
           c2 == Filled(added, q)
           have == n + added
           got == Lower(num, IF head + have <= L THEN have ELSE L - head)
           mbs == [i \in 1 .. got |-> c2[head + i - 1]]
<1>1. /\ CacheOk(cache, head, n)
      /\ pool \subseteq Bufs
      /\ pool \cap RingSet(cache, head, n) = {}
  BY DEF IInv, Parts
<1>2. /\ L \in Nat \ {0} /\ head \in Slots /\ Slots = 0 .. L - 1 /\ head \in 0 .. L - 1
      /\ n \in 0 .. L
  BY <1>1, MbufsAssumption DEF CacheOk, Slots
<1>3. IsFiniteSet(pool) /\ room \in Nat
  BY <1>1, BufsFinite, FS_CardinalityType
<1>4. /\ Growth \in 0 .. L - n
      /\ Growth <= room
      /\ room >= L - n => Growth = L - n
  BY <1>2, <1>3, GrowthFits
<1>5. Alloc(num) = [cache |-> c2, pool |-> pool \ Range(q), head |-> Mask(head + got),
                    n |-> have - got, mbs |-> mbs, first |-> c2[head]]
  BY DEF Alloc, Filled
<1>6. /\ added \in 0 .. L - n
      /\ added <= room
      /\ num >= 1 /\ n = 0 /\ room >= L => added = L
  <2> HIDE DEF L, room
  <2> QED BY <1>2, <1>3, <1>4, SMTT(40)
<1> HIDE DEF added
<1>7. added \in Nat
  BY <1>2, <1>6, SMTT(40)
<1>8. q \in [1 .. added -> pool] /\ \A i, j \in 1 .. added : q[i] = q[j] => i = j
  BY <1>3, <1>6, <1>7, SomeOf
<1> HIDE DEF q
<1>9. Range(q) = new /\ new \subseteq pool
  BY <1>8 DEF Range
<1>10. NewTo(q, added, cache, head, n)
  BY <1>1, <1>8 DEF NewTo
<1>11. q \in [1 .. added -> Bufs]
  BY <1>1, <1>8
<1>12. /\ CacheOk(c2, head, have)
       /\ RingSet(c2, head, have) = RingSet(cache, head, n) \cup new
  BY <1>1, <1>6, <1>10, <1>11, FillStep
<1> HIDE DEF c2
<1>13. /\ have \in 0 .. L
       /\ got \in 0 .. have
       /\ got <= num
       /\ head + got <= L
       /\ num >= 1 /\ (n >= 1 \/ room >= L) => got >= 1
  <2> HIDE DEF L, room
  <2>1. have \in 0 .. L
    BY <1>2, <1>6, SMTT(40)
  <2>2. num >= 1 /\ (n >= 1 \/ room >= L) => have >= 1
    BY <1>2, <1>6, SMTT(40)
  <2> HIDE DEF have
  <2>3. /\ got \in 0 .. have /\ got <= num /\ head + got <= L
        /\ num >= 1 /\ have >= 1 => got >= 1
    BY <1>2, <2>1, SMTT(40) DEF Lower
  <2> HIDE DEF got
  <2> QED BY <2>1, <2>2, <2>3
<1> HIDE DEF have, got
<1>14. \A i \in 1 .. got : head + i - 1 \in Slots /\ Mask(head + (i - 1)) = head + i - 1
  <2>1. \A i \in 1 .. got : head + (i - 1) \in 0 .. L - 1
    <3> HIDE DEF L
    <3> QED BY <1>2, <1>13, SMTT(40)
  <2> QED BY <1>2, <2>1, MaskNear, SMTT(40)
<1>15. Mask(head + 0) = head
  BY <1>2, MaskNear, SMTT(40)
<1>16. c2 \in [Slots -> Bufs]
  BY <1>12 DEF CacheOk
<1>17. /\ mbs \in [1 .. got -> Bufs]
       /\ \A i \in 1 .. got : mbs[i] = c2[Mask(head + (i - 1))]
  BY <1>14, <1>16
<1> HIDE DEF mbs, new
<1>18. AllocOk(Alloc(num), num, c2, have, got, new)
  BY <1>5, <1>9, <1>12, <1>13, <1>15, <1>17, SMTT(40) DEF AllocOk
<1> QED BY <1>18

-----------------------------------------------------------------------------
(* txcache_free *)

\* Seen from the slot in front of h, going down: the m slots that are taken
\* in front of h come first, and the k slots in use from h on come last.
LEMMA SlotsInFront ==
  \A h \in Slots : \A k \in 0 .. TX_CACHE_SIZE : \A m \in 0 .. TX_CACHE_SIZE - k :
    /\ Mask(h - m) \in Slots
    /\ \A x \in Slots : Mask(h - x - 1) \in 0 .. TX_CACHE_SIZE - 1
    /\ \A i \in 0 .. k - 1 : /\ Mask(Mask(h - m) + (m + i)) = Mask(h + i)
                             /\ Mask(h + i) \in Slots
                             /\ ~ (Mask(h - Mask(h + i) - 1) + 1 <= m)
    /\ \A i \in 0 .. m - 1 : /\ Mask(Mask(h - m) + i) \in Slots
                             /\ Mask(h - Mask(Mask(h - m) + i) - 1) + 1 = m - i
<1> DEFINE L == TX_CACHE_SIZE
<1> SUFFICES ASSUME NEW h \in Slots, NEW k \in 0 .. L, NEW m \in 0 .. L - k
             PROVE  /\ Mask(h - m) \in Slots
                    /\ \A x \in Slots : Mask(h - x - 1) \in 0 .. L - 1
                    /\ \A i \in 0 .. k - 1 : /\ Mask(Mask(h - m) + (m + i)) = Mask(h + i)
                                             /\ Mask(h + i) \in Slots
                                             /\ ~ (Mask(h - Mask(h + i) - 1) + 1 <= m)
                    /\ \A i \in 0 .. m - 1 : /\ Mask(Mask(h - m) + i) \in Slots
                                             /\ Mask(h - Mask(Mask(h - m) + i) - 1) + 1 = m - i
  OBVIOUS
<1>0. L \in Nat \ {0} /\ h \in 0 .. L - 1 /\ Slots = 0 .. L - 1
  BY MbufsAssumption DEF Slots
<1>1. \A x \in Int : 0 - 2 * L <= x /\ x < 2 * L
        => /\ Mask(x) \in 0 .. L - 1
           /\ \/ Mask(x) = x + 2 * L \/ Mask(x) = x + L
              \/ Mask(x) = x \/ Mask(x) = x - L
  BY MaskCases
<1> HIDE DEF L
<1>2. \A x \in Slots : Mask(h - x - 1) \in 0 .. L - 1
  BY <1>0, <1>1, SMTT(40)
<1>3. PICK g : g = Mask(h - m)
  OBVIOUS
<1>4. g \in 0 .. L - 1 /\ (g = h - m \/ g = (h - m) + L)
  BY <1>0, <1>1, <1>3, SMTT(40)
<1>5. ASSUME NEW i \in 0 .. k - 1
      PROVE  Mask(g + (m + i)) = Mask(h + i) /\ Mask(h + i) \in Slots
             /\ ~ (Mask(h - Mask(h + i) - 1) + 1 <= m)
  <2>1. PICK x : x = Mask(h + i)
    OBVIOUS
  <2>2. x \in 0 .. L - 1 /\ (x = h + i \/ x = (h + i) - L)
    BY <1>0, <1>1, <2>1, SMTT(40)
  <2>3. ~ (Mask(h - x - 1) + 1 <= m)
    <3>1. PICK y : y = Mask(h - x - 1)
      OBVIOUS
    <3>2. y \in 0 .. L - 1 /\ (y = h - x - 1 \/ y = (h - x - 1) + L)
      BY <1>0, <1>1, <2>2, <3>1, SMTT(40)
    <3>3. ~ (y + 1 <= m)
      BY <1>0, <2>2, <3>2, SMTT(40)
    <3> QED BY <3>1, <3>3
  <2>4. Mask(g + (m + i)) = x
    <3>1. Mask(g + (m + i)) \in 0 .. L - 1
          /\ (\/ Mask(g + (m + i)) = g + (m + i)
              \/ Mask(g + (m + i)) = (g + (m + i)) - L)
      BY <1>0, <1>1, <1>4, SMTT(40)
    <3> QED BY <1>0, <1>4, <2>2, <3>1, SMTT(40)
  <2> QED BY <1>0, <2>1, <2>2, <2>3, <2>4
<1>6. ASSUME NEW i \in 0 .. m - 1
      PROVE  Mask(g + i) \in Slots /\ Mask(h - Mask(g + i) - 1) + 1 = m - i
  <2>1. PICK x : x = Mask(g + i)
    OBVIOUS
  <2>2. x \in 0 .. L - 1 /\ (x = g + i \/ x = (g + i) - L)
    BY <1>0, <1>1, <1>4, <2>1, SMTT(40)
  <2>3. Mask(h - x - 1) = (m - i) - 1
    <3>1. PICK y : y = Mask(h - x - 1)
      OBVIOUS
    <3>2. y \in 0 .. L - 1 /\ (y = h - x - 1 \/ y = (h - x - 1) + L)
      BY <1>0, <1>1, <2>2, <3>1, SMTT(40)
    <3>3. y = (m - i) - 1
      BY <1>0, <1>4, <2>2, <3>2, SMTT(40)
    <3> QED BY <3>1, <3>3
  <2> QED BY <1>0, <2>1, <2>2, <2>3, SMTT(40)
<1> QED BY <1>0, <1>2, <1>3, <1>4, <1>5, <1>6

\* What txcache_free of the buffers s does: those of put are in the cache
\* then, the others in the pool.
FreedOk(r, s, put) ==
  /\ put \subseteq Elems(s)
  /\ CacheOk(r.cache, r.head, r.n)
  /\ RingSet(r.cache, r.head, r.n) = RingSet(cache, head, n) \cup put
  /\ r.pool = Elems(s) \ put

LEMMA FreedStep ==
  ASSUME CacheOk(cache, head, n), NEW s \in Seq(Bufs), Inj(s),
         Elems(s) \cap RingSet(cache, head, n) = {}
  PROVE  \E put : FreedOk(Freed(s), s, put)
<1> DEFINE L == TX_CACHE_SIZE
           m == Lower(Len(s), L - n)
           h2 == Mask(head - m)
           c2 == [k \in Slots |-> IF Mask(head - k - 1) + 1 <= m
                                  THEN s[Mask(head - k - 1) + 1] ELSE cache[k]]
           put == Firsts(s, m)
           rest == {s[i] : i \in m + 1 .. Len(s)}
<1>0. /\ L \in Nat \ {0} /\ head \in Slots /\ n \in 0 .. L
      /\ cache \in [Slots -> Bufs] /\ RingInj(cache, head, n)
  BY MbufsAssumption DEF CacheOk
<1>a. Len(s) \in Nat
  BY SMTT(40)
<1>1. Freed(s) = [cache |-> c2, head |-> h2, n |-> n + m, pool |-> rest]
  BY DEF Freed
<1>2. m \in 0 .. L - n /\ m \in 0 .. Len(s)
  <2> DEFINE len == Len(s)
  <2> HIDE DEF len, L
  <2>1. Lower(len, L - n) \in 0 .. L - n /\ Lower(len, L - n) \in 0 .. len
    BY <1>0, <1>a, SMTT(40) DEF Lower, len
  <2> QED BY <2>1 DEF len
<1> HIDE DEF m
<1>3. /\ h2 \in Slots
      /\ \A x \in Slots : Mask(head - x - 1) \in 0 .. L - 1
      /\ \A i \in 0 .. n - 1 : /\ Mask(h2 + (m + i)) = Mask(head + i)
                               /\ Mask(head + i) \in Slots
                               /\ ~ (Mask(head - Mask(head + i) - 1) + 1 <= m)
      /\ \A i \in 0 .. m - 1 : /\ Mask(h2 + i) \in Slots
                               /\ Mask(head - Mask(h2 + i) - 1) + 1 = m - i
  BY <1>0, <1>2, SlotsInFront
<1> HIDE DEF h2
<1>4. \A k \in Slots : c2[k] = IF Mask(head - k - 1) + 1 <= m
                               THEN s[Mask(head - k - 1) + 1] ELSE cache[k]
  OBVIOUS
<1>5. \A i \in 1 .. m : s[i] \in Bufs /\ i \in 1 .. Len(s)
  BY <1>2, SMTT(40)
<1>6. ASSUME NEW k \in Slots PROVE c2[k] \in Bufs
  <2>1. PICK x : x = Mask(head - k - 1)
    OBVIOUS
  <2>2. x \in 0 .. L - 1
    BY <1>3, <2>1
  <2>3. x + 1 <= m => x + 1 \in 1 .. m
    BY <1>0, <1>2, <2>2, SMTT(40)
  <2>4. c2[k] = IF x + 1 <= m THEN s[x + 1] ELSE cache[k]
    BY <1>4, <2>1
  <2>5. cache[k] \in Bufs
    BY <1>0
  <2> HIDE DEF c2
  <2> QED BY <1>5, <2>3, <2>4, <2>5
<1>7. c2 \in [Slots -> Bufs]
  BY <1>6
<1> HIDE DEF c2
<1>8. \A i \in 0 .. n - 1 : c2[Mask(h2 + (m + i))] = cache[Mask(head + i)]
  BY <1>3, <1>4
<1>9. ASSUME NEW i \in 0 .. m - 1 PROVE c2[Mask(h2 + i)] = s[m - i]
  <2>1. PICK k \in Slots : k = Mask(h2 + i)
    BY <1>3
  <2>2. Mask(head - k - 1) + 1 = m - i
    BY <1>3, <2>1
  <2>3. m - i <= m
    BY <1>2, SMTT(40)
  <2>4. c2[k] = s[m - i]
    BY <1>4, <2>2, <2>3
  <2> QED BY <2>1, <2>4
<1>10. InFront(c2, h2, cache, head, n, s, m)
  BY <1>8, <1>9 DEF InFront
<1>11. NewTo(s, m, cache, head, n)
  <2>1. \A i, j \in 1 .. m : s[i] = s[j] => i = j
    BY <1>5 DEF Inj
  <2>2. \A i \in 1 .. m : s[i] \in Elems(s)
    BY <1>5 DEF Elems
  <2> QED BY <2>1, <2>2 DEF NewTo
<1>12. n \in Nat /\ m \in Nat /\ n + m \in 0 .. L
  BY <1>0, <1>2, SMTT(40)
<1>13. /\ RingInj(c2, h2, n + m)
       /\ RingSet(c2, h2, n + m) = RingSet(cache, head, n) \cup put
  <2>1. Extended(c2, h2, cache, head, n, s, m)
    BY <1>0, <1>10, <1>11, <1>12, RingFront
  <2> QED BY <2>1 DEF Extended
<1>14. CacheOk(c2, h2, n + m)
  BY <1>3, <1>7, <1>12, <1>13 DEF CacheOk
<1>15. put \subseteq Elems(s)
  BY <1>5 DEF Elems, Firsts
<1>16. rest = Elems(s) \ put
  <2>1. \A i \in 1 .. Len(s) : i \in 1 .. m \/ i \in m + 1 .. Len(s)
    BY <1>a, <1>2, SMTT(40)
  <2>2. \A i \in m + 1 .. Len(s) : i \in 1 .. Len(s) /\ i \notin 1 .. m
    BY <1>a, <1>2, SMTT(40)
  <2>3. \A b \in Elems(s) \ put : b \in rest
    BY <2>1 DEF Elems, Firsts
  <2>4. ASSUME NEW b \in rest PROVE b \in Elems(s) \ put
    <3>1. PICK i \in m + 1 .. Len(s) : b = s[i]
      OBVIOUS
    <3>2. i \in 1 .. Len(s) /\ i \notin 1 .. m
      BY <2>2
    <3>3. \A j \in 1 .. m : s[j] # b
      BY <1>5, <3>1, <3>2 DEF Inj
    <3> QED BY <3>1, <3>2, <3>3 DEF Elems, Firsts
  <2> QED BY <2>3, <2>4
<1>17. FreedOk(Freed(s), s, put)
  <2> HIDE DEF put, rest
  <2> QED BY <1>1, <1>13, <1>14, <1>15, <1>16, SMTT(40) DEF FreedOk
<1> QED BY <1>17

-----------------------------------------------------------------------------
(* The transmit batch *)

\* What a flush does: the card has the packets of gone.
FlushOk(batch, gone) ==
  /\ gone \subseteq Elems(batch)
  /\ nic' = nic \cup gone
  /\ BatchOk(tx')
  /\ Elems(tx') = Elems(batch) \ gone
  /\ Cardinality(nic') <= NicSize

LEMMA FlushStep ==
  ASSUME NEW batch, BatchOk(batch), nic \in SUBSET Bufs, Cardinality(nic) <= NicSize,
         fast_txflush(batch)
  PROVE  \E gone : FlushOk(batch, gone)
<1>1. batch \in Seq(Bufs) /\ Inj(batch) /\ Len(batch) <= TXBUF_SIZE /\ Len(batch) \in Nat
  BY SMTT(40) DEF BatchOk
<1>2. IsFiniteSet(nic) /\ Cardinality(nic) \in Nat /\ NicSize \in Nat /\ TXBUF_SIZE \in Nat
  BY BufsFinite, FS_CardinalityType, MbufsAssumption
<1>3. PICK ret \in 0 .. Lower(Len(batch), NicSize - Cardinality(nic)) :
        /\ nic' = nic \cup {batch[i] : i \in 1 .. ret}
        /\ tx' = SubSeq(batch, ret + 1, Len(batch))
  BY DEF fast_txflush
<1>4. ret \in 0 .. Len(batch) /\ Cardinality(nic) + ret <= NicSize /\ ret \in Nat
  <2> DEFINE len == Len(batch)
             card == Cardinality(nic)
  <2>1. len \in Nat /\ card \in Nat /\ card <= NicSize /\ ret \in 0 .. Lower(len, NicSize - card)
    BY <1>1, <1>2
  <2> HIDE DEF len, card
  <2>2. ret \in 0 .. len /\ card + ret <= NicSize /\ ret \in Nat
    BY <1>2, <2>1, SMTT(40) DEF Lower
  <2> QED BY <2>2 DEF len, card
<1> DEFINE gone == {batch[i] : i \in 1 .. ret}
<1>5. /\ tx' \in Seq(Bufs)
      /\ Len(tx') = Len(batch) - ret
      /\ Inj(tx')
      /\ Elems(tx') = Elems(batch) \ gone
      /\ gone \subseteq Elems(batch)
  <2>1. SplitAt(Bufs, batch, ret)
    BY <1>1, <1>4, InjParts
  <2> QED BY <1>3, <2>1 DEF SplitAt, Firsts
<1>6. IsFiniteSet(gone) /\ Cardinality(gone) \in Nat /\ Cardinality(gone) <= ret
  BY <1>4, FirstCount
<1> HIDE DEF gone
<1>7. Len(tx') <= TXBUF_SIZE
  <2>1. PICK a, b : a = Len(tx') /\ b = Len(batch)
    OBVIOUS
  <2>2. a = b - ret /\ b \in Nat /\ b <= TXBUF_SIZE
    BY <1>1, <1>5, <2>1
  <2>3. a <= TXBUF_SIZE
    BY <1>2, <1>4, <2>2, SMTT(40)
  <2> QED BY <2>1, <2>3
<1>8. Cardinality(nic \cup gone) <= NicSize
  <2>1. /\ Cardinality(nic \cup gone)
             = Cardinality(nic) + Cardinality(gone) - Cardinality(nic \cap gone)
        /\ IsFiniteSet(nic \cup gone)
    BY <1>2, <1>6, FS_Union
  <2>2. IsFiniteSet(nic \cap gone)
    <3>1. nic \cap gone \in SUBSET nic
      OBVIOUS
    <3> QED BY <1>2, <3>1, FS_Subset
  <2>3. Cardinality(nic \cap gone) \in Nat
    BY <2>2, FS_CardinalityType
  <2>4. PICK a, b, c, d : /\ a = Cardinality(nic) /\ b = Cardinality(gone)
                          /\ c = Cardinality(nic \cap gone)
                          /\ d = Cardinality(nic \cup gone)
    OBVIOUS
  <2>5. /\ a \in Nat /\ b \in Nat /\ c \in Nat /\ d = a + b - c
        /\ b <= ret /\ a + ret <= NicSize
    BY <1>2, <1>4, <1>6, <2>1, <2>3, <2>4
  <2>6. d <= NicSize
    BY <1>2, <1>4, <2>5, SMTT(40)
  <2> QED BY <2>4, <2>6
<1>9. nic' = nic \cup gone
  BY <1>3 DEF gone
<1>10. FlushOk(batch, gone)
  BY <1>5, <1>7, <1>8, <1>9 DEF FlushOk, BatchOk
<1> QED BY <1>10

\* A batch that is kept is one of which the card has taken nothing.
LEMMA FinishStep ==
  ASSUME NEW batch, BatchOk(batch), nic \in SUBSET Bufs, Cardinality(nic) <= NicSize,
         NEW flush, Finish(batch, flush)
  PROVE  \E gone : FlushOk(batch, gone)
<1>1. CASE fast_txflush(batch)
  BY <1>1, FlushStep
<1>2. CASE Keep(batch)
  <2>1. FlushOk(batch, {})
    <3>1. tx' = batch /\ nic' = nic
      BY <1>2 DEF Keep
    <3>2. Elems(tx') = Elems(batch) \ {}
      BY <3>1
    <3> QED BY <3>1, <3>2 DEF FlushOk
  <2> QED BY <2>1
<1> QED BY <1>1, <1>2 DEF Finish

\* What a poll does with the buffers of used: send and wait.
UseOk(used, send, wait, gone) ==
  /\ send \cup wait = used
  /\ send \cap wait = {}
  /\ gone \subseteq Elems(tx) \cup send
  /\ nic' = nic \cup gone
  /\ BatchOk(tx')
  /\ Elems(tx') = (Elems(tx) \cup send) \ gone
  /\ Cardinality(nic') <= NicSize
  /\ away' = away \cup wait
  /\ Cardinality(away' \cup back) <= MaxAway

\* Different buffers, none of which is in the batch, put behind it as far as
\* they are to be sent.
LEMMA SendStep ==
  ASSUME BatchOk(tx), NEW s, s \in Seq(Bufs), Inj(s), Elems(s) \cap Elems(tx) = {},
         Len(tx) + Len(s) <= TXBUF_SIZE, NEW out
  PROVE  /\ BatchOk(tx \o Outcome(s, out, "tx"))
         /\ Elems(tx \o Outcome(s, out, "tx"))
              = Elems(tx) \cup {b \in Elems(s) : out[b] = "tx"}
<1> DEFINE q == Outcome(s, out, "tx")
<1>1. /\ q \in Seq(Bufs) /\ Len(q) <= Len(s) /\ Inj(q)
      /\ Elems(q) = {b \in Elems(s) : out[b] = "tx"}
  BY OutcomeOf, SMTT(40)
<1>2. tx \in Seq(Bufs) /\ Inj(tx)
  BY DEF BatchOk
<1> HIDE DEF q
<1>3. Elems(tx) \cap Elems(q) = {}
  BY <1>1
<1>4. /\ tx \o q \in Seq(Bufs)
      /\ Len(tx \o q) = Len(tx) + Len(q)
      /\ Inj(tx \o q)
      /\ Elems(tx \o q) = Elems(tx) \cup Elems(q)
  BY <1>1, <1>2, <1>3, InjConcat, SMTT(40)
<1>5. Len(tx \o q) <= TXBUF_SIZE
  <2>1. PICK a, b, c, d : a = Len(tx) /\ b = Len(q) /\ c = Len(s) /\ d = Len(tx \o q)
    OBVIOUS
  <2>2. /\ a \in Nat /\ b \in Nat /\ c \in Nat /\ d = a + b /\ b <= c
        /\ a + c <= TXBUF_SIZE /\ TXBUF_SIZE \in Nat
    <3>1. Len(tx) \in Nat /\ Len(q) \in Nat /\ Len(s) \in Nat
      BY <1>1, <1>2, SMTT(40)
    <3>2. TXBUF_SIZE \in Nat
      BY MbufsAssumption
    <3> QED BY <1>1, <1>4, <2>1, <3>1, <3>2
  <2>3. d <= TXBUF_SIZE
    BY <2>2, SMTT(40)
  <2> QED BY <2>1, <2>3
<1> QED BY <1>1, <1>4, <1>5 DEF BatchOk, q

\* The buffers that txcache_alloc returns are those of the slots from the head
\* on.
MbsOk(mbs, c2, got) ==
  /\ mbs \in Seq(Bufs)
  /\ Len(mbs) = got
  /\ Inj(mbs)
  /\ \A k \in 0 .. got : {mbs[i] : i \in 1 .. k} = RingSet(c2, head, k)

LEMMA MbsStep ==
  ASSUME NEW a, NEW num, NEW c2, NEW have, NEW got, NEW new,
         AllocOk(a, num, c2, have, got, new)
  PROVE  MbsOk(a.mbs, c2, got)
<1> DEFINE mbs == a.mbs
<1>1. /\ mbs \in [1 .. got -> Bufs]
      /\ \A i \in 1 .. got : mbs[i] = c2[Mask(head + (i - 1))]
      /\ got \in 0 .. have
      /\ RingInj(c2, head, have)
      /\ have \in 0 .. TX_CACHE_SIZE
  BY DEF AllocOk, CacheOk
<1>2. have \in Nat /\ got \in Nat /\ got <= have
  BY <1>1, MbufsAssumption, SMTT(40)
<1> HIDE DEF mbs
<1>3. mbs \in Seq(Bufs) /\ Len(mbs) = got
  BY <1>1, <1>2, SMTT(40)
<1>4. Inj(mbs)
  <2> SUFFICES ASSUME NEW i \in 1 .. got, NEW j \in 1 .. got, mbs[i] = mbs[j]
               PROVE  i = j
    BY <1>3 DEF Inj
  <2>1. i - 1 \in 0 .. have - 1 /\ j - 1 \in 0 .. have - 1
    BY <1>2, SMTT(40)
  <2>2. c2[Mask(head + (i - 1))] = c2[Mask(head + (j - 1))]
    BY <1>1
  <2>3. i - 1 = j - 1
    BY <1>1, <2>1, <2>2 DEF RingInj
  <2> QED BY <2>3, SMTT(40)
<1>5. ASSUME NEW k \in 0 .. got PROVE {mbs[i] : i \in 1 .. k} = RingSet(c2, head, k)
  <2>1. \A i \in 1 .. k : i \in 1 .. got /\ i - 1 \in 0 .. k - 1
    BY <1>2, SMTT(40)
  <2>2. \A i \in 0 .. k - 1 : i + 1 \in 1 .. k /\ (i + 1) - 1 = i
    BY <1>2, SMTT(40)
  <2>3. ASSUME NEW i \in 1 .. k PROVE mbs[i] \in RingSet(c2, head, k)
    <3>1. mbs[i] = c2[Mask(head + (i - 1))] /\ i - 1 \in 0 .. k - 1
      BY <1>1, <2>1
    <3> QED BY <3>1 DEF RingSet
  <2>4. ASSUME NEW b \in RingSet(c2, head, k) PROVE b \in {mbs[i] : i \in 1 .. k}
    <3>1. PICK i \in 0 .. k - 1 : b = c2[Mask(head + i)]
      BY DEF RingSet
    <3>2. i + 1 \in 1 .. k /\ mbs[i + 1] = b
      BY <1>1, <2>1, <2>2, <3>1
    <3> QED BY <3>2
  <2> QED BY <2>3, <2>4
<1> QED BY <1>3, <1>4, <1>5 DEF mbs, MbsOk

LEMMA UseStep ==
  ASSUME IInv, NEW a, NEW num, NEW c2, NEW have, NEW got, NEW new,
         AllocOk(a, num, c2, have, got, new), Len(tx) + got <= TXBUF_SIZE,
         NEW ntx \in 0 .. got, NEW flush, UseFirst(a.mbs, ntx, flush)
  PROVE  \E send, wait, gone : UseOk(RingSet(c2, head, ntx), send, wait, gone)
<1> DEFINE used == SubSeq(a.mbs, 1, ntx)
           R == RingSet(c2, head, ntx)
<1>0. got \in Nat /\ have \in Nat /\ got <= have /\ CacheOk(c2, head, have)
  BY MbufsAssumption, SMTT(40) DEF AllocOk, CacheOk
<1>1. a.mbs \in Seq(Bufs) /\ Len(a.mbs) = got /\ Inj(a.mbs)
      /\ {a.mbs[i] : i \in 1 .. ntx} = R
  BY MbsStep, SMTT(40) DEF MbsOk
<1>2. used \in Seq(Bufs) /\ Len(used) = ntx /\ Inj(used) /\ Elems(used) = R
  <2>1. SplitAt(Bufs, a.mbs, ntx)
    BY <1>1, InjParts
  <2> QED BY <1>1, <2>1 DEF SplitAt, Firsts
<1> HIDE DEF used, R
<1>3. Range(used) = R
  <2>1. DOMAIN used = 1 .. Len(used)
    BY <1>2, SMTT(40)
  <2> QED BY <1>2, <2>1 DEF Range, Elems
<1>4. PICK out \in [R -> {"tx", "away"}] :
        /\ Finish(tx \o Outcome(used, out, "tx"), flush)
        /\ away' = away \cup {b \in R : out[b] = "away"}
        /\ Cardinality(away' \cup back) <= MaxAway
  BY <1>3 DEF UseFirst, used
<1> USE DEF R
<1>5. R \subseteq RingSet(cache, head, n) \cup pool
  <2>1. \A i \in 0 .. ntx - 1 : i \in 0 .. have - 1
    BY <1>0, SMTT(40)
  <2>2. R \subseteq RingSet(c2, head, have)
    BY <2>1 DEF RingSet
  <2> QED BY <2>2 DEF AllocOk
<1>6. R \cap Elems(tx) = {} /\ nic \in SUBSET Bufs
  BY <1>5 DEF IInv, Parts
<1>7. BatchOk(tx) /\ Cardinality(nic) <= NicSize
  BY DEF IInv
<1>8. Len(tx) + Len(used) <= TXBUF_SIZE
  <2>1. PICK l : l = Len(tx)
    OBVIOUS
  <2>2. l \in Nat /\ TXBUF_SIZE \in Nat
    BY <1>7, <2>1, MbufsAssumption, SMTT(40) DEF BatchOk
  <2>3. l + got <= TXBUF_SIZE
    BY <2>1
  <2>4. l + ntx <= TXBUF_SIZE
    BY <1>0, <2>2, <2>3, SMTT(40)
  <2> QED BY <1>2, <2>1, <2>4
<1> DEFINE batch == tx \o Outcome(used, out, "tx")
           send == {b \in R : out[b] = "tx"}
           wait == {b \in R : out[b] = "away"}
<1> HIDE DEF R
<1>9. BatchOk(batch) /\ Elems(batch) = Elems(tx) \cup send
  BY <1>2, <1>6, <1>7, <1>8, SendStep
<1>10. Finish(batch, flush)
  BY <1>4
<1> HIDE DEF batch
<1>11. PICK gone : FlushOk(batch, gone)
  BY <1>6, <1>7, <1>9, <1>10, FinishStep
<1>12. send \cup wait = R /\ send \cap wait = {}
  BY <1>4
<1>13. away' = away \cup wait /\ Cardinality(away' \cup back) <= MaxAway
  BY <1>4
<1> HIDE DEF send, wait
<1>14. UseOk(R, send, wait, gone)
  BY <1>9, <1>11, <1>12, <1>13 DEF UseOk, FlushOk
<1> QED BY <1>14 DEF R

-----------------------------------------------------------------------------
(* Buffers that change their owner *)

\* Buffers of the pool go to the cache, and buffers of the cache to the batch,
\* to the control plane or out of sight; part of the batch goes to the card.
LEMMA PollMoves ==
  ASSUME NEW c, NEW p, NEW t, NEW d, NEW a, NEW b, NEW l, NEW u,
         Parts(c, p, t, d, a, b, l, u), NEW new, new \subseteq p,
         NEW send, NEW wait, NEW drop, send \cup wait \cup drop \subseteq c \cup new,
         send \cap wait = {}, (send \cup wait) \cap drop = {},
         NEW gone, gone \subseteq t \cup send
  PROVE  Parts((c \cup new) \ (send \cup wait \cup drop), p \ new, (t \cup send) \ gone,
               d \cup gone, a \cup wait, b, l \cup drop, u)
<1>1. \A x : /\ x \in new => x \in p
             /\ x \in send \/ x \in wait \/ x \in drop => x \in c \/ x \in new
             /\ ~ (x \in send /\ x \in wait)
             /\ ~ ((x \in send \/ x \in wait) /\ x \in drop)
             /\ x \in gone => x \in t \/ x \in send
  OBVIOUS
<1> QED BY <1>1 DEF Parts

\* Buffers of the pool hold received packets; they go to the batch, to the
\* control plane, to the cache, or back.
LEMMA ReceiveMoves ==
  ASSUME NEW c, NEW p, NEW t, NEW d, NEW a, NEW b, NEW l, NEW u,
         Parts(c, p, t, d, a, b, l, u), NEW r, r \subseteq p,
         NEW send, NEW wait, NEW free, NEW put,
         send \cup wait \cup free = r, send \cap wait = {},
         (send \cup wait) \cap free = {}, put \subseteq free,
         NEW gone, gone \subseteq t \cup send
  PROVE  Parts(c \cup put, (p \ r) \cup (free \ put), (t \cup send) \ gone,
               d \cup gone, a \cup wait, b, l, u)
<1>1. \A x : /\ x \in r => x \in p
             /\ x \in send \/ x \in wait \/ x \in free <=> x \in r
             /\ ~ (x \in send /\ x \in wait)
             /\ ~ ((x \in send \/ x \in wait) /\ x \in free)
             /\ x \in put => x \in free
             /\ x \in gone => x \in t \/ x \in send
  OBVIOUS
<1> QED BY <1>1 DEF Parts

-----------------------------------------------------------------------------
(* The steps *)

\* The invariant after a step that does not change which buffers there are.
LEMMA InvFrom ==
  ASSUME IInv, scarce' = scarce,
         CacheOk(cache', head', n'), BatchOk(tx'),
         Parts(RingSet(cache', head', n'), pool', Elems(tx'), nic', away', back', lost', Bufs),
         Cardinality(nic') <= NicSize,
         Cardinality(away' \cup back') <= MaxAway,
         Cardinality(lost') <= MaxLost
  PROVE  IInv'
<1>1. Bufs' = Bufs
  BY DEF Bufs
<1>2. scarce' \in BOOLEAN
  BY DEF IInv
<1>3. CacheOk(cache, head, n)' /\ BatchOk(tx)'
  BY <1>1 DEF CacheOk, BatchOk
<1> QED BY <1>1, <1>2, <1>3 DEF IInv

\* The head moves over j slots.
LEMMA CacheDrop ==
  ASSUME NEW c, NEW h, NEW k, CacheOk(c, h, k), NEW j \in 0 .. k
  PROVE  /\ CacheOk(c, Mask(h + j), k - j)
         /\ RingSet(c, Mask(h + j), k - j) = RingSet(c, h, k) \ RingSet(c, h, j)
         /\ RingSet(c, h, j) \subseteq RingSet(c, h, k)
<1> DEFINE L == TX_CACHE_SIZE
<1>1. /\ L \in Nat \ {0} /\ h \in Slots /\ h \in 0 .. L - 1 /\ Slots = 0 .. L - 1
      /\ k \in 0 .. L /\ c \in [Slots -> Bufs] /\ RingInj(c, h, k)
  BY MbufsAssumption DEF CacheOk, Slots
<1>2. ASSUME NEW i \in Nat, i < k - j
      PROVE  Mask(Mask(h + j) + i) = Mask(h + (j + i))
  <2>1. j \in Nat /\ j + i < L
    <3> HIDE DEF L
    <3> QED BY <1>1, <1>2, SMTT(40)
  <2> QED BY <1>1, <2>1, MaskTwice
<1>3. k \in Nat
  BY <1>1, SMTT(40)
<1>4. PICK h2 : h2 = Mask(h + j)
  OBVIOUS
<1>5. \A i \in Nat : i < k - j => Mask(h2 + i) = Mask(h + (j + i))
  BY <1>2, <1>4
<1>6. /\ RingInj(c, h2, k - j)
      /\ RingSet(c, h2, k - j) = RingSet(c, h, k) \ RingSet(c, h, j)
      /\ RingSet(c, h, j) \subseteq RingSet(c, h, k)
  <2>1. Shifted(h2, h, k, j)
    BY <1>5 DEF Shifted
  <2>2. Dropped(c, h2, h, k, j)
    BY <1>1, <1>3, <2>1, RingDrop
  <2> QED BY <2>2 DEF Dropped
<1>7. h2 \in Slots /\ k - j \in 0 .. L
  <2>1. h + j \in Int /\ 0 - 2 * L <= h + j /\ h + j < 2 * L
    <3> HIDE DEF L
    <3> QED BY <1>1, SMTT(40)
  <2>2. h2 \in Slots
    BY <1>1, <1>4, <2>1, MaskCases
  <2> HIDE DEF L
  <2> QED BY <1>1, <2>2, SMTT(40)
<1>8. CacheOk(c, h2, k - j)
  BY <1>1, <1>6, <1>7 DEF CacheOk
<1> QED BY <1>4, <1>6, <1>8

\* A poll takes no more buffers than the batch has room for.
LEMMA PollNum ==
  ASSUME IInv
  PROVE  /\ Lower(DEQ_BATCH, Free) \in Nat
         /\ Len(tx) \in Nat
         /\ Len(tx) + Lower(DEQ_BATCH, Free) <= TXBUF_SIZE
<1>1. PICK l : l = Len(tx)
  OBVIOUS
<1>2. l \in Nat /\ l <= TXBUF_SIZE /\ TXBUF_SIZE \in Nat /\ DEQ_BATCH \in Nat
  BY <1>1, MbufsAssumption, SMTT(40) DEF IInv, BatchOk
<1>3. Free = TXBUF_SIZE - l
  BY <1>1 DEF Free
<1>4. Lower(DEQ_BATCH, Free) \in Nat /\ l + Lower(DEQ_BATCH, Free) <= TXBUF_SIZE
  BY <1>2, <1>3, SMTT(40) DEF Lower
<1> QED BY <1>1, <1>2, <1>4

LEMMA PollGuestsStep ==
  ASSUME IInv, scarce' = scarce, NEW at, NEW next, NEW flush,
         PollGuests(at, next, flush)
  PROVE  IInv'
<1> DEFINE num == Lower(DEQ_BATCH, Free)
           a == Alloc(num)
<1>1. num \in Nat /\ Len(tx) \in Nat /\ Len(tx) + num <= TXBUF_SIZE
  BY PollNum
<1> HIDE DEF num
<1>2. PICK c2, have, got, new : AllocOk(a, num, c2, have, got, new)
  BY <1>1, AllocStep
<1>3. Len(a.mbs) = got
  <2>1. MbsOk(a.mbs, c2, got)
    BY <1>2, MbsStep
  <2> QED BY <2>1 DEF MbsOk
<1>4. PICK ntx \in 0 .. got :
        /\ IF got = 0 THEN UNCHANGED <<tx, nic, away>>
           ELSE UseFirst(a.mbs, ntx, flush)
        /\ cache' = a.cache
        /\ pool' = a.pool
        /\ head' = Mask(a.head - Unused(got, ntx))
        /\ n' = a.n + Unused(got, ntx)
        /\ back' = back
        /\ lost' = lost
  BY <1>3 DEF PollGuests, num
<1> HIDE DEF a
<1>5. /\ new \subseteq pool
      /\ CacheOk(c2, head, have)
      /\ RingSet(c2, head, have) = RingSet(cache, head, n) \cup new
      /\ got \in 0 .. have /\ got <= num /\ head + got <= TX_CACHE_SIZE
      /\ a.cache = c2 /\ a.pool = pool \ new
      /\ a.head = Mask(head + got) /\ a.n = have - got
  BY <1>2 DEF AllocOk
<1>6. /\ TX_CACHE_SIZE \in Nat \ {0} /\ head \in 0 .. TX_CACHE_SIZE - 1
      /\ have \in 0 .. TX_CACHE_SIZE
  BY <1>5, MbufsAssumption DEF CacheOk, Slots
<1>7. ntx \in 0 .. have /\ TXBUF_SIZE \in Nat
  BY <1>5, <1>6, MbufsAssumption, SMTT(40)
<1>8. head' = Mask(head + ntx)
  <2> DEFINE L == TX_CACHE_SIZE
  <2>1. PICK x : x = Mask(head + got)
    OBVIOUS
  <2>2. \A y \in Int : 0 - 2 * L <= y /\ y < 2 * L
          => /\ Mask(y) \in 0 .. L - 1
             /\ \/ Mask(y) = y + 2 * L \/ Mask(y) = y + L
                \/ Mask(y) = y \/ Mask(y) = y - L
    BY MaskCases
  <2>3. L \in Nat \ {0} /\ head \in 0 .. L - 1 /\ have \in 0 .. L /\ got \in 0 .. have
        /\ head + got <= L
    BY <1>5, <1>6
  <2> HIDE DEF L
  <2>4. x \in 0 .. L - 1 /\ (x = head + got \/ x = (head + got) - L)
    BY <2>1, <2>2, <2>3, SMTT(40)
  <2>5. /\ Mask(x - (got - ntx)) \in 0 .. L - 1
        /\ \/ Mask(x - (got - ntx)) = x - (got - ntx)
           \/ Mask(x - (got - ntx)) = (x - (got - ntx)) + L
    BY <2>2, <2>3, <2>4, SMTT(40)
  <2>6. Mask(head + ntx) \in 0 .. L - 1
        /\ (Mask(head + ntx) = head + ntx \/ Mask(head + ntx) = (head + ntx) - L)
    BY <2>2, <2>3, SMTT(40)
  <2>7. Mask(x - (got - ntx)) = Mask(head + ntx)
    BY <2>3, <2>4, <2>5, <2>6, SMTT(40)
  <2> QED BY <1>4, <1>5, <2>1, <2>7 DEF Unused
<1>9. n' = have - ntx
  <2>1. n' = (have - got) + (got - ntx)
    BY <1>4, <1>5 DEF Unused
  <2> QED BY <1>5, <1>6, <2>1, SMTT(40)
<1>10. PICK send, wait, gone : UseOk(RingSet(c2, head, ntx), send, wait, gone)
  <2>1. CASE got = 0
    <3>1. ntx = 0
      BY <2>1, SMTT(40)
    <3>2. RingSet(c2, head, ntx) = {}
      BY <3>1, SMTT(40) DEF RingSet
    <3>3. tx' = tx /\ nic' = nic /\ away' = away
      BY <1>4, <2>1
    <3>4. UseOk({}, {}, {}, {})
      <4>1. BatchOk(tx) /\ Cardinality(nic) <= NicSize /\ Cardinality(away \cup back) <= MaxAway
        BY DEF IInv
      <4> QED BY <3>3, <4>1 DEF UseOk
    <3> QED BY <3>2, <3>4
  <2>2. CASE got # 0
    <3>1. Len(tx) + got <= TXBUF_SIZE
      <4>1. PICK l : l = Len(tx)
        OBVIOUS
      <4>2. l \in Nat /\ l + num <= TXBUF_SIZE
        BY <1>1, <4>1
      <4>3. l + got <= TXBUF_SIZE
        BY <1>1, <1>5, <1>6, <1>7, <4>2, SMTT(40)
      <4> QED BY <4>1, <4>3
    <3>2. UseFirst(a.mbs, ntx, flush)
      BY <1>4, <2>2
    <3> QED BY <1>2, <3>1, <3>2, UseStep
  <2> QED BY <2>1, <2>2
<1>11. /\ CacheOk(cache', head', n')
       /\ RingSet(cache', head', n') = RingSet(c2, head, have) \ RingSet(c2, head, ntx)
       /\ RingSet(c2, head, ntx) \subseteq RingSet(c2, head, have)
  <2>1. cache' = c2
    BY <1>4, <1>5
  <2>2. /\ CacheOk(c2, Mask(head + ntx), have - ntx)
        /\ RingSet(c2, Mask(head + ntx), have - ntx)
             = RingSet(c2, head, have) \ RingSet(c2, head, ntx)
        /\ RingSet(c2, head, ntx) \subseteq RingSet(c2, head, have)
    BY <1>5, <1>7, CacheDrop, SMTT(40)
  <2> QED BY <1>8, <1>9, <2>1, <2>2
<1> DEFINE C == RingSet(cache, head, n)
<1>12. Parts(C, pool, Elems(tx), nic, away, back, lost, Bufs)
  BY DEF IInv
<1>13. /\ send \cup wait \cup {} \subseteq C \cup new
       /\ send \cap wait = {} /\ (send \cup wait) \cap {} = {}
       /\ gone \subseteq Elems(tx) \cup send
  BY <1>5, <1>10, <1>11 DEF UseOk
<1>14. Parts((C \cup new) \ (send \cup wait \cup {}), pool \ new,
             (Elems(tx) \cup send) \ gone, nic \cup gone, away \cup wait, back,
             lost \cup {}, Bufs)
  <2> HIDE DEF C
  <2> QED BY <1>5, <1>12, <1>13, PollMoves
<1>15. /\ RingSet(cache', head', n') = (C \cup new) \ (send \cup wait \cup {})
       /\ pool' = pool \ new
       /\ Elems(tx') = (Elems(tx) \cup send) \ gone
       /\ nic' = nic \cup gone
       /\ away' = away \cup wait
       /\ back' = back
       /\ lost' = lost \cup {}
  BY <1>4, <1>5, <1>10, <1>11 DEF UseOk
<1>16. Parts(RingSet(cache', head', n'), pool', Elems(tx'), nic', away', back', lost', Bufs)
  BY <1>14, <1>15
<1>17. /\ BatchOk(tx') /\ Cardinality(nic') <= NicSize
       /\ Cardinality(away' \cup back') <= MaxAway /\ Cardinality(lost') <= MaxLost
  BY <1>4, <1>10 DEF UseOk, IInv
<1> QED BY <1>11, <1>16, <1>17, InvFrom

LEMMA PollFailsStep ==
  ASSUME IInv, scarce' = scarce, NEW at, NEW next, PollFails(at, next)
  PROVE  IInv'
<1> DEFINE num == Lower(DEQ_BATCH, Free)
           a == Alloc(num)
<1>1. num \in Nat /\ Len(tx) \in Nat /\ Len(tx) + num <= TXBUF_SIZE
  BY PollNum
<1> HIDE DEF num
<1>2. PICK c2, have, got, new : AllocOk(a, num, c2, have, got, new)
  BY <1>1, AllocStep
<1>3. /\ Len(a.mbs) = got
      /\ a.mbs \in Seq(Bufs) /\ Inj(a.mbs)
      /\ \A k \in 0 .. got : {a.mbs[i] : i \in 1 .. k} = RingSet(c2, head, k)
  <2> HIDE DEF a
  <2>1. MbsOk(a.mbs, c2, got)
    BY <1>2, MbsStep
  <2> QED BY <2>1 DEF MbsOk
<1>4. PICK ntx \in 0 .. got - 1 :
        /\ UseFirst(a.mbs, ntx, FALSE)
        /\ lost' = lost \cup {a.mbs[i] : i \in ntx + 1 .. got}
        /\ Cardinality(lost') <= MaxLost
        /\ cache' = a.cache
        /\ pool' = a.pool
        /\ head' = a.head
        /\ n' = a.n
        /\ back' = back
  BY <1>3 DEF PollFails, num
<1> HIDE DEF a
<1>5. /\ new \subseteq pool
      /\ CacheOk(c2, head, have)
      /\ RingSet(c2, head, have) = RingSet(cache, head, n) \cup new
      /\ got \in 0 .. have /\ got <= num
      /\ a.cache = c2 /\ a.pool = pool \ new
      /\ a.head = Mask(head + got) /\ a.n = have - got
  BY <1>2 DEF AllocOk
<1>6. have \in Nat /\ got \in Nat /\ ntx \in 0 .. got /\ TXBUF_SIZE \in Nat
  BY <1>5, MbufsAssumption, SMTT(40) DEF CacheOk
<1>7. PICK send, wait, gone : UseOk(RingSet(c2, head, ntx), send, wait, gone)
  <2>1. Len(tx) + got <= TXBUF_SIZE
    <3>1. PICK l : l = Len(tx)
      OBVIOUS
    <3>2. l \in Nat /\ l + num <= TXBUF_SIZE
      BY <1>1, <3>1
    <3>3. l + got <= TXBUF_SIZE
      BY <1>1, <1>5, <1>6, <3>2, SMTT(40)
    <3> QED BY <3>1, <3>3
  <2> QED BY <1>2, <1>4, <1>6, <2>1, UseStep
<1> DEFINE drop == {a.mbs[i] : i \in ntx + 1 .. got}
           C == RingSet(cache, head, n)
<1>8. /\ RingSet(c2, head, got) = RingSet(c2, head, ntx) \cup drop
      /\ RingSet(c2, head, ntx) \cap drop = {}
  <2> DEFINE q == a.mbs
  <2>1. /\ RingSet(c2, head, got) = {q[i] : i \in 1 .. got}
        /\ RingSet(c2, head, ntx) = {q[i] : i \in 1 .. ntx}
        /\ \A i, j \in 1 .. got : q[i] = q[j] => i = j
    <3>1. got \in 0 .. got
      BY <1>6, SMTT(40)
    <3> QED BY <1>3, <1>6, <3>1 DEF Inj
  <2> HIDE DEF q
  <2>2. drop = {q[i] : i \in ntx + 1 .. got}
    BY DEF q
  <2> HIDE DEF drop
  <2>3. \A i \in 1 .. got : i \in 1 .. ntx \/ i \in ntx + 1 .. got
    BY <1>6, SMTT(40)
  <2>4. \A i \in 1 .. ntx : i \in 1 .. got /\ i \notin ntx + 1 .. got
    BY <1>6, SMTT(40)
  <2>5. \A i \in ntx + 1 .. got : i \in 1 .. got
    BY <1>6, SMTT(40)
  <2> QED BY <2>1, <2>2, <2>3, <2>4, <2>5, SMTT(40)
<1>9. /\ CacheOk(cache', head', n')
      /\ RingSet(cache', head', n') = RingSet(c2, head, have) \ RingSet(c2, head, got)
      /\ RingSet(c2, head, got) \subseteq RingSet(c2, head, have)
  BY <1>4, <1>5, CacheDrop, SMTT(40)
<1>10. Parts(C, pool, Elems(tx), nic, away, back, lost, Bufs)
  BY DEF IInv
<1> HIDE DEF drop
<1>11. /\ send \cup wait \cup drop \subseteq C \cup new
       /\ send \cap wait = {} /\ (send \cup wait) \cap drop = {}
       /\ gone \subseteq Elems(tx) \cup send
  BY <1>5, <1>7, <1>8, <1>9 DEF UseOk
<1>12. Parts((C \cup new) \ (send \cup wait \cup drop), pool \ new,
             (Elems(tx) \cup send) \ gone, nic \cup gone, away \cup wait, back,
             lost \cup drop, Bufs)
  <2> HIDE DEF C
  <2> QED BY <1>5, <1>10, <1>11, PollMoves
<1>13. /\ RingSet(cache', head', n') = (C \cup new) \ (send \cup wait \cup drop)
       /\ pool' = pool \ new
       /\ Elems(tx') = (Elems(tx) \cup send) \ gone
       /\ nic' = nic \cup gone
       /\ away' = away \cup wait
       /\ back' = back
       /\ lost' = lost \cup drop
  <2>1. lost' = lost \cup drop
    BY <1>4 DEF drop
  <2> QED BY <1>4, <1>5, <1>7, <1>8, <1>9, <2>1 DEF UseOk
<1>14. Parts(RingSet(cache', head', n'), pool', Elems(tx'), nic', away', back', lost', Bufs)
  BY <1>12, <1>13
<1>15. /\ BatchOk(tx') /\ Cardinality(nic') <= NicSize
       /\ Cardinality(away' \cup back') <= MaxAway /\ Cardinality(lost') <= MaxLost
  BY <1>4, <1>7 DEF UseOk
<1> QED BY <1>9, <1>14, <1>15, InvFrom

LEMMA ReceiveStep ==
  ASSUME IInv, scarce' = scarce, Receive
  PROVE  IInv'
<1>1. /\ CacheOk(cache, head, n) /\ BatchOk(tx)
      /\ Parts(RingSet(cache, head, n), pool, Elems(tx), nic, away, back, lost, Bufs)
      /\ Cardinality(nic) <= NicSize /\ Cardinality(lost) <= MaxLost
  BY DEF IInv
<1>2. pool \subseteq Bufs /\ nic \in SUBSET Bufs
      /\ pool \cap RingSet(cache, head, n) = {} /\ pool \cap Elems(tx) = {}
  BY <1>1 DEF Parts
<1>3. IsFiniteSet(pool) /\ Cardinality(pool) \in Nat
  BY <1>2, BufsFinite, FS_CardinalityType
<1>4. PICK nrx \in 1 .. Lower(Lower(RX_BATCH, Free), Cardinality(pool)) :
        LET mbs == Some(pool, nrx)
        IN  \E out \in [Range(mbs) -> {"tx", "away", "free"}] :
              LET freed == Freed(Outcome(mbs, out, "free"))
              IN  /\ away' = away \cup {b \in Range(mbs) : out[b] = "away"}
                  /\ Cardinality(away' \cup back) <= MaxAway
                  /\ fast_txflush(tx \o Outcome(mbs, out, "tx"))
                  /\ cache' = freed.cache
                  /\ head' = freed.head
                  /\ n' = freed.n
                  /\ pool' = (pool \ Range(mbs)) \cup freed.pool
  BY DEF Receive
<1> DEFINE mbs == Some(pool, nrx)
           R == Elems(mbs)
<1>5. nrx \in Nat /\ nrx <= Cardinality(pool) /\ Len(tx) + nrx <= TXBUF_SIZE
  <2>1. PICK l, p : l = Len(tx) /\ p = Cardinality(pool)
    OBVIOUS
  <2>2. l \in Nat /\ p \in Nat /\ RX_BATCH \in Nat /\ TXBUF_SIZE \in Nat
        /\ nrx \in 1 .. Lower(Lower(RX_BATCH, TXBUF_SIZE - l), p)
    <3>1. RX_BATCH \in Nat
      BY MbufsAssumption
    <3> QED BY <1>1, <1>3, <1>4, <2>1, <3>1, BatchRoom
  <2>3. nrx \in Nat /\ nrx <= p /\ l + nrx <= TXBUF_SIZE
    BY <2>2, SMTT(40) DEF Lower
  <2> QED BY <2>1, <2>3
<1>6. mbs \in [1 .. nrx -> pool] /\ \A i, j \in 1 .. nrx : mbs[i] = mbs[j] => i = j
  BY <1>3, <1>5, SomeOf
<1> HIDE DEF mbs
<1>7. mbs \in Seq(Bufs) /\ Len(mbs) = nrx /\ Inj(mbs) /\ Range(mbs) = R /\ R \subseteq pool
  <2>1. mbs \in Seq(Bufs) /\ Len(mbs) = nrx
    BY <1>2, <1>5, <1>6, SMTT(40)
  <2> QED BY <1>6, <2>1, SMTT(40) DEF Inj, Range, Elems
<1>8. PICK out \in [R -> {"tx", "away", "free"}] :
        /\ away' = away \cup {b \in R : out[b] = "away"}
        /\ Cardinality(away' \cup back) <= MaxAway
        /\ fast_txflush(tx \o Outcome(mbs, out, "tx"))
        /\ cache' = Freed(Outcome(mbs, out, "free")).cache
        /\ head' = Freed(Outcome(mbs, out, "free")).head
        /\ n' = Freed(Outcome(mbs, out, "free")).n
        /\ pool' = (pool \ R) \cup Freed(Outcome(mbs, out, "free")).pool
  BY <1>4, <1>7 DEF mbs
<1> DEFINE send == {b \in R : out[b] = "tx"}
           wait == {b \in R : out[b] = "away"}
           free == {b \in R : out[b] = "free"}
           s == Outcome(mbs, out, "free")
           batch == tx \o Outcome(mbs, out, "tx")
<1>9. s \in Seq(Bufs) /\ Inj(s) /\ Elems(s) = free
  BY <1>7, OutcomeOf, SMTT(40)
<1>10. BatchOk(batch) /\ Elems(batch) = Elems(tx) \cup send
  <2>1. Elems(mbs) \cap Elems(tx) = {} /\ Len(tx) + Len(mbs) <= TXBUF_SIZE
    BY <1>2, <1>5, <1>7
  <2> QED BY <1>1, <1>7, <2>1, SendStep
<1>11. send \cup wait \cup free = R /\ send \cap wait = {} /\ (send \cup wait) \cap free = {}
  BY <1>8
<1>12. away' = away \cup wait /\ back' = back /\ lost' = lost
  BY <1>8 DEF Receive
<1>13. fast_txflush(batch) /\ cache' = Freed(s).cache /\ head' = Freed(s).head
       /\ n' = Freed(s).n /\ pool' = (pool \ R) \cup Freed(s).pool
       /\ Cardinality(away' \cup back) <= MaxAway
  BY <1>8
<1> HIDE DEF send, wait, free, s, batch, R
<1>14. PICK gone : FlushOk(batch, gone)
  BY <1>1, <1>2, <1>10, <1>13, FlushStep
<1>15. PICK put : FreedOk(Freed(s), s, put)
  <2>1. Elems(s) \cap RingSet(cache, head, n) = {}
    BY <1>2, <1>7, <1>9, <1>11
  <2> QED BY <1>1, <1>9, <2>1, FreedStep
<1>16. put \subseteq free /\ gone \subseteq Elems(tx) \cup send
  BY <1>9, <1>10, <1>14, <1>15 DEF FreedOk, FlushOk
<1>17. Parts(RingSet(cache, head, n) \cup put, (pool \ R) \cup (free \ put),
             (Elems(tx) \cup send) \ gone, nic \cup gone, away \cup wait, back, lost, Bufs)
  BY <1>1, <1>7, <1>11, <1>16, ReceiveMoves
<1>18. /\ RingSet(cache', head', n') = RingSet(cache, head, n) \cup put
       /\ pool' = (pool \ R) \cup (free \ put)
       /\ Elems(tx') = (Elems(tx) \cup send) \ gone
       /\ nic' = nic \cup gone
  BY <1>9, <1>10, <1>13, <1>14, <1>15 DEF FreedOk, FlushOk
<1>19. Parts(RingSet(cache', head', n'), pool', Elems(tx'), nic', away', back', lost', Bufs)
  BY <1>12, <1>17, <1>18
<1>20. CacheOk(cache', head', n')
  BY <1>13, <1>15 DEF FreedOk
<1>21. /\ BatchOk(tx') /\ Cardinality(nic') <= NicSize
       /\ Cardinality(away' \cup back') <= MaxAway /\ Cardinality(lost') <= MaxLost
  BY <1>1, <1>12, <1>13, <1>14 DEF FlushOk
<1> QED BY <1>19, <1>20, <1>21, InvFrom

-----------------------------------------------------------------------------
(* How many buffers there are *)

LEMMA DisjointCount ==
  ASSUME NEW S, NEW T, IsFiniteSet(S), IsFiniteSet(T), S \cap T = {}
  PROVE  /\ IsFiniteSet(S \cup T)
         /\ Cardinality(S \cup T) = Cardinality(S) + Cardinality(T)
<1>1. /\ IsFiniteSet(S \cup T)
      /\ Cardinality(S \cup T) = Cardinality(S) + Cardinality(T) - Cardinality(S \cap T)
  BY FS_Union
<1>2. Cardinality(S \cap T) = 0
  BY FS_EmptySet
<1>3. Cardinality(S) \in Nat /\ Cardinality(T) \in Nat
  BY FS_CardinalityType
<1>4. Cardinality(S) + Cardinality(T) - 0 = Cardinality(S) + Cardinality(T)
  BY <1>3, SMTT(40)
<1> QED BY <1>1, <1>2, <1>4

\* The sizes of the parts add up.
Counts(c, p, t, d, a, b, l, u) ==
  /\ {Cardinality(c), Cardinality(p), Cardinality(t), Cardinality(d),
      Cardinality(a), Cardinality(b), Cardinality(l)} \subseteq Nat
  /\ Cardinality(c) + Cardinality(p) + Cardinality(t) + Cardinality(d)
       + Cardinality(a) + Cardinality(b) + Cardinality(l) = Cardinality(u)
  /\ Cardinality(a \cup b) = Cardinality(a) + Cardinality(b)

LEMMA PartsCount ==
  ASSUME NEW c, NEW p, NEW t, NEW d, NEW a, NEW b, NEW l, NEW u,
         Parts(c, p, t, d, a, b, l, u), IsFiniteSet(u)
  PROVE  Counts(c, p, t, d, a, b, l, u)
<1>1. {c, p, t, d, a, b, l} \subseteq SUBSET u
  BY DEF Parts
<1>2. \A x \in SUBSET u : IsFiniteSet(x)
  BY FS_Subset
<1>3. /\ IsFiniteSet(c) /\ IsFiniteSet(p) /\ IsFiniteSet(t) /\ IsFiniteSet(d)
      /\ IsFiniteSet(a) /\ IsFiniteSet(b) /\ IsFiniteSet(l)
  BY <1>1, <1>2
<1>4. /\ Cardinality(c) \in Nat /\ Cardinality(p) \in Nat /\ Cardinality(t) \in Nat
      /\ Cardinality(d) \in Nat /\ Cardinality(a) \in Nat /\ Cardinality(b) \in Nat
      /\ Cardinality(l) \in Nat
  BY <1>3, FS_CardinalityType
<1>5. /\ c \cap p = {} /\ (c \cup p) \cap t = {} /\ (c \cup p \cup t) \cap d = {}
      /\ (c \cup p \cup t \cup d) \cap a = {} /\ (c \cup p \cup t \cup d \cup a) \cap b = {}
      /\ (c \cup p \cup t \cup d \cup a \cup b) \cap l = {} /\ a \cap b = {}
      /\ c \cup p \cup t \cup d \cup a \cup b \cup l = u
  BY DEF Parts
<1>6. IsFiniteSet(c \cup p) /\ Cardinality(c \cup p) = Cardinality(c) + Cardinality(p)
  BY <1>3, <1>5, DisjointCount
<1>7. /\ IsFiniteSet(c \cup p \cup t)
      /\ Cardinality(c \cup p \cup t) = Cardinality(c \cup p) + Cardinality(t)
  BY <1>3, <1>5, <1>6, DisjointCount
<1>8. /\ IsFiniteSet(c \cup p \cup t \cup d)
      /\ Cardinality(c \cup p \cup t \cup d) = Cardinality(c \cup p \cup t) + Cardinality(d)
  BY <1>3, <1>5, <1>7, DisjointCount
<1>9. /\ IsFiniteSet(c \cup p \cup t \cup d \cup a)
      /\ Cardinality(c \cup p \cup t \cup d \cup a)
           = Cardinality(c \cup p \cup t \cup d) + Cardinality(a)
  BY <1>3, <1>5, <1>8, DisjointCount
<1>10. /\ IsFiniteSet(c \cup p \cup t \cup d \cup a \cup b)
       /\ Cardinality(c \cup p \cup t \cup d \cup a \cup b)
            = Cardinality(c \cup p \cup t \cup d \cup a) + Cardinality(b)
  BY <1>3, <1>5, <1>9, DisjointCount
<1>11. Cardinality(c \cup p \cup t \cup d \cup a \cup b \cup l)
         = Cardinality(c \cup p \cup t \cup d \cup a \cup b) + Cardinality(l)
  BY <1>3, <1>5, <1>10, DisjointCount
<1>12. Cardinality(c) + Cardinality(p) + Cardinality(t) + Cardinality(d)
              + Cardinality(a) + Cardinality(b) + Cardinality(l) = Cardinality(u)
  BY <1>5, <1>6, <1>7, <1>8, <1>9, <1>10, <1>11
<1>13. Cardinality(a \cup b) = Cardinality(a) + Cardinality(b)
  BY <1>3, <1>5, DisjointCount
<1> QED BY <1>4, <1>12, <1>13 DEF Counts

\* Every buffer is counted once.
LEMMA Counted ==
  ASSUME IInv
  PROVE  /\ n \in Nat /\ Len(tx) \in Nat
         /\ {Cardinality(pool), Cardinality(nic), Cardinality(away), Cardinality(back),
             Cardinality(lost)} \subseteq Nat
         /\ n + Cardinality(pool) + Len(tx) + Cardinality(nic) + Cardinality(away)
              + Cardinality(back) + Cardinality(lost) = Cardinality(Bufs)
         /\ Cardinality(away \cup back) = Cardinality(away) + Cardinality(back)
<1> DEFINE C == RingSet(cache, head, n)
           T == Elems(tx)
<1>1. /\ Parts(C, pool, T, nic, away, back, lost, Bufs)
      /\ RingInj(cache, head, n) /\ n \in Nat
      /\ tx \in Seq(Bufs) /\ Inj(tx) /\ Len(tx) \in Nat
  <2>1. CacheOk(cache, head, n) /\ BatchOk(tx)
        /\ Parts(C, pool, T, nic, away, back, lost, Bufs)
    BY DEF IInv
  <2>2. RingInj(cache, head, n) /\ n \in 0 .. TX_CACHE_SIZE
    BY <2>1 DEF CacheOk
  <2>3. n \in Nat
    BY <2>2, MbufsAssumption, SMTT(40)
  <2> QED BY <2>1, <2>2, <2>3, BatchRoom
<1>2. Cardinality(C) = n
  BY <1>1, RingCount
<1>3. Cardinality(T) = Len(tx)
  BY <1>1, ElemsCount
<1> HIDE DEF C, T
<1>4. /\ {Cardinality(C), Cardinality(pool), Cardinality(T), Cardinality(nic),
          Cardinality(away), Cardinality(back), Cardinality(lost)} \subseteq Nat
      /\ Cardinality(C) + Cardinality(pool) + Cardinality(T) + Cardinality(nic)
           + Cardinality(away) + Cardinality(back) + Cardinality(lost) = Cardinality(Bufs)
      /\ Cardinality(away \cup back) = Cardinality(away) + Cardinality(back)
  <2>1. Counts(C, pool, T, nic, away, back, lost, Bufs)
    BY <1>1, BufsFinite, PartsCount
  <2> QED BY <2>1 DEF Counts
<1> QED BY <1>1, <1>2, <1>3, <1>4

\* With all buffers there, the pool fills an empty cache: what others hold
\* leaves enough.
LEMMA PoolSuffices ==
  ASSUME IInv, ~ scarce, Free > 0
  PROVE  n >= 1 \/ Cardinality(pool) >= TX_CACHE_SIZE
<1>1. Cardinality(Bufs) = NBufs
  <2>1. Bufs = 1 .. NBufs /\ NBufs \in Nat
    BY MbufsAssumption DEF Bufs
  <2>2. Cardinality(1 .. NBufs) = IF 1 > NBufs THEN 0 ELSE NBufs - 1 + 1
    BY <2>1, FS_Interval, SMTT(40)
  <2>3. (IF 1 > NBufs THEN 0 ELSE NBufs - 1 + 1) = NBufs
    BY <2>1, SMTT(40)
  <2> QED BY <2>1, <2>2, <2>3
<1>2. PICK p, x, d, a, b, l, ab :
        /\ p = Cardinality(pool) /\ x = Len(tx) /\ d = Cardinality(nic)
        /\ a = Cardinality(away) /\ b = Cardinality(back) /\ l = Cardinality(lost)
        /\ ab = Cardinality(away \cup back)
  OBVIOUS
<1>3. /\ n \in Nat /\ p \in Nat /\ x \in Nat /\ d \in Nat /\ a \in Nat /\ b \in Nat /\ l \in Nat
      /\ n + p + x + d + a + b + l = NBufs
      /\ ab = a + b
  BY <1>1, <1>2, Counted
<1>4. d <= NicSize /\ ab <= MaxAway /\ l <= MaxLost /\ TXBUF_SIZE - x > 0
  BY <1>2 DEF IInv, Free
<1>5. /\ {NBufs, TX_CACHE_SIZE, TXBUF_SIZE, NicSize, MaxAway, MaxLost} \subseteq Nat
      /\ NBufs >= TX_CACHE_SIZE + TXBUF_SIZE + NicSize + MaxAway + MaxLost - 1
  BY MbufsAssumption
<1>6. n >= 1 \/ p >= TX_CACHE_SIZE
  BY <1>3, <1>4, <1>5, SMTT(40)
<1> QED BY <1>2, <1>6

-----------------------------------------------------------------------------
(* The other steps *)

LEMMA ArpStep ==
  ASSUME IInv, scarce' = scarce, handle_arp_tx_pkt
  PROVE  IInv'
<1> DEFINE a == Alloc(1)
           C == RingSet(cache, head, n)
<1>1. /\ ~ scarce /\ Free > 0
      /\ tx' = Append(tx, a.first) /\ cache' = a.cache /\ pool' = a.pool
      /\ head' = a.head /\ n' = a.n
      /\ nic' = nic /\ away' = away /\ back' = back /\ lost' = lost
  BY DEF handle_arp_tx_pkt
<1>2. PICK c2, have, got, new : AllocOk(a, 1, c2, have, got, new)
  BY AllocStep
<1> HIDE DEF a
<1>3. n >= 1 \/ Cardinality(pool) >= TX_CACHE_SIZE
  BY <1>1, PoolSuffices
<1>4. /\ new \subseteq pool
      /\ CacheOk(c2, head, have)
      /\ RingSet(c2, head, have) = C \cup new
      /\ got \in 0 .. have /\ got <= 1 /\ got >= 1
      /\ a.cache = c2 /\ a.pool = pool \ new
      /\ a.head = Mask(head + got) /\ a.n = have - got
      /\ a.first = c2[Mask(head + 0)]
  BY <1>2, <1>3, SMTT(40) DEF AllocOk
<1>5. have \in Nat /\ got = 1
  BY <1>4, MbufsAssumption, SMTT(40) DEF CacheOk
<1>6. RingSet(c2, head, got) = {a.first}
  <2>1. 0 .. got - 1 = {0}
    BY <1>5, SMTT(40)
  <2> QED BY <1>4, <2>1 DEF RingSet
<1>7. /\ CacheOk(cache', head', n')
      /\ RingSet(cache', head', n') = (C \cup new) \ {a.first}
      /\ a.first \in C \cup new
  BY <1>1, <1>4, <1>6, CacheDrop, SMTT(40)
<1>8. /\ BatchOk(tx) /\ Parts(C, pool, Elems(tx), nic, away, back, lost, Bufs)
      /\ Cardinality(nic) <= NicSize /\ Cardinality(lost) <= MaxLost
      /\ Cardinality(away \cup back) <= MaxAway
  BY DEF IInv
<1> HIDE DEF C
<1>9. a.first \in Bufs /\ a.first \notin Elems(tx)
  BY <1>4, <1>7, <1>8 DEF Parts
<1>10. /\ tx' \in Seq(Bufs) /\ Len(tx') = Len(tx) + 1 /\ Inj(tx')
       /\ Elems(tx') = Elems(tx) \cup {a.first}
  BY <1>1, <1>8, <1>9, InjAppend DEF BatchOk
<1>11. BatchOk(tx')
  <2>1. PICK x, y : x = Len(tx) /\ y = Len(tx')
    OBVIOUS
  <2>2. x \in Nat /\ y = x + 1 /\ TXBUF_SIZE - x > 0 /\ TXBUF_SIZE \in Nat
    BY <1>1, <1>8, <1>10, <2>1, BatchRoom
  <2>3. y <= TXBUF_SIZE
    BY <2>2, SMTT(40)
  <2> QED BY <1>10, <2>1, <2>3 DEF BatchOk
<1>12. Parts((C \cup new) \ ({a.first} \cup {} \cup {}), pool \ new,
             (Elems(tx) \cup {a.first}) \ {}, nic \cup {}, away \cup {}, back,
             lost \cup {}, Bufs)
  <2>1. /\ {a.first} \cup {} \cup {} \subseteq C \cup new
        /\ {a.first} \cap {} = {} /\ ({a.first} \cup {}) \cap {} = {}
        /\ {} \subseteq Elems(tx) \cup {a.first}
    BY <1>7
  <2> QED BY <1>4, <1>8, <2>1, PollMoves
<1>13. Parts(RingSet(cache', head', n'), pool', Elems(tx'), nic', away', back', lost', Bufs)
  <2>1. /\ RingSet(cache', head', n') = (C \cup new) \ ({a.first} \cup {} \cup {})
        /\ pool' = pool \ new /\ Elems(tx') = (Elems(tx) \cup {a.first}) \ {}
        /\ nic' = nic \cup {} /\ away' = away \cup {} /\ back' = back
        /\ lost' = lost \cup {}
    BY <1>1, <1>4, <1>7, <1>10
  <2> QED BY <1>12, <2>1
<1> QED BY <1>1, <1>7, <1>8, <1>11, <1>13, InvFrom

LEMMA MbufStep ==
  ASSUME IInv, scarce' = scarce, handle_mbuf
  PROVE  IInv'
<1> DEFINE C == RingSet(cache, head, n)
<1>1. /\ CacheOk(cache, head, n) /\ BatchOk(tx)
      /\ Parts(C, pool, Elems(tx), nic, away, back, lost, Bufs)
      /\ Cardinality(nic) <= NicSize /\ Cardinality(lost) <= MaxLost
      /\ Cardinality(away \cup back) <= MaxAway
  BY DEF IInv
<1>2. PICK b \in back :
        /\ back' = back \ {b} /\ nic' = nic /\ lost' = lost /\ Free > 0
        /\ \/ /\ tx' = Append(tx, b)
              /\ UNCHANGED <<cache, head, n, pool, away>>
           \/ /\ away' = away \cup {b}
              /\ UNCHANGED <<cache, head, n, pool, tx>>
           \/ /\ cache' = Freed(<<b>>).cache
              /\ head' = Freed(<<b>>).head
              /\ n' = Freed(<<b>>).n
              /\ pool' = pool \cup Freed(<<b>>).pool
              /\ UNCHANGED <<tx, away>>
  BY DEF handle_mbuf
<1>3. /\ b \in Bufs /\ b \notin C /\ b \notin pool /\ b \notin Elems(tx)
      /\ b \notin nic /\ b \notin away /\ b \notin lost
  <2> HIDE DEF C
  <2> QED BY <1>1 DEF Parts
<1>4. IsFiniteSet(away \cup back) /\ Cardinality(away \cup back) \in Nat
      /\ MaxAway \in Nat
  <2>1. away \cup back \in SUBSET Bufs
    <3> HIDE DEF C
    <3> QED BY <1>1 DEF Parts
  <2> QED BY <2>1, BufsFinite, FS_CardinalityType, MbufsAssumption
<1>5. ASSUME away' \cup back' \subseteq away \cup back
      PROVE  Cardinality(away' \cup back') <= MaxAway
  <2>1. /\ IsFiniteSet(away' \cup back')
        /\ Cardinality(away' \cup back') <= Cardinality(away \cup back)
    BY <1>4, <1>5, FS_Subset
  <2>2. Cardinality(away' \cup back') \in Nat
    BY <2>1, FS_CardinalityType
  <2> QED BY <1>1, <1>4, <2>1, <2>2, SMTT(40)
<1>6. CASE tx' = Append(tx, b) /\ UNCHANGED <<cache, head, n, pool, away>>
  <2>1. /\ tx' \in Seq(Bufs) /\ Len(tx') = Len(tx) + 1 /\ Inj(tx')
        /\ Elems(tx') = Elems(tx) \cup {b}
    BY <1>1, <1>3, <1>6, InjAppend, SMTT(40) DEF BatchOk
  <2>2. BatchOk(tx')
    <3>1. PICK x, y : x = Len(tx) /\ y = Len(tx')
      OBVIOUS
    <3>2. x \in Nat /\ y = x + 1 /\ TXBUF_SIZE - x > 0 /\ TXBUF_SIZE \in Nat
      BY <1>1, <1>2, <2>1, <3>1, BatchRoom
    <3>3. y <= TXBUF_SIZE
      BY <3>2, SMTT(40)
    <3> QED BY <2>1, <3>1, <3>3 DEF BatchOk
  <2>3. RingSet(cache', head', n') = C /\ pool' = pool /\ away' = away
        /\ CacheOk(cache', head', n')
    BY <1>1, <1>6
  <2> HIDE DEF C
  <2>4. Parts(C, pool, Elems(tx) \cup {b}, nic, away, back \ {b}, lost, Bufs)
    BY <1>1, <1>3 DEF Parts
  <2>5. Parts(RingSet(cache', head', n'), pool', Elems(tx'), nic', away', back', lost', Bufs)
    BY <1>2, <2>1, <2>3, <2>4
  <2>6. Cardinality(away' \cup back') <= MaxAway
    BY <1>2, <1>5, <2>3
  <2> QED BY <1>1, <1>2, <2>2, <2>3, <2>5, <2>6, InvFrom
<1>7. CASE away' = away \cup {b} /\ UNCHANGED <<cache, head, n, pool, tx>>
  <2>1. RingSet(cache', head', n') = C /\ pool' = pool /\ tx' = tx
        /\ CacheOk(cache', head', n')
    BY <1>1, <1>7
  <2> HIDE DEF C
  <2>2. Parts(C, pool, Elems(tx), nic, away \cup {b}, back \ {b}, lost, Bufs)
    BY <1>1, <1>3 DEF Parts
  <2>3. Parts(RingSet(cache', head', n'), pool', Elems(tx'), nic', away', back', lost', Bufs)
    BY <1>2, <1>7, <2>1, <2>2
  <2>4. Cardinality(away' \cup back') <= MaxAway
    BY <1>2, <1>5, <1>7
  <2> QED BY <1>1, <1>2, <2>1, <2>3, <2>4, InvFrom
<1>8. CASE /\ cache' = Freed(<<b>>).cache
           /\ head' = Freed(<<b>>).head
           /\ n' = Freed(<<b>>).n
           /\ pool' = pool \cup Freed(<<b>>).pool
           /\ UNCHANGED <<tx, away>>
  <2> DEFINE s == <<b>>
  <2>1. s \in Seq(Bufs) /\ Len(s) = 1 /\ s[1] = b
    BY <1>3, SMTT(40)
  <2>2. Inj(s) /\ Elems(s) = {b}
    BY <2>1, SMTT(40) DEF Inj, Elems
  <2>3. /\ cache' = Freed(s).cache /\ head' = Freed(s).head /\ n' = Freed(s).n
        /\ pool' = pool \cup Freed(s).pool /\ tx' = tx /\ away' = away
    BY <1>8
  <2> HIDE DEF s
  <2>4. PICK put : FreedOk(Freed(s), s, put)
    <3>1. Elems(s) \cap C = {}
      BY <1>3, <2>2
    <3> QED BY <1>1, <2>1, <2>2, <3>1, FreedStep
  <2>5. /\ put \subseteq {b} /\ CacheOk(cache', head', n')
        /\ RingSet(cache', head', n') = C \cup put
        /\ pool' = pool \cup ({b} \ put)
    BY <2>2, <2>3, <2>4 DEF FreedOk
  <2> HIDE DEF C
  <2>6. Parts(C \cup put, pool \cup ({b} \ put), Elems(tx), nic, away, back \ {b}, lost, Bufs)
    <3>1. CASE put = {}
      <4>1. C \cup put = C /\ pool \cup ({b} \ put) = pool \cup {b}
        BY <3>1
      <4>2. Parts(C, pool \cup {b}, Elems(tx), nic, away, back \ {b}, lost, Bufs)
        BY <1>1, <1>3 DEF Parts
      <4> QED BY <4>1, <4>2
    <3>2. CASE put = {b}
      <4>1. C \cup put = C \cup {b} /\ pool \cup ({b} \ put) = pool
        BY <3>2
      <4>2. Parts(C \cup {b}, pool, Elems(tx), nic, away, back \ {b}, lost, Bufs)
        BY <1>1, <1>3 DEF Parts
      <4> QED BY <4>1, <4>2
    <3> QED BY <2>5, <3>1, <3>2
  <2>7. Parts(RingSet(cache', head', n'), pool', Elems(tx'), nic', away', back', lost', Bufs)
    BY <1>2, <2>3, <2>5, <2>6
  <2>8. Cardinality(away' \cup back') <= MaxAway
    BY <1>2, <1>5, <2>3
  <2> QED BY <1>1, <1>2, <2>3, <2>5, <2>7, <2>8, InvFrom
<1> QED BY <1>2, <1>6, <1>7, <1>8

LEMMA OthersStep ==
  ASSUME IInv, scarce' = scarce, ControlEnd \/ NicDone \/ Resolved \/ Forgotten
  PROVE  IInv'
<1> DEFINE C == RingSet(cache, head, n)
<1>1. /\ CacheOk(cache, head, n) /\ BatchOk(tx)
      /\ Parts(C, pool, Elems(tx), nic, away, back, lost, Bufs)
      /\ Cardinality(nic) <= NicSize /\ Cardinality(lost) <= MaxLost
      /\ Cardinality(away \cup back) <= MaxAway
  BY DEF IInv
<1>2. cache' = cache /\ head' = head /\ n' = n
  BY DEF ControlEnd, NicDone, Resolved, Forgotten
<1>3. RingSet(cache', head', n') = C /\ CacheOk(cache', head', n')
  BY <1>1, <1>2
<1> HIDE DEF C
<1>4. /\ nic \in SUBSET Bufs /\ away \in SUBSET Bufs /\ back \in SUBSET Bufs
      /\ lost \in SUBSET Bufs
  BY <1>1 DEF Parts
<1>5. /\ IsFiniteSet(nic) /\ Cardinality(nic) \in Nat /\ IsFiniteSet(lost)
      /\ Cardinality(lost) \in Nat
      /\ IsFiniteSet(away \cup back) /\ Cardinality(away \cup back) \in Nat
      /\ NicSize \in Nat /\ MaxAway \in Nat /\ MaxLost \in Nat
  <2>1. away \cup back \in SUBSET Bufs
    BY <1>4
  <2> QED BY <1>4, <2>1, BufsFinite, FS_CardinalityType, MbufsAssumption
<1>6. CASE ControlEnd
  <2>1. /\ fast_txflush(tx) /\ pool' = pool /\ away' = away /\ back' = back /\ lost' = lost
    BY <1>6 DEF ControlEnd
  <2>2. PICK gone : FlushOk(tx, gone)
    BY <1>1, <1>4, <2>1, FlushStep
  <2>3. /\ gone \subseteq Elems(tx) /\ nic' = nic \cup gone /\ BatchOk(tx')
        /\ Elems(tx') = Elems(tx) \ gone /\ Cardinality(nic') <= NicSize
    BY <2>2 DEF FlushOk
  <2>4. Parts(C, pool, Elems(tx) \ gone, nic \cup gone, away, back, lost, Bufs)
    <3>1. \A x : x \in gone => x \in Elems(tx)
      BY <2>3
    <3> QED BY <1>1, <3>1 DEF Parts
  <2>5. Parts(RingSet(cache', head', n'), pool', Elems(tx'), nic', away', back', lost', Bufs)
    BY <1>3, <2>1, <2>3, <2>4
  <2> QED BY <1>1, <1>3, <2>1, <2>3, <2>5, InvFrom
<1>7. CASE NicDone
  <2>1. PICK b \in nic : nic' = nic \ {b} /\ pool' = pool \cup {b}
    BY <1>7 DEF NicDone
  <2>2. tx' = tx /\ away' = away /\ back' = back /\ lost' = lost
    BY <1>7 DEF NicDone
  <2>3. Parts(C, pool \cup {b}, Elems(tx), nic \ {b}, away, back, lost, Bufs)
    BY <1>1 DEF Parts
  <2>4. Cardinality(nic \ {b}) <= NicSize
    <3>1. Cardinality(nic \ {b}) = Cardinality(nic) - 1
      BY <1>5, FS_RemoveElement
    <3> QED BY <1>1, <1>5, <3>1, SMTT(40)
  <2>5. Parts(RingSet(cache', head', n'), pool', Elems(tx'), nic', away', back', lost', Bufs)
    BY <1>3, <2>1, <2>2, <2>3
  <2> QED BY <1>1, <1>3, <2>1, <2>2, <2>4, <2>5, InvFrom
<1>8. CASE Resolved
  <2>1. PICK b \in away : away' = away \ {b} /\ back' = back \cup {b}
    BY <1>8 DEF Resolved
  <2>2. tx' = tx /\ nic' = nic /\ pool' = pool /\ lost' = lost
    BY <1>8 DEF Resolved
  <2>3. Parts(C, pool, Elems(tx), nic, away \ {b}, back \cup {b}, lost, Bufs)
    BY <1>1 DEF Parts
  <2>4. away' \cup back' = away \cup back
    BY <2>1
  <2>5. Parts(RingSet(cache', head', n'), pool', Elems(tx'), nic', away', back', lost', Bufs)
    BY <1>3, <2>1, <2>2, <2>3
  <2> QED BY <1>1, <1>3, <2>1, <2>2, <2>4, <2>5, InvFrom
<1>9. CASE Forgotten
  <2>1. PICK b \in away : away' = away \ {b} /\ lost' = lost \cup {b}
    BY <1>9 DEF Forgotten
  <2>2. tx' = tx /\ nic' = nic /\ pool' = pool /\ back' = back /\ Cardinality(lost) < MaxLost
    BY <1>9 DEF Forgotten
  <2>3. Parts(C, pool, Elems(tx), nic, away \ {b}, back, lost \cup {b}, Bufs)
    BY <1>1 DEF Parts
  <2>4. Cardinality(lost') <= MaxLost
    <3>1. Cardinality(lost \cup {b}) = IF b \in lost THEN Cardinality(lost)
                                      ELSE Cardinality(lost) + 1
      BY <1>5, FS_AddElement
    <3> QED BY <1>5, <2>1, <2>2, <3>1, SMTT(40)
  <2>5. Cardinality(away' \cup back') <= MaxAway
    <3>1. away' \cup back' \in SUBSET (away \cup back)
      BY <2>1, <2>2
    <3>2. /\ IsFiniteSet(away' \cup back')
          /\ Cardinality(away' \cup back') <= Cardinality(away \cup back)
      BY <1>5, <3>1, FS_Subset
    <3>3. Cardinality(away' \cup back') \in Nat
      BY <3>2, FS_CardinalityType
    <3> QED BY <1>1, <1>5, <3>2, <3>3, SMTT(40)
  <2>6. Parts(RingSet(cache', head', n'), pool', Elems(tx'), nic', away', back', lost', Bufs)
    BY <1>3, <2>1, <2>2, <2>3
  <2> QED BY <1>1, <1>3, <2>1, <2>2, <2>4, <2>5, <2>6, InvFrom
<1> QED BY <1>6, <1>7, <1>8, <1>9

\* Nothing changes hands.
LEMMA IdleStep ==
  ASSUME IInv, scarce' = scarce, Nothing
  PROVE  IInv'
<1>1. /\ cache' = cache /\ head' = head /\ n' = n /\ pool' = pool /\ tx' = tx /\ nic' = nic
      /\ away' = away /\ back' = back /\ lost' = lost
  BY DEF Nothing
<1>2. /\ CacheOk(cache, head, n) /\ BatchOk(tx)
      /\ Parts(RingSet(cache, head, n), pool, Elems(tx), nic, away, back, lost, Bufs)
      /\ Cardinality(nic) <= NicSize /\ Cardinality(lost) <= MaxLost
      /\ Cardinality(away \cup back) <= MaxAway
  BY DEF IInv
<1>3. /\ CacheOk(cache', head', n') /\ BatchOk(tx')
      /\ Parts(RingSet(cache', head', n'), pool', Elems(tx'), nic', away', back', lost', Bufs)
  BY <1>1, <1>2
<1> QED BY <1>1, <1>2, <1>3, InvFrom

LEMMA InitIInv == Init => IInv
<1> SUFFICES ASSUME Init PROVE IInv
  OBVIOUS
<1> DEFINE L == TX_CACHE_SIZE
           first == Some(Bufs, L)
<1>1. /\ scarce \in BOOLEAN
      /\ cache = [k \in Slots |-> first[k + 1]]
      /\ pool = Bufs \ Range(first)
      /\ head = 0 /\ n = L /\ tx = << >>
      /\ nic = {} /\ away = {} /\ back = {} /\ lost = {}
  BY DEF Init
<1>2. /\ L \in Nat \ {0} /\ NScarce \in Nat /\ NBufs \in Nat /\ NScarce >= L /\ NBufs >= L
      /\ NicSize \in Nat /\ MaxAway \in Nat /\ MaxLost \in Nat /\ TXBUF_SIZE \in Nat
  BY MbufsAssumption, SMTT(40)
<1>3. IsFiniteSet(Bufs) /\ L <= Cardinality(Bufs)
  <2>1. PICK m \in Nat : m = (IF scarce THEN NScarce ELSE NBufs)
    BY <1>2
  <2>2. m >= L
    BY <1>2, <2>1
  <2>3. Bufs = 1 .. m
    BY <2>1 DEF Bufs
  <2>4. Cardinality(1 .. m) = IF 1 > m THEN 0 ELSE m - 1 + 1
    BY FS_Interval, SMTT(40)
  <2>5. L <= Cardinality(1 .. m)
    <3> HIDE DEF L
    <3> QED BY <1>2, <2>2, <2>4, SMTT(40)
  <2> QED BY <2>3, <2>5, BufsFinite
<1>4. first \in [1 .. L -> Bufs] /\ \A i, j \in 1 .. L : first[i] = first[j] => i = j
  BY <1>2, <1>3, SomeOf
<1> HIDE DEF first
<1>5. Slots = 0 .. L - 1
  BY DEF Slots
<1>6. \A i \in 0 .. L - 1 : Mask(head + i) = i
  <2> SUFFICES ASSUME NEW i \in 0 .. L - 1 PROVE Mask(head + i) = i
    OBVIOUS
  <2>1. head + i = i
    BY <1>1, <1>2, SMTT(40)
  <2> QED BY <1>2, <2>1, MaskNear, SMTT(40)
<1> HIDE DEF L
<1>7. \A i \in 0 .. L - 1 : i + 1 \in 1 .. L /\ cache[Mask(head + i)] = first[i + 1]
  <2>1. \A i \in 0 .. L - 1 : i + 1 \in 1 .. L
    BY <1>2, SMTT(40)
  <2>2. \A i \in 0 .. L - 1 : cache[i] = first[i + 1]
    BY <1>1, <1>5
  <2> QED BY <1>6, <2>1, <2>2
<1>8. RingInj(cache, head, n)
  <2> SUFFICES ASSUME NEW i \in 0 .. L - 1, NEW j \in 0 .. L - 1,
                      cache[Mask(head + i)] = cache[Mask(head + j)]
               PROVE  i = j
    BY <1>1 DEF RingInj
  <2>1. i + 1 = j + 1
    BY <1>4, <1>7
  <2> QED BY <2>1, SMTT(40)
<1>9. RingSet(cache, head, n) = Range(first)
  <2>1. ASSUME NEW b \in RingSet(cache, head, n) PROVE b \in Range(first)
    <3>1. PICK i \in 0 .. L - 1 : b = cache[Mask(head + i)]
      BY <1>1 DEF RingSet
    <3> QED BY <1>4, <1>7, <3>1 DEF Range
  <2>2. ASSUME NEW b \in Range(first) PROVE b \in RingSet(cache, head, n)
    <3>1. PICK i \in 1 .. L : b = first[i]
      BY <1>4 DEF Range
    <3>2. i - 1 \in 0 .. L - 1 /\ (i - 1) + 1 = i
      BY <1>2, SMTT(40)
    <3>3. b = cache[Mask(head + (i - 1))]
      BY <1>7, <3>1, <3>2
    <3> QED BY <1>1, <3>2, <3>3 DEF RingSet
  <2> QED BY <2>1, <2>2
<1>10. Range(first) \subseteq Bufs
  BY <1>4 DEF Range
<1>11. CacheOk(cache, head, n)
  <2>1. head \in Slots /\ n \in 0 .. L
    BY <1>1, <1>2, <1>5, SMTT(40)
  <2>2. \A k \in Slots : k + 1 \in 1 .. L
    BY <1>2, <1>5, SMTT(40)
  <2>3. \A k \in Slots : first[k + 1] \in Bufs
    BY <1>4, <2>2
  <2>4. cache \in [Slots -> Bufs]
    BY <1>1, <2>3
  <2> QED BY <1>8, <2>1, <2>4 DEF CacheOk, L
<1>12. BatchOk(tx) /\ Elems(tx) = {}
  BY <1>1, <1>2, SMTT(40) DEF BatchOk, Inj, Elems
<1>13. Parts(RingSet(cache, head, n), pool, Elems(tx), nic, away, back, lost, Bufs)
  BY <1>1, <1>9, <1>10, <1>12 DEF Parts
<1>14. /\ Cardinality(nic) <= NicSize /\ Cardinality(away \cup back) <= MaxAway
       /\ Cardinality(lost) <= MaxLost
  <2>1. Cardinality({}) = 0 /\ away \cup back = {}
    BY <1>1, FS_EmptySet
  <2> QED BY <1>1, <1>2, <2>1, SMTT(40)
<1> QED BY <1>1, <1>11, <1>12, <1>13, <1>14 DEF IInv

LEMMA NextIInv == IInv /\ [Next]_vars => IInv'
<1> SUFFICES ASSUME IInv, [Next]_vars PROVE IInv'
  OBVIOUS
<1>1. CASE UNCHANGED vars
  <2>1. scarce' = scarce /\ Nothing
    BY <1>1 DEF vars, Nothing
  <2> QED BY <2>1, IdleStep
<1>2. CASE Next
  <2>1. scarce' = scarce
    BY <1>2 DEF Next
  <2>2. CASE fast_rx_poll \/ fast_rx_poll_comb
    BY <2>1, <2>2, IdleStep, ReceiveStep DEF fast_rx_poll, fast_rx_poll_comb
  <2>3. CASE fast_queues_poll \/ fast_sched_poll
    BY <2>1, <2>3, PollGuestsStep DEF fast_queues_poll, fast_sched_poll
  <2>4. CASE fast_queues_poll_comb \/ fast_sched_poll_comb
    BY <2>1, <2>4, PollGuestsStep DEF fast_queues_poll_comb, fast_sched_poll_comb
  <2>5. CASE QueuesPollFails \/ QueuesPollCombFails \/ SchedPollCombFails
    BY <2>1, <2>5, PollFailsStep DEF QueuesPollFails, QueuesPollCombFails,
       SchedPollCombFails
  <2>6. CASE handle_arp_tx_pkt
    BY <2>1, <2>6, ArpStep
  <2>7. CASE handle_mbuf
    BY <2>1, <2>7, MbufStep
  <2>8. CASE ControlEnd \/ NicDone \/ Resolved \/ Forgotten
    BY <2>1, <2>8, OthersStep
  <2>9. CASE ProgramsReady
    BY <2>1, <2>9, IdleStep DEF ProgramsReady
  <2> QED BY <1>2, <2>2, <2>3, <2>4, <2>5, <2>6, <2>7, <2>8, <2>9
         DEF Next, loop_fast_default, loop_fast_comb
<1> QED BY <1>1, <1>2

-----------------------------------------------------------------------------
(* The theorems *)

\* In every reachable state the slots in use and the batch hold different
\* buffers, the owners have none in common, and together they have all.
THEOREM BuffersInvariant == Spec => []IInv
<1>1. Init => IInv
  BY InitIInv
<1>2. IInv /\ [Next]_vars => IInv'
  BY NextIInv
<1> QED BY <1>1, <1>2, PTL DEF Spec

LEMMA IInvOneOwner == IInv => OneOwner
<1> SUFFICES ASSUME IInv PROVE OneOwner
  OBVIOUS
<1>1. Cached = RingSet(cache, head, n)
  BY DEF Cached, InUse, RingSet
<1>2. tx \in Seq(Bufs)
  BY DEF IInv, BatchOk
<1>3. Range(tx) = Elems(tx)
  BY <1>2, SMTT(40) DEF Range, Elems
<1>4. Parts(RingSet(cache, head, n), pool, Elems(tx), nic, away, back, lost, Bufs)
  BY DEF IInv
<1>5. Owned = Bufs
  BY <1>1, <1>3, <1>4 DEF Owned, Parts
<1> QED BY <1>5, Counted DEF OneOwner

\* Every buffer of the pool, however many there are, has one owner at any
\* time: the polls, the card and the control plane never hold the same buffer,
\* and none is lost but where an error return drops it.
THEOREM BuffersHaveOneOwner == Spec => []OneOwner
  BY BuffersInvariant, IInvOneOwner, PTL

LEMMA IInvBatchFits == IInv => BatchFits
  BY DEF IInv, BatchOk, BatchFits

\* The batch never grows beyond tx_mbs, whichever polls left packets in it and
\* however few the card took.
THEOREM BatchAlwaysFits == Spec => []BatchFits
  BY BuffersInvariant, IInvBatchFits, PTL

=============================================================================
