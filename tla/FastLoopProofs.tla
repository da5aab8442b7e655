--------------------------- MODULE FastLoopProofs ---------------------------
(***************************************************************************)
(* Proofs about the loop of a fast-path core, for every number of guests,  *)
(* cores, queues and flows, every size of batches, caps and credits, and   *)
(* whatever handlers do.                                                   *)
(***************************************************************************)
EXTENDS FastLoop, TLAPS, FiniteSetTheorems, WellFoundedInduction

\* Leaves that need arithmetic, or updates of records, say SMTT.
USE ZenonT(40)

-----------------------------------------------------------------------------
(* Induction.  tlapm cannot instantiate a theorem that has a predicate as  *)
(* its parameter; these are about sets, which it can.                      *)

\* A set of natural numbers that is not empty has a least element.
LEMMA LeastOf ==
  ASSUME NEW T \in SUBSET Nat, T # {}
  PROVE  \E x \in T : \A y \in T : x <= y
<1> DEFINE R == OpToRel(<, Nat)
<1>1. IsWellFoundedOn(R, Nat)
  BY NatLessThanWellFounded
<1>2. \A x, y \in Nat : <<x, y>> \in R <=> x < y
  BY DEF OpToRel
<1> HIDE DEF R
<1>3. PICK x \in T : \A y \in T : ~(<<y, x>> \in R)
  BY <1>1, WFMin
<1>4. ASSUME NEW y \in T
      PROVE  x <= y
  <2>1. x \in Nat /\ y \in Nat
    OBVIOUS
  <2>2. ~(y < x)
    BY <1>2, <1>3, <2>1
  <2> QED
    BY <2>1, <2>2, SMTT(40)
<1> QED
  BY <1>3, <1>4

\* A set that has 0 and with every number up to n its successor has all.
LEMMA Induct ==
  ASSUME NEW S, NEW n \in Nat, 0 \in S,
         \A i \in 0 .. n - 1 : i \in S => i + 1 \in S
  PROVE  0 .. n \subseteq S
<1> DEFINE T == (0 .. n) \ S
<1>1. SUFFICES ASSUME T # {}
               PROVE  FALSE
  OBVIOUS
<1>2. PICK x \in T : \A y \in T : x <= y
  <2>1. T \in SUBSET Nat
    BY SMTT(40)
  <2> HIDE DEF T
  <2> QED
    BY <1>1, <2>1, LeastOf
<1>3. x \in 1 .. n /\ x \notin S
  BY SMTT(40)
<1>4. x - 1 \in 0 .. n - 1 /\ x - 1 \notin S
  BY <1>3, SMTT(40)
<1>5. x - 1 \in T
  BY <1>4, SMTT(40)
<1> QED
  BY <1>2, <1>3, <1>5, SMTT(40)

-----------------------------------------------------------------------------
(* Lists of the scheduler *)

Ids == Flows \cup {SCHED_ID_INVALID}

Scheduler ==
  [ head : Ids, tail : Ids, listed : [Flows -> BOOLEAN], next : [Flows -> Ids],
    prio : [Flows -> Int], avail : [Flows -> Int] ]

\* The n entries in w are the list of s: linked, each once, in order.
Chain(s, w, n) ==
  /\ s.head = IF n = 0 THEN SCHED_ID_INVALID ELSE w[1]
  /\ s.tail = IF n = 0 THEN SCHED_ID_INVALID ELSE w[n]
  /\ \A i \in 1 .. n :
       s.next[w[i]] = IF i < n THEN w[i + 1] ELSE SCHED_ID_INVALID
  /\ \A i, k \in 1 .. n : i < k => w[i] # w[k] /\ s.prio[w[i]] <= s.prio[w[k]]

\* They are the entries that are listed.
Holds(s, w, n) == \A f \in Flows : s.listed[f] <=> \E i \in 1 .. n : w[i] = f

SchedOk(s) ==
  /\ s \in Scheduler
  /\ \E n \in Nat : \E w \in [1 .. n -> Flows] : Chain(s, w, n) /\ Holds(s, w, n)

LEMMA SchedFields ==
  ASSUME NEW s \in Scheduler
  PROVE  /\ s.head \in Ids /\ s.tail \in Ids /\ s.listed \in [Flows -> BOOLEAN]
         /\ s.next \in [Flows -> Ids] /\ s.prio \in [Flows -> Int]
         /\ s.avail \in [Flows -> Int]
BY DEF Scheduler

\* A function on the numbers up to n is a sequence of length n.
LEMMA LenIs ==
  ASSUME NEW S, NEW n \in Nat, NEW w \in [1 .. n -> S]
  PROVE  Len(w) = n
<1>1. w \in Seq(S)
  BY SMTT(40) DEF Seq
<1>2. Len(w) \in Nat /\ DOMAIN w = 1 .. Len(w)
  BY <1>1, SMTT(40)
<1>3. 1 .. n = 1 .. Len(w)
  BY <1>2
<1> QED
  BY <1>2, <1>3, SMTT(40)

\* A list on which no entry is twice is no longer than the array.
LEMMA ChainIsList ==
  ASSUME NEW n \in Nat, NEW w \in [1 .. n -> Flows],
         \A i, k \in 1 .. n : i < k => w[i] # w[k]
  PROVE  w \in Lists
<1>1. \A i, k \in 1 .. n : w[i] = w[k] => i = k
  BY SMT
<1>2. w \in Injection(1 .. n, Flows)
  BY <1>1 DEF Injection, IsInjective
<1>3. Cardinality(1 .. n) <= Cardinality(Flows)
  BY <1>2, SchedAssumption, FS_Injection
<1>4. Cardinality(1 .. n) = n
  BY FS_Interval, SMTT(40)
<1>5. Cardinality(Flows) \in Nat
  BY SchedAssumption, FS_CardinalityType
<1>6. n \in 0 .. Cardinality(Flows)
  BY <1>3, <1>4, <1>5, SMTT(40)
<1> QED
  BY <1>6 DEF Lists

\* There is one way to follow the links.
LEMMA OneWalk ==
  ASSUME NEW s, NEW n \in Nat, NEW w \in [1 .. n -> Flows],
         NEW m \in Nat, NEW v \in [1 .. m -> Flows], Linked(s, w), Linked(s, v)
  PROVE  v = w
<1>1. Len(w) = n /\ Len(v) = m
  BY LenIs
<1>2. /\ s.head = IF n = 0 THEN SCHED_ID_INVALID ELSE w[1]
      /\ \A i \in 1 .. n :
           s.next[w[i]] = IF i < n THEN w[i + 1] ELSE SCHED_ID_INVALID
  BY <1>1 DEF Linked
<1>3. /\ s.head = IF m = 0 THEN SCHED_ID_INVALID ELSE v[1]
      /\ \A i \in 1 .. m :
           s.next[v[i]] = IF i < m THEN v[i + 1] ELSE SCHED_ID_INVALID
  BY <1>1 DEF Linked
<1>4. SCHED_ID_INVALID \notin Flows
  BY SchedAssumption
<1> DEFINE S == {i \in 0 .. n : i <= m /\ (i > 0 => w[i] = v[i])}
<1>5. 0 \in S
  BY SMTT(40)
<1>6. ASSUME NEW i \in 0 .. n - 1, i \in S
      PROVE  i + 1 \in S
  <2>1. i + 1 \in 1 .. n /\ w[i + 1] \in Flows /\ i <= m
    BY <1>6, SMTT(40)
  <2>2. CASE i = 0
    BY <1>2, <1>3, <1>4, <2>1, <2>2, SMTT(40)
  <2>3. CASE i > 0
    <3>1. i \in 1 .. n /\ i \in 1 .. m /\ w[i] = v[i]
      BY <1>6, <2>3, SMTT(40)
    <3>2. s.next[w[i]] = w[i + 1]
      BY <1>2, <3>1, SMTT(40)
    <3>3. i < m /\ v[i + 1] = w[i + 1]
      BY <1>3, <1>4, <2>1, <3>1, <3>2
    <3> QED
      BY <2>1, <3>3, SMTT(40)
  <2> QED
    BY <2>2, <2>3, SMTT(40)
<1>7. 0 .. n \subseteq S
  <2> HIDE DEF S
  <2> QED
    BY <1>5, <1>6, Induct
<1>8. n <= m /\ \A i \in 1 .. n : w[i] = v[i]
  BY <1>7, SMTT(40)
<1>9. ~(n < m)
  <2> SUFFICES ASSUME n < m
               PROVE  FALSE
    OBVIOUS
  <2>1. v[n + 1] \in Flows
    BY SMTT(40)
  <2>2. CASE n = 0
    BY <1>2, <1>3, <1>4, <2>1, <2>2, SMTT(40)
  <2>3. CASE n > 0
    BY <1>2, <1>3, <1>4, <1>8, <2>1, <2>3, SMTT(40)
  <2> QED
    BY <2>2, <2>3, SMTT(40)
<1>10. n = m
  BY <1>8, <1>9, SMTT(40)
<1> QED
  BY <1>8, <1>10, SMTT(40)

\* Walk finds the list.
LEMMA WalkIs ==
  ASSUME NEW s, NEW n \in Nat, NEW w \in [1 .. n -> Flows], Chain(s, w, n)
  PROVE  Walk(s) = w /\ Len(w) = n
<1>1. Len(w) = n
  BY LenIs
<1>2. Linked(s, w)
  BY <1>1 DEF Linked, Chain
<1>3. w \in Lists
  BY ChainIsList DEF Chain
<1>4. Walk(s) \in Lists /\ Linked(s, Walk(s))
  BY <1>2, <1>3 DEF Walk
<1>5. PICK m \in Nat : Walk(s) \in [1 .. m -> Flows]
  BY <1>4, SchedAssumption, FS_CardinalityType, SMTT(40) DEF Lists
<1> QED
  BY <1>1, <1>2, <1>4, <1>5, OneWalk

\* A scheduler that is as it should be.
LEMMA OkInOrder ==
  ASSUME NEW s, SchedOk(s)
  PROVE  InOrder(s)
<1>1. PICK n \in Nat : \E w \in [1 .. n -> Flows] : Chain(s, w, n) /\ Holds(s, w, n)
  BY DEF SchedOk
<1>2. PICK w \in [1 .. n -> Flows] : Chain(s, w, n) /\ Holds(s, w, n)
  BY <1>1
<1>3. Len(w) = n
  BY LenIs
<1>4. w \in Lists
  BY <1>2, ChainIsList DEF Chain
<1>5. Linked(s, w)
  BY <1>2, <1>3 DEF Linked, Chain
<1>6. {w[i] : i \in 1 .. n} = {f \in Flows : s.listed[f]}
  BY <1>2 DEF Holds
<1>7. s.tail = IdAt(w, n)
  BY <1>2 DEF Chain, IdAt
<1>8. \A i, k \in 1 .. n : i < k => w[i] # w[k] /\ s.prio[w[i]] <= s.prio[w[k]]
  BY <1>2 DEF Chain
<1> QED
  BY <1>3, <1>4, <1>5, <1>6, <1>7, <1>8 DEF InOrder

\* The list without its entry at place a.
Drop(w, n, a) == [i \in 1 .. n - 1 |-> IF i < a THEN w[i] ELSE w[i + 1]]

Others(v, m, w, n, a) ==
  \A h \in Flows : (\E i \in 1 .. m : v[i] = h)
                      <=> h # w[a] /\ \E i \in 1 .. n : w[i] = h

LEMMA ClearedIs ==
  ASSUME NEW s \in Scheduler, NEW f \in Flows
  PROVE  /\ Cleared(s, f) \in Scheduler
         /\ Cleared(s, f).head = s.head /\ Cleared(s, f).tail = s.tail
         /\ Cleared(s, f).listed = [s.listed EXCEPT ![f] = FALSE]
         /\ Cleared(s, f).next = [s.next EXCEPT ![f] = SCHED_ID_INVALID]
         /\ Cleared(s, f).prio = [s.prio EXCEPT ![f] = 0]
         /\ Cleared(s, f).avail = [s.avail EXCEPT ![f] = 0]
<1> DEFINE listed == [s.listed EXCEPT ![f] = FALSE]
           next == [s.next EXCEPT ![f] = SCHED_ID_INVALID]
           prio == [s.prio EXCEPT ![f] = 0]
           avail == [s.avail EXCEPT ![f] = 0]
<1>1. /\ listed \in [Flows -> BOOLEAN] /\ next \in [Flows -> Ids]
      /\ prio \in [Flows -> Int] /\ avail \in [Flows -> Int]
  BY SchedFields, SMTT(40) DEF Ids
<1>2. Cleared(s, f) =
        [s EXCEPT !.listed = listed, !.next = next, !.prio = prio, !.avail = avail]
  BY DEF Cleared, Scheduler
<1> HIDE DEF listed, next, prio, avail
<1>3. /\ Cleared(s, f) \in Scheduler
      /\ Cleared(s, f).head = s.head /\ Cleared(s, f).tail = s.tail
      /\ Cleared(s, f).listed = listed /\ Cleared(s, f).next = next
      /\ Cleared(s, f).prio = prio /\ Cleared(s, f).avail = avail
  BY <1>1, <1>2 DEF Scheduler
<1> QED
  BY <1>3 DEF listed, next, prio, avail

\* What sched_remove does to the fields of a scheduler.
Unlinked(t, s, w, n, a) ==
  /\ t \in Scheduler
  /\ t.head = IF a = 1 THEN s.next[w[1]] ELSE s.head
  /\ t.tail = IF a = n THEN IdAt(w, n - 1) ELSE s.tail
  /\ \A f \in Flows :
       /\ t.next[f] = IF f = w[a] THEN SCHED_ID_INVALID
                      ELSE IF a > 1 /\ f = w[a - 1] THEN s.next[w[a]]
                      ELSE s.next[f]
       /\ t.listed[f] <=> f # w[a] /\ s.listed[f]
       /\ f # w[a] => t.prio[f] = s.prio[f]
       /\ f # w[a] => t.avail[f] = s.avail[f]

LEMMA RemoveIs ==
  ASSUME NEW s \in Scheduler, NEW n \in Nat, NEW w \in [1 .. n -> Flows],
         Chain(s, w, n), NEW a \in 1 .. n
  PROVE  Unlinked(sched_remove(s, w[a]), s, w, n, a)
<1> DEFINE f == w[a]
           prev == IdAt(w, a - 1)
           snip == IF prev = SCHED_ID_INVALID
                   THEN [s EXCEPT !.head = s.next[f]]
                   ELSE [s EXCEPT !.next[prev] = s.next[f]]
           last == [snip EXCEPT !.tail = IF @ = f THEN prev ELSE @]
           t == Cleared(last, f)
<1>1. Walk(s) = w /\ Len(w) = n
  BY WalkIs
<1>2. \A i, k \in 1 .. n : w[i] = w[k] => i = k
  BY SMT DEF Chain
<1>3. (CHOOSE i \in 1 .. n : w[i] = w[a]) = a
  BY <1>2
<1>4. sched_remove(s, w[a]) = t
  BY <1>1, <1>3 DEF sched_remove
<1>5. /\ f \in Flows /\ prev \in Ids /\ SCHED_ID_INVALID \notin Flows
      /\ prev = SCHED_ID_INVALID <=> a = 1
      /\ a > 1 => prev = w[a - 1] /\ prev # f /\ prev \in Flows
  <2>1. a > 1 => a - 1 \in 1 .. n /\ w[a - 1] \in Flows
    BY SMTT(40)
  <2> QED
    BY <1>2, <2>1, SchedAssumption, SMTT(40) DEF IdAt, Ids
<1>6. s.tail = f <=> a = n
  BY <1>2, SMTT(40) DEF Chain
<1>7. a = n => prev = IdAt(w, n - 1)
  OBVIOUS
<1>8. a = 1 => f = w[1]
  OBVIOUS
<1> HIDE DEF f, prev
<1>9. /\ snip \in Scheduler /\ snip.tail = s.tail /\ snip.listed = s.listed
      /\ snip.prio = s.prio /\ snip.avail = s.avail
      /\ snip.head = IF a = 1 THEN s.next[f] ELSE s.head
      /\ snip.next = IF a = 1 THEN s.next ELSE [s.next EXCEPT ![prev] = s.next[f]]
  BY <1>5 DEF Scheduler
<1> HIDE DEF snip
<1>10. /\ t \in Scheduler /\ t.head = snip.head
       /\ t.tail = IF snip.tail = f THEN prev ELSE snip.tail
       /\ t.listed = [snip.listed EXCEPT ![f] = FALSE]
       /\ t.next = [snip.next EXCEPT ![f] = SCHED_ID_INVALID]
       /\ t.prio = [snip.prio EXCEPT ![f] = 0]
       /\ t.avail = [snip.avail EXCEPT ![f] = 0]
  <2>1. /\ last \in Scheduler /\ last.head = snip.head
        /\ last.tail = IF snip.tail = f THEN prev ELSE snip.tail
        /\ last.listed = snip.listed /\ last.next = snip.next
        /\ last.prio = snip.prio /\ last.avail = snip.avail
    BY <1>5, <1>9 DEF Scheduler
  <2> HIDE DEF last
  <2>2. /\ t \in Scheduler /\ t.head = last.head /\ t.tail = last.tail
        /\ t.listed = [last.listed EXCEPT ![f] = FALSE]
        /\ t.next = [last.next EXCEPT ![f] = SCHED_ID_INVALID]
        /\ t.prio = [last.prio EXCEPT ![f] = 0]
        /\ t.avail = [last.avail EXCEPT ![f] = 0]
    BY <1>5, <2>1, ClearedIs
  <2> HIDE DEF t
  <2> QED
    BY <2>1, <2>2
<1> HIDE DEF t, last
<1>11. /\ t.head = IF a = 1 THEN s.next[w[1]] ELSE s.head
       /\ t.tail = IF a = n THEN IdAt(w, n - 1) ELSE s.tail
  BY <1>6, <1>7, <1>8, <1>9, <1>10
<1>12. ASSUME NEW h \in Flows
       PROVE  /\ t.next[h] = IF h = f THEN SCHED_ID_INVALID
                             ELSE IF a > 1 /\ h = prev THEN s.next[f]
                             ELSE s.next[h]
              /\ t.listed[h] <=> h # f /\ s.listed[h]
              /\ h # f => t.prio[h] = s.prio[h]
              /\ h # f => t.avail[h] = s.avail[h]
  <2>1. /\ s.listed \in [Flows -> BOOLEAN] /\ s.next \in [Flows -> Ids]
        /\ s.prio \in [Flows -> Int] /\ s.avail \in [Flows -> Int]
    BY SchedFields
  <2>2. t.next[h] = IF h = f THEN SCHED_ID_INVALID
                    ELSE IF a > 1 /\ h = prev THEN s.next[f]
                    ELSE s.next[h]
    BY <1>5, <1>9, <1>10, <2>1, SMTT(40)
  <2>3. t.listed[h] <=> h # f /\ s.listed[h]
    BY <1>5, <1>9, <1>10, <2>1, SMTT(40)
  <2> QED
    BY <1>5, <1>9, <1>10, <2>1, <2>2, <2>3, SMTT(40)
<1> QED
  BY <1>4, <1>5, <1>10, <1>11, <1>12, SMTT(40) DEF Unlinked, f

\* sched_remove: the entries before and behind the one that goes are joined.
LEMMA RemoveChain ==
  ASSUME NEW s \in Scheduler, NEW t, NEW n \in Nat, NEW w \in [1 .. n -> Flows],
         Chain(s, w, n), NEW a \in 1 .. n, Unlinked(t, s, w, n, a)
  PROVE  /\ Drop(w, n, a) \in [1 .. n - 1 -> Flows] /\ n - 1 \in Nat
         /\ Chain(t, Drop(w, n, a), n - 1)
         /\ Others(Drop(w, n, a), n - 1, w, n, a)
<1> DEFINE v == Drop(w, n, a)
           m == n - 1
<1>1. v \in [1 .. m -> Flows] /\ m \in Nat
  BY SMTT(40) DEF Drop
<1>2. \A i \in 1 .. m : v[i] = IF i < a THEN w[i] ELSE w[i + 1]
  BY DEF Drop
<1>3. \A i, k \in 1 .. n : i # k => w[i] # w[k]
  BY SMT DEF Chain
<1>4. \A i \in 1 .. m : v[i] # w[a]
  BY <1>2, <1>3, SMTT(40)
<1>5. \A i, k \in 1 .. m :
        i < k => v[i] # v[k] /\ s.prio[v[i]] <= s.prio[v[k]]
  BY <1>2, SMTT(40) DEF Chain
<1>6. \A i, k \in 1 .. m :
        i < k => v[i] # v[k] /\ t.prio[v[i]] <= t.prio[v[k]]
  BY <1>1, <1>4, <1>5 DEF Unlinked
<1>7. ASSUME NEW h \in Flows
      PROVE  (\E i \in 1 .. m : v[i] = h)
               <=> h # w[a] /\ \E i \in 1 .. n : w[i] = h
  <2>1. ASSUME NEW i \in 1 .. m, v[i] = h
        PROVE  h # w[a] /\ \E j \in 1 .. n : w[j] = h
    BY <2>1, <1>2, <1>4, SMTT(40)
  <2>2. ASSUME NEW i \in 1 .. n, w[i] = h, h # w[a]
        PROVE  \E j \in 1 .. m : v[j] = h
    <3>1. CASE i < a
      BY <3>1, <2>2, <1>2, SMTT(40)
    <3>2. CASE i > a
      <4>1. i - 1 \in 1 .. m /\ v[i - 1] = w[i]
        BY <3>2, <1>2, SMTT(40)
      <4> QED
        BY <4>1, <2>2
    <3> QED
      BY <3>1, <3>2, <2>2, SMTT(40)
  <2> QED
    BY <2>1, <2>2
<1>8. t.head = IF m = 0 THEN SCHED_ID_INVALID ELSE v[1]
  <2>1. CASE a = 1
    <3>1. t.head = s.next[w[1]]
      BY <2>1 DEF Unlinked
    <3>2. s.next[w[1]] = IF 1 < n THEN w[2] ELSE SCHED_ID_INVALID
      BY <2>1, SMTT(40) DEF Chain
    <3> QED
      BY <1>2, <2>1, <3>1, <3>2, SMTT(40)
  <2>2. CASE a > 1
    <3>1. t.head = s.head /\ s.head = w[1]
      BY <2>2, SMTT(40) DEF Unlinked, Chain
    <3> QED
      BY <1>2, <2>2, <3>1, SMTT(40)
  <2> QED
    BY <2>1, <2>2, SMTT(40)
<1>9. t.tail = IF m = 0 THEN SCHED_ID_INVALID ELSE v[m]
  <2>1. CASE a = n
    BY <2>1, <1>2, SMTT(40) DEF Unlinked, IdAt
  <2>2. CASE a < n
    <3>1. t.tail = s.tail /\ s.tail = w[n]
      BY <2>2, SMTT(40) DEF Unlinked, Chain
    <3> QED
      BY <1>2, <2>2, <3>1, SMTT(40)
  <2> QED
    BY <2>1, <2>2, SMTT(40)
<1>10. ASSUME NEW i \in 1 .. m
       PROVE  t.next[v[i]] = IF i < m THEN v[i + 1] ELSE SCHED_ID_INVALID
  <2>1. v[i] \in Flows /\ v[i] # w[a]
    BY <1>1, <1>4
  <2>2. t.next[v[i]] = IF a > 1 /\ v[i] = w[a - 1] THEN s.next[w[a]] ELSE s.next[v[i]]
    BY <2>1 DEF Unlinked
  <2>3. \A k \in 1 .. n :
          s.next[w[k]] = IF k < n THEN w[k + 1] ELSE SCHED_ID_INVALID
    BY DEF Chain
  <2>4. CASE i < a - 1
    <3>1. v[i] = w[i] /\ v[i + 1] = w[i + 1] /\ w[i] # w[a - 1] /\ i + 1 \in 1 .. m
      BY <2>4, <1>2, <1>3, SMTT(40)
    <3> QED
      BY <2>2, <2>3, <2>4, <3>1, SMTT(40)
  <2>5. CASE i = a - 1
    <3>1. v[i] = w[a - 1] /\ (a < n => v[i + 1] = w[a + 1])
      BY <2>5, <1>2, SMTT(40)
    <3> QED
      BY <2>2, <2>3, <2>5, <3>1, SMTT(40)
  <2>6. CASE i >= a
    <3>1. v[i] = w[i + 1] /\ (i < m => v[i + 1] = w[i + 2])
      BY <2>6, <1>2, SMTT(40)
    <3>2. a > 1 => w[i + 1] # w[a - 1]
      BY <2>6, <1>3, SMTT(40)
    <3>3. s.next[w[i + 1]] = IF i + 1 < n THEN w[i + 2] ELSE SCHED_ID_INVALID
      BY <2>3, SMTT(40)
    <3> QED
      BY <2>2, <3>1, <3>2, <3>3, SMTT(40)
  <2> QED
    BY <2>4, <2>5, <2>6, SMTT(40)
<1>11. Chain(t, v, m)
  BY <1>6, <1>8, <1>9, <1>10 DEF Chain
<1> QED
  BY <1>1, <1>7, <1>11 DEF Others

\* The list with entry f behind the first k.
Put(w, n, k, f) ==
  [i \in 1 .. n + 1 |-> IF i <= k THEN w[i] ELSE IF i = k + 1 THEN f ELSE w[i - 1]]

OneMore(v, m, w, n, f) ==
  \A h \in Flows : (\E i \in 1 .. m : v[i] = h)
                      <=> h = f \/ \E i \in 1 .. n : w[i] = h

\* Place k is where an entry of priority p belongs.
Place(s, w, n, p, k) ==
  /\ \A i \in 1 .. k : s.prio[w[i]] < p
  /\ k < n => s.prio[w[k + 1]] >= p

\* What sched_insert does to the fields of a scheduler.
Inserted(t, s, w, n, k, f) ==
  /\ t \in Scheduler
  /\ t.listed = s.listed /\ t.prio = s.prio /\ t.avail = s.avail
  /\ t.head = IF k = 0 THEN f ELSE s.head
  /\ t.tail = IF k = n THEN f ELSE s.tail
  /\ \A h \in Flows :
       t.next[h] = IF h = f THEN IF k < n THEN w[k + 1] ELSE SCHED_ID_INVALID
                   ELSE IF k > 0 /\ h = w[k] THEN f ELSE s.next[h]

\* The walk of sched_insert stops.
LEMMA PlaceExists ==
  ASSUME NEW s \in Scheduler, NEW n \in Nat, NEW w \in [1 .. n -> Flows],
         NEW p \in Int
  PROVE  \E k \in 0 .. n : Place(s, w, n, p, k)
<1> DEFINE T == {i \in 0 .. n : i < n => s.prio[w[i + 1]] >= p}
<1>1. \A i \in 1 .. n : s.prio[w[i]] \in Int
  BY SchedFields
<1>2. T \in SUBSET Nat /\ n \in T
  BY SMTT(40)
<1>3. PICK k \in T : \A i \in T : k <= i
  <2> HIDE DEF T
  <2> QED
    BY <1>2, LeastOf
<1>4. ASSUME NEW i \in 1 .. k
      PROVE  s.prio[w[i]] < p
  <2>1. i - 1 \in 0 .. n /\ i - 1 < k /\ i \in 1 .. n
    BY SMTT(40)
  <2>2. i - 1 \notin T
    <3> HIDE DEF T
    <3> QED
      BY <1>2, <1>3, <2>1, SMTT(40)
  <2>3. (i - 1) + 1 = i /\ i - 1 < n
    BY <2>1, SMTT(40)
  <2> QED
    BY <1>1, <2>1, <2>2, <2>3, SMTT(40)
<1>5. k \in 0 .. n /\ (k < n => s.prio[w[k + 1]] >= p)
  OBVIOUS
<1> QED
  BY <1>4, <1>5 DEF Place

LEMMA InsertIs ==
  ASSUME NEW s \in Scheduler, NEW n \in Nat, NEW w \in [1 .. n -> Flows],
         Chain(s, w, n), NEW f \in Flows, \A i \in 1 .. n : w[i] # f
  PROVE  \E k \in 0 .. n : /\ Place(s, w, n, s.prio[f], k)
                           /\ Inserted(sched_insert(s, f), s, w, n, k, f)
<1> DEFINE p == s.prio[f]
           t == sched_insert(s, f)
<1>1. Walk(s) = w /\ Len(w) = n
  BY WalkIs
<1>2. p \in Int
  BY SchedFields
<1>3. PICK k \in 0 .. n :
        /\ Place(s, w, n, p, k)
        /\ Before(s, p) = IdAt(w, k)
  <2> DEFINE P(k) == /\ \A i \in 1 .. k : s.prio[w[i]] < p
                     /\ k < n => s.prio[w[k + 1]] >= p
             k == CHOOSE k \in 0 .. n : P(k)
  <2>1. \E i \in 0 .. n : P(i)
    BY <1>2, PlaceExists DEF Place
  <2>2. k \in 0 .. n /\ P(k)
    <3> HIDE DEF P
    <3> QED
      BY <2>1
  <2>3. Before(s, p) = IdAt(w, k)
    BY <1>1 DEF Before
  <2>4. Place(s, w, n, p, k)
    BY <2>2 DEF Place
  <2> HIDE DEF k
  <2> QED
    BY <2>2, <2>3, <2>4
<1>4. SCHED_ID_INVALID \notin Flows /\ Flows \subseteq Ids /\ s.next \in [Flows -> Ids]
  BY SchedAssumption, SchedFields DEF Ids
<1>5. CASE n = 0
  <2>1. t = [s EXCEPT !.head = f, !.tail = f, !.next[f] = SCHED_ID_INVALID]
    BY <1>5 DEF Chain, sched_insert
  <2>2. /\ t \in Scheduler /\ t.listed = s.listed /\ t.prio = s.prio
        /\ t.avail = s.avail /\ t.head = f /\ t.tail = f
        /\ t.next = [s.next EXCEPT ![f] = SCHED_ID_INVALID]
    <3> HIDE DEF t
    <3> QED
      BY <1>4, <2>1 DEF Scheduler, Ids
  <2>3. k = 0
    BY <1>5, SMTT(40)
  <2> HIDE DEF t
  <2>4. Inserted(t, s, w, n, k, f)
    BY <1>4, <1>5, <2>2, <2>3, SMTT(40) DEF Inserted
  <2> QED
    BY <1>3, <2>4 DEF t
<1>6. CASE n > 0 /\ k = 0
  <2>1. s.head = w[1] /\ w[1] \in Flows /\ Before(s, p) = SCHED_ID_INVALID
    BY <1>3, <1>6, SMTT(40) DEF Chain, IdAt
  <2>2. t = [s EXCEPT !.head = f, !.next[f] = s.head]
    BY <1>4, <2>1 DEF sched_insert
  <2>3. /\ t \in Scheduler /\ t.listed = s.listed /\ t.prio = s.prio
        /\ t.avail = s.avail /\ t.head = f /\ t.tail = s.tail
        /\ t.next = [s.next EXCEPT ![f] = w[1]]
    <3> HIDE DEF t
    <3> QED
      BY <1>4, <2>1, <2>2 DEF Scheduler, Ids
  <2> HIDE DEF t
  <2>4. Inserted(t, s, w, n, k, f)
    BY <1>4, <1>6, <2>3, SMTT(40) DEF Inserted
  <2> QED
    BY <1>3, <2>4 DEF t
<1>7. CASE k > 0
  <2> DEFINE prev == w[k]
             tail == IF s.next[prev] = SCHED_ID_INVALID THEN f ELSE s.tail
             next == [s.next EXCEPT ![f] = s.next[prev], ![prev] = f]
  <2>1. /\ n > 0 /\ s.head = w[1] /\ w[1] \in Flows /\ prev \in Flows /\ prev # f
        /\ Before(s, p) = prev
    BY <1>3, <1>7, SMTT(40) DEF Chain, IdAt
  <2>2. t = [s EXCEPT !.next[f] = s.next[prev], !.next[prev] = f,
                      !.tail = IF s.next[prev] = SCHED_ID_INVALID THEN f ELSE @]
    BY <1>4, <2>1 DEF sched_insert
  <2>3. s.next[prev] = IF k < n THEN w[k + 1] ELSE SCHED_ID_INVALID
    BY <1>7, SMTT(40) DEF Chain
  <2>4. k < n => w[k + 1] \in Flows
    BY SMTT(40)
  <2>5. tail = (IF k = n THEN f ELSE s.tail) /\ tail \in Ids
    BY <1>4, <2>3, <2>4, SchedFields, SMTT(40)
  <2> HIDE DEF prev
  <2>6. /\ next \in [Flows -> Ids]
        /\ \A h \in Flows : next[h] = IF h = prev THEN f
                                      ELSE IF h = f THEN s.next[prev] ELSE s.next[h]
    BY <1>4, <2>1
  <2>7. t = [s EXCEPT !.next = next, !.tail = tail]
    BY <2>1, <2>2 DEF Scheduler
  <2> HIDE DEF next, tail, t
  <2>8. /\ t \in Scheduler /\ t.listed = s.listed /\ t.prio = s.prio
        /\ t.avail = s.avail /\ t.head = s.head /\ t.tail = tail /\ t.next = next
    BY <2>5, <2>6, <2>7 DEF Scheduler
  <2>9. Inserted(t, s, w, n, k, f)
    BY <1>7, <2>1, <2>3, <2>5, <2>6, <2>8, SMTT(40) DEF Inserted, prev
  <2> QED
    BY <1>3, <2>9 DEF t
<1> QED
  BY <1>5, <1>6, <1>7, SMTT(40)

\* sched_insert: the new entry is linked between its neighbours.
LEMMA InsertChain ==
  ASSUME NEW s \in Scheduler, NEW t, NEW n \in Nat, NEW w \in [1 .. n -> Flows],
         Chain(s, w, n), NEW f \in Flows, \A i \in 1 .. n : w[i] # f,
         NEW k \in 0 .. n, Place(s, w, n, s.prio[f], k), Inserted(t, s, w, n, k, f)
  PROVE  /\ Put(w, n, k, f) \in [1 .. n + 1 -> Flows] /\ n + 1 \in Nat
         /\ Chain(t, Put(w, n, k, f), n + 1)
         /\ OneMore(Put(w, n, k, f), n + 1, w, n, f)
<1> DEFINE v == Put(w, n, k, f)
           m == n + 1
<1>1. v \in [1 .. m -> Flows] /\ m \in Nat
  BY SMTT(40) DEF Put
<1>2. \A i \in 1 .. m :
        v[i] = IF i <= k THEN w[i] ELSE IF i = k + 1 THEN f ELSE w[i - 1]
  BY DEF Put
<1>3. \A i \in 1 .. n : w[i] \in Flows /\ s.prio[w[i]] \in Int
  BY SchedFields
<1>4. s.prio[f] \in Int
  BY SchedFields
<1>5. \A i, j \in 1 .. n : i < j => w[i] # w[j] /\ s.prio[w[i]] <= s.prio[w[j]]
  BY DEF Chain
<1>6. \A i \in 1 .. n : i <= k => s.prio[w[i]] <= s.prio[f]
  BY <1>3, <1>4, SMTT(40) DEF Place
<1>7. \A i \in 1 .. n : i > k => s.prio[f] <= s.prio[w[i]]
  <2> SUFFICES ASSUME NEW i \in 1 .. n, i > k
               PROVE  s.prio[f] <= s.prio[w[i]]
    OBVIOUS
  <2>1. k + 1 \in 1 .. n /\ s.prio[w[k + 1]] >= s.prio[f]
    BY SMTT(40) DEF Place
  <2>2. s.prio[w[k + 1]] <= s.prio[w[i]]
    BY <1>3, <1>5, <2>1, SMTT(40)
  <2> QED
    BY <1>3, <1>4, <2>1, <2>2, SMTT(40)
<1>8. ASSUME NEW i \in 1 .. m, NEW j \in 1 .. m, i < j
      PROVE  v[i] # v[j] /\ s.prio[v[i]] <= s.prio[v[j]]
  <2>1. CASE j <= k
    BY <1>2, <1>5, <1>8, <2>1, SMTT(40)
  <2>2. CASE j = k + 1
    BY <1>2, <1>6, <1>8, <2>2, SMTT(40)
  <2>3. CASE j > k + 1 /\ i <= k
    BY <1>2, <1>5, <1>8, <2>3, SMTT(40)
  <2>4. CASE j > k + 1 /\ i = k + 1
    BY <1>2, <1>7, <1>8, <2>4, SMTT(40)
  <2>5. CASE i > k + 1
    BY <1>2, <1>5, <1>8, <2>5, SMTT(40)
  <2> QED
    BY <2>1, <2>2, <2>3, <2>4, <2>5, SMTT(40)
<1>9. ASSUME NEW h \in Flows
      PROVE  (\E i \in 1 .. m : v[i] = h) <=> h = f \/ \E i \in 1 .. n : w[i] = h
  <2>1. ASSUME NEW i \in 1 .. m, v[i] = h
        PROVE  h = f \/ \E j \in 1 .. n : w[j] = h
    BY <2>1, <1>2, SMTT(40)
  <2>2. k + 1 \in 1 .. m /\ v[k + 1] = f
    BY <1>2, SMTT(40)
  <2>3. ASSUME NEW i \in 1 .. n, w[i] = h
        PROVE  \E j \in 1 .. m : v[j] = h
    <3>1. CASE i <= k
      BY <3>1, <2>3, <1>2, SMTT(40)
    <3>2. CASE i > k
      <4>1. i + 1 \in 1 .. m /\ v[i + 1] = w[i]
        BY <3>2, <1>2, SMTT(40)
      <4> QED
        BY <4>1, <2>3
    <3> QED
      BY <3>1, <3>2, SMTT(40)
  <2> QED
    BY <2>1, <2>2, <2>3
<1>10. t.head = v[1]
  <2>1. k = 0 => v[1] = f
    BY <1>2, SMTT(40)
  <2>2. k > 0 => v[1] = w[1] /\ s.head = w[1]
    BY <1>2, SMTT(40) DEF Chain
  <2> QED
    BY <2>1, <2>2, SMTT(40) DEF Inserted
<1>11. t.tail = v[m]
  <2>1. k = n => v[m] = f
    BY <1>2, SMTT(40)
  <2>2. k < n => v[m] = w[n] /\ s.tail = w[n]
    BY <1>2, SMTT(40) DEF Chain
  <2> QED
    BY <2>1, <2>2, SMTT(40) DEF Inserted
<1>12. ASSUME NEW i \in 1 .. m
       PROVE  t.next[v[i]] = IF i < m THEN v[i + 1] ELSE SCHED_ID_INVALID
  <2>1. /\ v[i] \in Flows
        /\ t.next[v[i]] =
             IF v[i] = f THEN IF k < n THEN w[k + 1] ELSE SCHED_ID_INVALID
             ELSE IF k > 0 /\ v[i] = w[k] THEN f ELSE s.next[v[i]]
    BY <1>1 DEF Inserted
  <2>2. \A j \in 1 .. n :
          s.next[w[j]] = IF j < n THEN w[j + 1] ELSE SCHED_ID_INVALID
    BY DEF Chain
  <2>3. CASE i < k
    <3>1. v[i] = w[i] /\ v[i + 1] = w[i + 1] /\ w[i] # f /\ w[i] # w[k] /\ i < n
      BY <1>2, <1>5, <2>3, SMTT(40)
    <3> QED
      BY <2>1, <2>2, <2>3, <3>1, SMTT(40)
  <2>4. CASE i = k
    <3>1. v[i] = w[k] /\ w[k] # f /\ v[i + 1] = f /\ i < m
      BY <1>2, <2>4, SMTT(40)
    <3> QED
      BY <2>1, <2>4, <3>1, SMTT(40)
  <2>5. CASE i = k + 1
    <3>1. v[i] = f /\ (k < n => v[i + 1] = w[k + 1])
      BY <1>2, <2>5, SMTT(40)
    <3> QED
      BY <2>1, <2>5, <3>1, SMTT(40)
  <2>6. CASE i > k + 1
    <3>1. /\ i - 1 \in 1 .. n /\ v[i] = w[i - 1] /\ w[i - 1] # f
          /\ k > 0 => w[i - 1] # w[k]
          /\ i < m => v[i + 1] = w[i]
      BY <1>2, <1>5, <2>6, SMTT(40)
    <3>2. s.next[w[i - 1]] = IF i - 1 < n THEN w[(i - 1) + 1] ELSE SCHED_ID_INVALID
      BY <2>2, <3>1
    <3> QED
      BY <2>1, <2>6, <3>1, <3>2, SMTT(40)
  <2> QED
    BY <2>3, <2>4, <2>5, <2>6, SMTT(40)
<1>13. Chain(t, v, m)
  <2>1. m # 0
    BY SMTT(40)
  <2>2. t.prio = s.prio
    BY DEF Inserted
  <2> HIDE DEF v, m
  <2> QED
    BY <1>8, <1>10, <1>11, <1>12, <2>1, <2>2 DEF Chain
<1> QED
  BY <1>1, <1>9, <1>13 DEF OneMore

\* An empty scheduler.
LEMMA InitSchedOk == SchedOk(sched_init)
<1>1. sched_init \in Scheduler
  BY SMTT(40) DEF sched_init, Scheduler, Ids
<1> DEFINE w == [i \in 1 .. 0 |-> SCHED_ID_INVALID]
<1>2. w \in [1 .. 0 -> Flows]
  BY SMTT(40)
<1>3. Chain(sched_init, w, 0) /\ Holds(sched_init, w, 0)
  BY SMTT(40) DEF Chain, Holds, sched_init
<1> HIDE DEF w
<1> QED
  BY <1>1, <1>2, <1>3 DEF SchedOk

LEMMA RemoveOk ==
  ASSUME NEW s, SchedOk(s), NEW f \in Flows, s.listed[f]
  PROVE  SchedOk(sched_remove(s, f)) /\ ~sched_remove(s, f).listed[f]
<1> DEFINE t == sched_remove(s, f)
<1>1. s \in Scheduler
  BY DEF SchedOk
<1>2. PICK n \in Nat : \E w \in [1 .. n -> Flows] : Chain(s, w, n) /\ Holds(s, w, n)
  BY DEF SchedOk
<1>3. PICK w \in [1 .. n -> Flows] : Chain(s, w, n) /\ Holds(s, w, n)
  BY <1>2
<1>4. PICK a \in 1 .. n : w[a] = f
  BY <1>3 DEF Holds
<1>5. Unlinked(t, s, w, n, a)
  BY <1>1, <1>3, <1>4, RemoveIs
<1> HIDE DEF t
<1> DEFINE v == Drop(w, n, a)
<1>7. /\ v \in [1 .. n - 1 -> Flows] /\ n - 1 \in Nat /\ Chain(t, v, n - 1)
      /\ Others(v, n - 1, w, n, a)
  BY <1>1, <1>3, <1>5, RemoveChain
<1> HIDE DEF v
<1>8. t \in Scheduler /\ \A h \in Flows : t.listed[h] <=> h # w[a] /\ s.listed[h]
  BY <1>5 DEF Unlinked
<1>9. Holds(t, v, n - 1)
  BY <1>3, <1>7, <1>8 DEF Holds, Others
<1>10. ~t.listed[f]
  BY <1>4, <1>8
<1> QED
  BY <1>7, <1>8, <1>9, <1>10 DEF SchedOk, t

\* sched_pop removes the head.
LEMMA PopIsRemove ==
  ASSUME NEW s, SchedOk(s), s.head # SCHED_ID_INVALID
  PROVE  /\ s.head \in Flows /\ s.listed[s.head]
         /\ sched_pop(s) = sched_remove(s, s.head)
<1>1. s \in Scheduler
  BY DEF SchedOk
<1>2. PICK n \in Nat : \E w \in [1 .. n -> Flows] : Chain(s, w, n) /\ Holds(s, w, n)
  BY DEF SchedOk
<1>3. PICK w \in [1 .. n -> Flows] : Chain(s, w, n) /\ Holds(s, w, n)
  BY <1>2
<1>4. n > 0 /\ s.head = w[1] /\ w[1] \in Flows
  BY <1>3, SMTT(40) DEF Chain
<1>5. s.listed[s.head]
  BY <1>3, <1>4, SMTT(40) DEF Holds
<1>6. Walk(s) = w /\ Len(w) = n
  BY <1>3, WalkIs
<1>7. (CHOOSE i \in 1 .. n : w[i] = w[1]) = 1
  <2>1. \A i \in 1 .. n : w[i] = w[1] => i = 1
    BY <1>3, <1>4, SMTT(40) DEF Chain
  <2> QED
    BY <1>4, <2>1, SMTT(40)
<1>8. s.next[w[1]] = SCHED_ID_INVALID <=> s.tail = w[1]
  <2>1. n = 1 => s.next[w[1]] = SCHED_ID_INVALID /\ s.tail = w[1]
    BY <1>3, SMTT(40) DEF Chain
  <2>2. n > 1 => /\ s.next[w[1]] = w[2] /\ w[2] \in Flows
                 /\ s.tail = w[n] /\ w[n] # w[1]
    BY <1>3, <1>4, SMTT(40) DEF Chain
  <2> QED
    BY <1>4, <2>1, <2>2, SchedAssumption, SMTT(40)
<1> DEFINE f == w[1]
           a == [s EXCEPT !.head = s.next[f],
                          !.tail = IF s.next[f] = SCHED_ID_INVALID
                                   THEN SCHED_ID_INVALID ELSE @]
           snip == [s EXCEPT !.head = s.next[f]]
           b == [snip EXCEPT !.tail = IF @ = f THEN SCHED_ID_INVALID ELSE @]
<1>9. sched_pop(s) = Cleared(a, f)
  BY <1>4 DEF sched_pop
<1>10. sched_remove(s, f) = Cleared(b, f)
  <2>1. IdAt(w, 1 - 1) = SCHED_ID_INVALID
    BY SMTT(40) DEF IdAt
  <2> QED
    BY <1>6, <1>7, <2>1 DEF sched_remove
<1>11. a = b
  <2> HIDE DEF f
  <2>1. s.next[f] = SCHED_ID_INVALID <=> s.tail = f
    BY <1>8 DEF f
  <2> QED
    BY <1>1, <2>1 DEF Scheduler
<1> QED
  BY <1>4, <1>5, <1>9, <1>10, <1>11

\* The fields of an entry that is to be inserted.
Filled(s, f, p, x) ==
  [s EXCEPT !.listed[f] = TRUE, !.prio[f] = p, !.avail[f] = x,
            !.next[f] = SCHED_ID_INVALID]

\* An entry that is not listed is entered.
LEMMA EnterOk ==
  ASSUME NEW s, SchedOk(s), NEW f \in Flows, ~s.listed[f], NEW p \in Int,
         NEW x \in Int
  PROVE  SchedOk(sched_insert(Filled(s, f, p, x), f))
<1> DEFINE r == Filled(s, f, p, x)
           t == sched_insert(r, f)
           listed == [s.listed EXCEPT ![f] = TRUE]
           prio == [s.prio EXCEPT ![f] = p]
           avail == [s.avail EXCEPT ![f] = x]
           next == [s.next EXCEPT ![f] = SCHED_ID_INVALID]
<1>1. s \in Scheduler
  BY DEF SchedOk
<1>2. PICK n \in Nat : \E w \in [1 .. n -> Flows] : Chain(s, w, n) /\ Holds(s, w, n)
  BY DEF SchedOk
<1>3. PICK w \in [1 .. n -> Flows] : Chain(s, w, n) /\ Holds(s, w, n)
  BY <1>2
<1>4. \A i \in 1 .. n : w[i] \in Flows /\ w[i] # f
  BY <1>3 DEF Holds
<1>5. r = [s EXCEPT !.listed = listed, !.prio = prio, !.avail = avail, !.next = next]
  BY <1>1 DEF Scheduler, Filled
<1>6. /\ listed \in [Flows -> BOOLEAN] /\ prio \in [Flows -> Int]
      /\ avail \in [Flows -> Int] /\ next \in [Flows -> Ids]
  BY <1>1, SchedFields DEF Ids
<1>7. ASSUME NEW h \in Flows
      PROVE  /\ listed[h] <=> h = f \/ s.listed[h]
             /\ h # f => prio[h] = s.prio[h]
             /\ h # f => next[h] = s.next[h]
  BY <1>1, SchedFields
<1> HIDE DEF listed, prio, avail, next, r
<1>8. /\ r \in Scheduler /\ r.listed = listed /\ r.prio = prio /\ r.next = next
      /\ r.head = s.head /\ r.tail = s.tail
  BY <1>1, <1>5, <1>6 DEF Scheduler
<1>9. Chain(r, w, n)
  BY <1>3, <1>4, <1>7, <1>8 DEF Chain
<1>10. PICK k \in 0 .. n : Place(r, w, n, r.prio[f], k) /\ Inserted(t, r, w, n, k, f)
  BY <1>4, <1>8, <1>9, InsertIs
<1> HIDE DEF t
<1> DEFINE v == Put(w, n, k, f)
<1>12. /\ v \in [1 .. n + 1 -> Flows] /\ n + 1 \in Nat /\ Chain(t, v, n + 1)
       /\ OneMore(v, n + 1, w, n, f)
  BY <1>4, <1>8, <1>9, <1>10, InsertChain
<1> HIDE DEF v
<1>13. t \in Scheduler /\ t.listed = listed
  BY <1>8, <1>10 DEF Inserted
<1>14. Holds(t, v, n + 1)
  BY <1>3, <1>7, <1>12, <1>13 DEF Holds, OneMore
<1> QED
  BY <1>12, <1>13, <1>14 DEF SchedOk, t, r

\* sched_add keeps the list in order, whether the entry is new, stays or moves.
LEMMA AddOk ==
  ASSUME NEW s, SchedOk(s), NEW f \in Flows, NEW p \in Int, NEW x \in Int
  PROVE  SchedOk(sched_add(s, f, p, x))
<1>1. s \in Scheduler
  BY DEF SchedOk
<1>2. CASE s.listed[f] /\ s.prio[f] = p
  <2> DEFINE avail == [s.avail EXCEPT ![f] = @ + x]
             t == sched_add(s, f, p, x)
  <2>1. t = [s EXCEPT !.avail = avail]
    BY <1>1, <1>2 DEF sched_add, Scheduler
  <2>2. avail \in [Flows -> Int]
    BY <1>1, SchedFields, SMTT(40)
  <2> HIDE DEF avail, t
  <2>3. /\ t \in Scheduler /\ t.listed = s.listed /\ t.prio = s.prio
        /\ t.next = s.next /\ t.head = s.head /\ t.tail = s.tail
    BY <1>1, <2>1, <2>2 DEF Scheduler
  <2>4. \A n, w : Chain(s, w, n) /\ Holds(s, w, n) => Chain(t, w, n) /\ Holds(t, w, n)
    BY <2>3 DEF Chain, Holds
  <2> QED
    BY <2>3, <2>4 DEF SchedOk, t
<1>3. CASE ~(s.listed[f] /\ s.prio[f] = p)
  <2> DEFINE out == IF s.listed[f] THEN sched_remove(s, f) ELSE s
             y == s.avail[f] + x
  <2>1. SchedOk(out) /\ ~out.listed[f]
    BY RemoveOk
  <2>2. y \in Int
    BY <1>1, SchedFields, SMTT(40)
  <2>3. sched_add(s, f, p, x) =
          sched_insert(Filled(out, f, p, y), f)
    BY <1>3 DEF sched_add, Filled
  <2> HIDE DEF out, y
  <2> QED
    BY <2>1, <2>2, <2>3, EnterOk
<1> QED
  BY <1>2, <1>3

\* Whatever a handler does to a scheduler, it stays as it should be.
LEMMA HandledOk ==
  ASSUME NEW s, SchedOk(s), load.flows \subseteq Flows, NEW t \in Handled(s)
  PROVE  SchedOk(t)
<1>1. CASE t = s
  BY <1>1
<1>2. ASSUME NEW f \in load.flows, NEW p \in Prios,
             t \in { sched_add(s, f, p, 1),
                     sched_add(IF s.listed[f] THEN sched_remove(s, f) ELSE s, f, p, 1) }
      PROVE  SchedOk(t)
  <2> DEFINE out == IF s.listed[f] THEN sched_remove(s, f) ELSE s
  <2>1. f \in Flows /\ p \in Int /\ 1 \in Int
    BY LoopAssumption, SMTT(40)
  <2>2. SchedOk(out)
    BY <2>1, RemoveOk
  <2>3. t = sched_add(s, f, p, 1) \/ t = sched_add(out, f, p, 1)
    BY <1>2
  <2> HIDE DEF out
  <2> QED
    BY <2>1, <2>2, <2>3, AddOk
<1>3. t = s \/ \E f \in load.flows, p \in Prios :
                   t \in { sched_add(s, f, p, 1),
                           sched_add(IF s.listed[f] THEN sched_remove(s, f) ELSE s,
                                     f, p, 1) }
  BY SMTT(40) DEF Handled
<1> QED
  BY <1>1, <1>2, <1>3

LEMMA SentOk ==
  ASSUME NEW s, SchedOk(s), s.head # SCHED_ID_INVALID, NEW t \in Sent(s)
  PROVE  SchedOk(t)
<1> DEFINE f == s.head
           out == sched_pop(s)
           x == s.avail[f] - 1
<1>1. f \in Flows /\ SchedOk(out)
  BY PopIsRemove, RemoveOk, SMTT(40)
<1>2. x \in Int
  BY <1>1, SchedFields, SMTT(40) DEF SchedOk
<1>3. t = out \/ \E p \in Prios : t = sched_add(out, f, p, x)
  BY DEF Sent
<1> HIDE DEF f, out, x
<1>4. \A p \in Prios : p \in Int
  BY LoopAssumption
<1> QED
  BY <1>1, <1>2, <1>3, <1>4, AddOk

-----------------------------------------------------------------------------
(* Lists of polled queues *)

QueueIds == Queues \cup {PROTOQ_ID_INVALID}

QueueList ==
  [ head : QueueIds, tail : QueueIds, n : Nat, next : [Queues -> QueueIds],
    prev : [Queues -> QueueIds] ]

\* List l is the queues in w, which are those in on.
Enumerates(l, w, on) ==
  /\ IsList(l, w, l.n)
  /\ \A q \in Queues : q \in on <=> \E i \in 1 .. l.n : w[i] = q

\* A list that is as it should be.  Rotation does not keep the links to previous
\* queues; that of the only queue is right, and no other one is used.
ListOk(l, on) ==
  /\ l \in QueueList
  /\ l.n = 1 => l.prev[l.head] = PROTOQ_ID_INVALID
  /\ \E w \in [1 .. l.n -> Queues] : Enumerates(l, w, on)

LEMMA ListFields ==
  ASSUME NEW l \in QueueList
  PROVE  /\ l.head \in QueueIds /\ l.tail \in QueueIds /\ l.n \in Nat
         /\ l.next \in [Queues -> QueueIds] /\ l.prev \in [Queues -> QueueIds]
BY DEF QueueList

LEMMA EmptyListOk ==
  ASSUME NEW on, \A q \in Queues : q \notin on
  PROVE  ListOk(NoQueues, on)
<1> DEFINE w == [i \in 1 .. 0 |-> PROTOQ_ID_INVALID]
<1>1. NoQueues \in QueueList /\ NoQueues.n = 0
  BY DEF NoQueues, QueueList, QueueIds
<1>2. w \in [1 .. 0 -> Queues]
  BY SMTT(40)
<1>3. Enumerates(NoQueues, w, on)
  BY SMTT(40) DEF Enumerates, IsList, NoQueues
<1>4. \E v \in [1 .. 0 -> Queues] : Enumerates(NoQueues, v, on)
  BY <1>2, <1>3
<1>5. 0 # 1
  BY SMTT(40)
<1> QED
  BY <1>1, <1>4, <1>5 DEF ListOk

\* ListExact says the same with the number of the queues.
LEMMA OkIsExact ==
  ASSUME NEW l, NEW on \in SUBSET Queues, ListOk(l, on)
  PROVE  \E w \in [1 .. Cardinality(on) -> on] : IsList(l, w, Cardinality(on))
<1>1. PICK w \in [1 .. l.n -> Queues] : Enumerates(l, w, on)
  BY DEF ListOk
<1> DEFINE n == l.n
<1>2. n \in Nat
  BY ListFields DEF ListOk
<1>3. \A i, k \in 1 .. n : i < k => w[i] # w[k]
  BY <1>1 DEF Enumerates, IsList
<1>4. w \in [1 .. n -> on] /\ \A q \in on : \E i \in 1 .. n : w[i] = q
  BY <1>1 DEF Enumerates
<1> HIDE DEF n
<1>5. \A i, k \in 1 .. n : w[i] = w[k] => i = k
  BY <1>2, <1>3, SMTT(40)
<1>6. w \in Bijection(1 .. n, on)
  BY <1>4, <1>5 DEF Bijection, Injection, Surjection, IsInjective
<1>7. IsFiniteSet(1 .. n) /\ Cardinality(1 .. n) = n
  BY <1>2, FS_Interval, SMTT(40)
<1>8. Cardinality(on) = n
  BY <1>6, <1>7, FS_Bijection DEF ExistsBijection
<1> QED
  BY <1>1, <1>4, <1>8 DEF Enumerates, n

\* dqueue_rotate_head.
LEMMA RotatedOk ==
  ASSUME NEW l, NEW on, ListOk(l, on), l.n > 0
  PROVE  ListOk(Rotated(l), on) /\ Rotated(l).n = l.n
<1>1. PICK w \in [1 .. l.n -> Queues] : Enumerates(l, w, on)
  BY DEF ListOk
<1> DEFINE n == l.n
           q == l.head
           linked == [l.next EXCEPT ![l.tail] = q]
           head == IF n = 1 THEN q ELSE linked[q]
           next == [linked EXCEPT ![q] = PROTOQ_ID_INVALID]
           r == Rotated(l)
           v == [i \in 1 .. n |-> IF i < n THEN w[i + 1] ELSE w[1]]
<1>2. l \in QueueList /\ (n = 1 => l.prev[q] = PROTOQ_ID_INVALID)
  BY DEF ListOk
<1>3. n \in Nat /\ n > 0 /\ l.next \in [Queues -> QueueIds]
  BY <1>2, ListFields
<1>4. /\ q = w[1] /\ l.tail = w[n]
      /\ \A i \in 1 .. n : l.next[w[i]] = IF i < n THEN w[i + 1] ELSE PROTOQ_ID_INVALID
      /\ \A i, k \in 1 .. n : i < k => w[i] # w[k]
      /\ \A h \in Queues : h \in on <=> \E i \in 1 .. n : w[i] = h
  BY <1>1, <1>3, SMTT(40) DEF Enumerates, IsList
<1>5. r = [l EXCEPT !.tail = q, !.head = head, !.next = next]
  BY DEF Rotated
<1> HIDE DEF n, q, r
<1>6. \A i \in 1 .. n : w[i] \in Queues
  BY <1>1 DEF n
<1>7. q \in Queues /\ l.tail \in Queues
  BY <1>3, <1>4, <1>6, SMTT(40)
<1>8. /\ linked \in [Queues -> QueueIds]
      /\ \A h \in Queues : linked[h] = IF h = l.tail THEN q ELSE l.next[h]
  BY <1>3, <1>7 DEF QueueIds
<1> HIDE DEF linked
<1>9. /\ next \in [Queues -> QueueIds]
      /\ \A h \in Queues : next[h] = IF h = q THEN PROTOQ_ID_INVALID
                                     ELSE IF h = l.tail THEN q ELSE l.next[h]
  BY <1>7, <1>8 DEF QueueIds
<1>10. head = IF n = 1 THEN w[1] ELSE w[2]
  <2>1. n > 1 => q # l.tail /\ l.next[q] = w[2]
    BY <1>3, <1>4, SMTT(40)
  <2> QED
    BY <1>3, <1>4, <1>7, <1>8, <2>1, SMTT(40)
<1>11. head \in Queues
  BY <1>3, <1>6, <1>10, SMTT(40)
<1> HIDE DEF next, head
<1>12. /\ r \in QueueList /\ r.n = n /\ r.head = head /\ r.tail = q
       /\ r.next = next /\ r.prev = l.prev
  BY <1>2, <1>5, <1>7, <1>9, <1>11 DEF QueueList, QueueIds, n
<1>13. /\ v \in [1 .. n -> Queues]
       /\ \A i \in 1 .. n : v[i] = IF i < n THEN w[i + 1] ELSE w[1]
  BY <1>3, <1>6, SMTT(40)
<1> HIDE DEF v
<1>14. head = v[1] /\ q = v[n]
  BY <1>3, <1>4, <1>10, <1>13, SMTT(40)
<1>15. ASSUME NEW i \in 1 .. n
       PROVE  next[v[i]] = IF i < n THEN v[i + 1] ELSE PROTOQ_ID_INVALID
  <2>1. CASE i = n
    BY <1>7, <1>9, <1>14, <2>1, SMTT(40)
  <2>2. CASE i < n
    <3>1. v[i] = w[i + 1] /\ v[i] \in Queues /\ v[i] # q
      BY <1>3, <1>4, <1>6, <1>13, <2>2, SMTT(40)
    <3>2. CASE i + 1 = n
      <4>1. v[i] = l.tail /\ v[i + 1] = q
        BY <1>4, <1>14, <3>1, <3>2
      <4> QED
        BY <1>9, <2>2, <3>1, <4>1
    <3>3. CASE i + 1 < n
      <4>1. /\ v[i] # l.tail /\ l.next[w[i + 1]] = w[i + 2]
            /\ v[i + 1] = w[i + 2]
        BY <1>3, <1>4, <1>13, <3>1, <3>3, SMTT(40)
      <4> QED
        BY <1>9, <2>2, <3>1, <4>1
    <3> QED
      BY <1>3, <2>2, <3>2, <3>3, SMTT(40)
  <2> QED
    BY <1>3, <2>1, <2>2, SMTT(40)
<1>16. \A i, k \in 1 .. n : i < k => v[i] # v[k]
  BY <1>3, <1>4, <1>13, SMTT(40)
<1>17. ASSUME NEW h \in Queues
       PROVE  h \in on <=> \E i \in 1 .. n : v[i] = h
  <2>1. ASSUME NEW i \in 1 .. n
        PROVE  \E k \in 1 .. n : v[k] = w[i]
    <3>1. CASE i = 1
      <4>1. n \in 1 .. n
        BY <1>3, SMTT(40)
      <4>2. v[n] = w[i]
        BY <1>4, <1>14, <3>1
      <4> QED
        BY <4>1, <4>2
    <3>2. CASE i > 1
      <4>1. i - 1 \in 1 .. n /\ i - 1 < n /\ (i - 1) + 1 = i
        BY <1>3, <3>2, SMTT(40)
      <4>2. v[i - 1] = w[i]
        BY <1>13, <4>1
      <4> QED
        BY <4>1, <4>2
    <3> QED
      BY <1>3, <3>1, <3>2, SMTT(40)
  <2>2. ASSUME NEW i \in 1 .. n
        PROVE  \E k \in 1 .. n : w[k] = v[i]
    BY <1>3, <1>13, SMTT(40)
  <2>3. h \in on <=> \E i \in 1 .. n : w[i] = h
    BY <1>4
  <2>4. (\E i \in 1 .. n : w[i] = h) <=> \E i \in 1 .. n : v[i] = h
    BY <2>1, <2>2
  <2> QED
    BY <2>3, <2>4
<1>18. IsList(r, v, n)
  BY <1>3, <1>12, <1>14, <1>15, <1>16, SMTT(40) DEF IsList
<1>19. Enumerates(r, v, on)
  BY <1>12, <1>17, <1>18 DEF Enumerates
<1>20. n = 1 => r.prev[r.head] = PROTOQ_ID_INVALID
  BY <1>2, <1>4, <1>10, <1>12, SMTT(40)
<1> QED
  BY <1>12, <1>13, <1>19, <1>20 DEF ListOk, r, n

\* handle_enableq puts a queue behind the tail.
LEMMA AppendedOk ==
  ASSUME NEW l, NEW on, ListOk(l, on), NEW q \in Queues, q \notin on
  PROVE  ListOk(Appended(l, q), on \cup {q})
<1>1. PICK w \in [1 .. l.n -> Queues] : Enumerates(l, w, on)
  BY DEF ListOk
<1> DEFINE n == l.n
           m == n + 1
           tail == l.tail
           head == IF tail = PROTOQ_ID_INVALID THEN q ELSE l.head
           next == IF tail = PROTOQ_ID_INVALID THEN [l.next EXCEPT ![q] = tail]
                   ELSE [l.next EXCEPT ![tail] = q, ![q] = PROTOQ_ID_INVALID]
           prev == [l.prev EXCEPT ![q] = tail]
           r == Appended(l, q)
           v == [i \in 1 .. m |-> IF i <= n THEN w[i] ELSE q]
<1>2. l \in QueueList
  BY DEF ListOk
<1>3. /\ n \in Nat /\ tail \in QueueIds /\ l.head \in QueueIds
      /\ l.next \in [Queues -> QueueIds] /\ l.prev \in [Queues -> QueueIds]
  BY <1>2, ListFields
<1>4. /\ l.head = IF n = 0 THEN PROTOQ_ID_INVALID ELSE w[1]
      /\ tail = IF n = 0 THEN PROTOQ_ID_INVALID ELSE w[n]
      /\ \A i \in 1 .. n : l.next[w[i]] = IF i < n THEN w[i + 1] ELSE PROTOQ_ID_INVALID
      /\ \A i, k \in 1 .. n : i < k => w[i] # w[k]
      /\ \A h \in Queues : h \in on <=> \E i \in 1 .. n : w[i] = h
  BY <1>1 DEF Enumerates, IsList
<1>5. r = [l EXCEPT !.head = head, !.next = next, !.prev = prev, !.tail = q,
                    !.n = m]
  BY <1>2 DEF Appended, QueueList
<1> HIDE DEF n, tail, r
<1>6. \A i \in 1 .. n : w[i] \in Queues /\ w[i] # q
  <2>1. \A i \in 1 .. n : w[i] \in Queues
    BY <1>1 DEF n
  <2>2. ~ \E i \in 1 .. n : w[i] = q
    BY <1>4
  <2> QED
    BY <2>1, <2>2
<1>7. /\ PROTOQ_ID_INVALID \notin Queues /\ Queues \subseteq QueueIds
      /\ PROTOQ_ID_INVALID \in QueueIds
  BY LoopAssumption DEF QueueIds
<1>8. /\ tail = PROTOQ_ID_INVALID <=> n = 0
      /\ n > 0 => tail \in Queues /\ tail # q
  BY <1>3, <1>4, <1>6, <1>7, SMTT(40)
<1>9. /\ next \in [Queues -> QueueIds]
      /\ \A h \in Queues : next[h] = IF h = q THEN PROTOQ_ID_INVALID
                                     ELSE IF h = tail THEN q ELSE l.next[h]
  <2>1. CASE n = 0
    BY <1>3, <1>7, <1>8, <2>1
  <2>2. CASE n > 0
    BY <1>3, <1>7, <1>8, <2>2
  <2> QED
    BY <1>3, <2>1, <2>2, SMTT(40)
<1>10. prev \in [Queues -> QueueIds] /\ prev[q] = tail
  BY <1>3
<1>11. head = (IF n = 0 THEN q ELSE w[1]) /\ head \in QueueIds
  BY <1>3, <1>4, <1>7, <1>8
<1>12. m \in Nat /\ q \in QueueIds
  BY <1>3, <1>7, SMTT(40)
<1> HIDE DEF next, prev, head, m
<1>13. /\ r \in QueueList /\ r.n = m /\ r.head = head /\ r.tail = q
       /\ r.next = next /\ r.prev = prev
  BY <1>2, <1>5, <1>9, <1>10, <1>11, <1>12 DEF QueueList
<1>14. /\ v \in [1 .. m -> Queues]
       /\ \A i \in 1 .. n : i \in 1 .. m /\ v[i] = w[i]
       /\ m = n + 1 /\ m \in 1 .. m /\ v[m] = q
  BY <1>3, <1>6, SMTT(40) DEF m
<1> HIDE DEF v
<1>15. head = v[1]
  <2>1. n = 0 => m = 1
    BY <1>14, SMTT(40)
  <2>2. n > 0 => v[1] = w[1]
    BY <1>3, <1>14, SMTT(40)
  <2> QED
    BY <1>3, <1>11, <1>14, <2>1, <2>2, SMTT(40)
<1>16. ASSUME NEW i \in 1 .. m
       PROVE  next[v[i]] = IF i < m THEN v[i + 1] ELSE PROTOQ_ID_INVALID
  <2>1. CASE i = m
    BY <1>9, <1>14, <2>1, SMTT(40)
  <2>2. CASE i < m
    <3>1. i \in 1 .. n /\ v[i] = w[i] /\ w[i] \in Queues /\ w[i] # q
      BY <1>3, <1>6, <1>14, <2>2, SMTT(40)
    <3>2. next[v[i]] = IF w[i] = tail THEN q ELSE l.next[w[i]]
      BY <1>9, <3>1
    <3>3. CASE i = n
      <4>1. tail = w[i] /\ v[i + 1] = q
        BY <1>3, <1>4, <1>14, <3>1, <3>3, SMTT(40)
      <4> QED
        BY <2>2, <3>2, <4>1
    <3>4. CASE i < n
      <4>1. tail = w[n] /\ w[i] # w[n]
        BY <1>3, <1>4, <3>1, <3>4, SMTT(40)
      <4>2. l.next[w[i]] = w[i + 1] /\ v[i + 1] = w[i + 1]
        BY <1>3, <1>4, <1>14, <3>1, <3>4, SMTT(40)
      <4> QED
        BY <2>2, <3>2, <4>1, <4>2
    <3> QED
      BY <1>3, <3>1, <3>3, <3>4, SMTT(40)
  <2> QED
    BY <1>3, <1>14, <2>1, <2>2, SMTT(40)
<1>17. ASSUME NEW i \in 1 .. m, NEW k \in 1 .. m, i < k
       PROVE  v[i] # v[k]
  <2>1. i \in 1 .. n /\ v[i] = w[i]
    BY <1>3, <1>14, <1>17, SMTT(40)
  <2>2. CASE k = m
    BY <1>6, <1>14, <2>1, <2>2
  <2>3. CASE k < m
    <3>1. k \in 1 .. n /\ v[k] = w[k]
      BY <1>3, <1>14, <2>3, SMTT(40)
    <3> QED
      BY <1>4, <1>17, <2>1, <3>1
  <2> QED
    BY <1>3, <1>14, <2>2, <2>3, SMTT(40)
<1>18. ASSUME NEW h \in Queues
       PROVE  h \in on \cup {q} <=> \E i \in 1 .. m : v[i] = h
  <2>1. h \in on <=> \E i \in 1 .. n : w[i] = h
    BY <1>4
  <2>2. (\E i \in 1 .. m : v[i] = h) <=> h = q \/ \E i \in 1 .. n : w[i] = h
    <3>1. ASSUME NEW i \in 1 .. m, v[i] = h
          PROVE  h = q \/ \E j \in 1 .. n : w[j] = h
      <4>1. i = m \/ i \in 1 .. n
        BY <1>3, <1>14, SMTT(40)
      <4> QED
        BY <1>14, <3>1, <4>1
    <3> QED
      BY <1>14, <3>1
  <2> QED
    BY <2>1, <2>2
<1>19. IsList(r, v, m)
  <2>1. m # 0
    BY <1>3, <1>14, SMTT(40)
  <2> QED
    BY <1>13, <1>14, <1>15, <1>16, <1>17, <2>1 DEF IsList
<1>20. Enumerates(r, v, on \cup {q})
  BY <1>13, <1>18, <1>19 DEF Enumerates
<1>21. m = 1 => r.prev[r.head] = PROTOQ_ID_INVALID
  <2>1. m = 1 => n = 0
    BY <1>3, <1>14, SMTT(40)
  <2> QED
    BY <1>8, <1>10, <1>11, <1>13, <2>1
<1>22. ListOk(r, on \cup {q})
  BY <1>13, <1>14, <1>20, <1>21 DEF ListOk
<1> QED
  BY <1>22 DEF r

\* handle_disableq of the only queue empties the list.
LEMMA RemovedOk ==
  ASSUME NEW l, NEW on, ListOk(l, on), NEW q \in Queues, q \in on, l.n = 1
  PROVE  ListOk(Removed(l, q), on \ {q})
<1>1. PICK w \in [1 .. l.n -> Queues] : Enumerates(l, w, on)
  BY DEF ListOk
<1> DEFINE r == Removed(l, q)
           next == [l.next EXCEPT ![q] = PROTOQ_ID_INVALID]
           prev == [l.prev EXCEPT ![q] = PROTOQ_ID_INVALID]
<1>2. l \in QueueList /\ l.prev[l.head] = PROTOQ_ID_INVALID
  BY DEF ListOk
<1>3. /\ l.head = w[1] /\ l.tail = w[1] /\ l.next[w[1]] = PROTOQ_ID_INVALID
      /\ \A h \in Queues : h \in on <=> \E i \in 1 .. 1 : w[i] = h
  BY <1>1, SMTT(40) DEF Enumerates, IsList
<1>4. w[1] = q
  BY <1>3, SMTT(40)
<1>5. \A h \in Queues : h \notin on \ {q}
  BY <1>3, <1>4, SMTT(40)
<1>6. /\ next \in [Queues -> QueueIds] /\ prev \in [Queues -> QueueIds]
      /\ PROTOQ_ID_INVALID \in QueueIds
  BY <1>2, ListFields DEF QueueIds
<1>7. r = [l EXCEPT !.head = PROTOQ_ID_INVALID, !.tail = PROTOQ_ID_INVALID,
                    !.next = next, !.prev = prev, !.n = 0]
  <2>1. /\ l.head = q /\ l.tail = q /\ l.next[q] = PROTOQ_ID_INVALID
        /\ l.prev[q] = PROTOQ_ID_INVALID
    BY <1>2, <1>3, <1>4
  <2>2. l.n - 1 = 0
    BY SMTT(40)
  <2>3. r = [l EXCEPT !.head = l.next[q], !.tail = l.prev[q], !.next = next,
                      !.prev = prev, !.n = l.n - 1]
    BY <1>2, <2>1 DEF Removed, QueueList
  <2> QED
    BY <2>1, <2>2, <2>3
<1> HIDE DEF next, prev, r
<1>8. /\ r \in QueueList /\ r.n = 0
      /\ r.head = PROTOQ_ID_INVALID /\ r.tail = PROTOQ_ID_INVALID
  BY <1>2, <1>6, <1>7 DEF QueueList
<1> DEFINE v == [i \in 1 .. 0 |-> PROTOQ_ID_INVALID]
<1>9. v \in [1 .. 0 -> Queues]
  BY SMTT(40)
<1>10. Enumerates(r, v, on \ {q})
  BY <1>5, <1>8, SMTT(40) DEF Enumerates, IsList
<1>11. \E u \in [1 .. 0 -> Queues] : Enumerates(r, u, on \ {q})
  BY <1>9, <1>10
<1>12. 0 # 1
  BY SMTT(40)
<1>13. ListOk(r, on \ {q})
  BY <1>8, <1>11, <1>12 DEF ListOk
<1> QED
  BY <1>13 DEF r

\* A list that is as it should be has a head and a tail if it has queues.
LEMMA OkHasEnds ==
  ASSUME NEW l, NEW on, ListOk(l, on), l.n > 0
  PROVE  l.head # PROTOQ_ID_INVALID /\ l.tail # PROTOQ_ID_INVALID
<1>1. PICK w \in [1 .. l.n -> Queues] : Enumerates(l, w, on)
  BY DEF ListOk
<1>2. l.n \in Nat
  BY ListFields DEF ListOk
<1>3. l.head = w[1] /\ l.tail = w[l.n] /\ w[1] \in Queues /\ w[l.n] \in Queues
  BY <1>1, <1>2, SMTT(40) DEF Enumerates, IsList
<1> QED
  BY <1>3, LoopAssumption

\* What becomes of a list that may not be as it should be.
LEMMA RotatedType ==
  ASSUME NEW l \in QueueList, l.head # PROTOQ_ID_INVALID, l.tail # PROTOQ_ID_INVALID
  PROVE  Rotated(l) \in QueueList /\ Rotated(l).n = l.n
<1> DEFINE q == l.head
           linked == [l.next EXCEPT ![l.tail] = q]
           head == IF l.n = 1 THEN q ELSE linked[q]
           next == [linked EXCEPT ![q] = PROTOQ_ID_INVALID]
<1>1. q \in Queues /\ q \in QueueIds /\ PROTOQ_ID_INVALID \in QueueIds
  BY ListFields DEF QueueIds
<1>2. linked \in [Queues -> QueueIds]
  BY <1>1, ListFields
<1>3. next \in [Queues -> QueueIds] /\ head \in QueueIds
  BY <1>1, <1>2
<1>4. Rotated(l) = [l EXCEPT !.tail = q, !.head = head, !.next = next]
  BY DEF Rotated
<1> HIDE DEF q, linked, head, next
<1> QED
  BY <1>1, <1>3, <1>4 DEF QueueList

LEMMA AppendedType ==
  ASSUME NEW l \in QueueList, NEW q \in Queues
  PROVE  Appended(l, q) \in QueueList /\ Appended(l, q).n = l.n + 1
<1> DEFINE head == IF l.tail = PROTOQ_ID_INVALID THEN q ELSE l.head
           next == IF l.tail = PROTOQ_ID_INVALID THEN [l.next EXCEPT ![q] = l.tail]
                   ELSE [l.next EXCEPT ![l.tail] = q, ![q] = PROTOQ_ID_INVALID]
           prev == [l.prev EXCEPT ![q] = l.tail]
           n == l.n + 1
<1>1. q \in QueueIds /\ PROTOQ_ID_INVALID \in QueueIds /\ l.tail \in QueueIds
  BY ListFields DEF QueueIds
<1>2. head \in QueueIds /\ prev \in [Queues -> QueueIds]
  BY <1>1, ListFields
<1>3. next \in [Queues -> QueueIds]
  BY <1>1, ListFields
<1>4. n \in Nat
  BY ListFields, SMTT(40)
<1>5. Appended(l, q) = [l EXCEPT !.head = head, !.next = next, !.prev = prev,
                                 !.tail = q, !.n = n]
  BY DEF Appended, QueueList
<1> HIDE DEF head, next, prev, n
<1>6. Appended(l, q) \in QueueList /\ Appended(l, q).n = n
  BY <1>1, <1>2, <1>3, <1>4, <1>5 DEF QueueList
<1> QED
  BY <1>6 DEF n

LEMMA RemovedType ==
  ASSUME NEW l \in QueueList, NEW q \in Queues, l.n > 0
  PROVE  Removed(l, q) \in QueueList /\ Removed(l, q).n = l.n - 1
<1> DEFINE clear(f, k) == IF k = PROTOQ_ID_INVALID THEN f
                          ELSE [f EXCEPT ![k] = PROTOQ_ID_INVALID]
           head == IF l.head = q THEN l.next[q] ELSE l.head
           tail == IF l.tail = q THEN l.prev[q] ELSE l.tail
           next == [clear(l.next, l.prev[q]) EXCEPT ![q] = PROTOQ_ID_INVALID]
           prev == [clear(l.prev, l.next[q]) EXCEPT ![q] = PROTOQ_ID_INVALID]
           n == l.n - 1
<1>1. PROTOQ_ID_INVALID \in QueueIds
  BY DEF QueueIds
<1>2. head \in QueueIds /\ tail \in QueueIds
  BY ListFields
<1>3. ASSUME NEW f \in [Queues -> QueueIds], NEW k
      PROVE  clear(f, k) \in [Queues -> QueueIds]
  BY <1>1
<1>4. next \in [Queues -> QueueIds]
  <2>1. clear(l.next, l.prev[q]) \in [Queues -> QueueIds]
    BY <1>3, ListFields
  <2> HIDE DEF clear
  <2> QED
    BY <1>1, <2>1
<1>5. prev \in [Queues -> QueueIds]
  <2>1. clear(l.prev, l.next[q]) \in [Queues -> QueueIds]
    BY <1>3, ListFields
  <2> HIDE DEF clear
  <2> QED
    BY <1>1, <2>1
<1>6. n \in Nat
  BY ListFields, SMTT(40)
<1>7. Removed(l, q) = [l EXCEPT !.head = head, !.tail = tail, !.next = next,
                                !.prev = prev, !.n = n]
  BY DEF Removed, QueueList
<1> HIDE DEF head, tail, next, prev, n
<1>8. Removed(l, q) \in QueueList /\ Removed(l, q).n = n
  BY <1>2, <1>4, <1>5, <1>6, <1>7 DEF QueueList
<1> QED
  BY <1>8 DEF n

\* handle_new_queue clears the links of a queue that is on no list.
Unlisted(l, q) ==
  [l EXCEPT !.next[q] = PROTOQ_ID_INVALID, !.prev[q] = PROTOQ_ID_INVALID]

LEMMA UnlistedType ==
  ASSUME NEW l \in QueueList, NEW q \in Queues
  PROVE  Unlisted(l, q) \in QueueList /\ Unlisted(l, q).n = l.n
<1> DEFINE next == [l.next EXCEPT ![q] = PROTOQ_ID_INVALID]
           prev == [l.prev EXCEPT ![q] = PROTOQ_ID_INVALID]
<1>1. next \in [Queues -> QueueIds] /\ prev \in [Queues -> QueueIds]
  BY ListFields DEF QueueIds
<1>2. Unlisted(l, q) = [l EXCEPT !.next = next, !.prev = prev]
  BY DEF Unlisted, QueueList
<1> HIDE DEF next, prev
<1> QED
  BY <1>1, <1>2 DEF QueueList

LEMMA UnlistedOk ==
  ASSUME NEW l, NEW on, ListOk(l, on), NEW q \in Queues, q \notin on
  PROVE  ListOk(Unlisted(l, q), on)
<1>1. PICK w \in [1 .. l.n -> Queues] : Enumerates(l, w, on)
  BY DEF ListOk
<1> DEFINE r == Unlisted(l, q)
           next == [l.next EXCEPT ![q] = PROTOQ_ID_INVALID]
           prev == [l.prev EXCEPT ![q] = PROTOQ_ID_INVALID]
<1>2. l \in QueueList /\ (l.n = 1 => l.prev[l.head] = PROTOQ_ID_INVALID)
  BY DEF ListOk
<1>3. /\ next \in [Queues -> QueueIds] /\ prev \in [Queues -> QueueIds]
      /\ \A h \in Queues : h # q => next[h] = l.next[h] /\ prev[h] = l.prev[h]
  BY <1>2, ListFields DEF QueueIds
<1>4. r = [l EXCEPT !.next = next, !.prev = prev]
  BY <1>2 DEF Unlisted, QueueList
<1> HIDE DEF next, prev, r
<1>5. /\ r \in QueueList /\ r.n = l.n /\ r.head = l.head /\ r.tail = l.tail
      /\ r.next = next /\ r.prev = prev
  BY <1>2, <1>3, <1>4 DEF QueueList
<1>6. \A i \in 1 .. l.n : w[i] \in Queues /\ w[i] # q
  BY <1>1 DEF Enumerates
<1>7. Enumerates(r, w, on)
  BY <1>1, <1>3, <1>5, <1>6, SMTT(40) DEF Enumerates, IsList
<1>8. l.n = 1 => l.head = w[1]
  BY <1>1, SMTT(40) DEF Enumerates, IsList
<1>9. r.n = 1 => r.prev[r.head] = PROTOQ_ID_INVALID
  BY <1>2, <1>3, <1>5, <1>6, <1>8, SMTT(40)
<1>10. ListOk(r, on)
  BY <1>5, <1>7, <1>9 DEF ListOk
<1> QED
  BY <1>10 DEF r

-----------------------------------------------------------------------------
(* Budgets *)

\* The part of an amount that a core gets is a natural number.
LEMMA ShareIsNat ==
  ASSUME NEW total \in Nat, NEW idx \in Nat
  PROVE  budget_share(total, idx) \in Nat
<1>1. NCores \in Nat /\ NCores > 0
  BY BudgetAssumption, SMTT(40)
<1>2. total \div NCores \in Nat /\ total % NCores \in Nat
  BY <1>1, SMTT(40)
<1> QED
  BY <1>2, SMTT(40) DEF budget_share

\* What a refresh adds is never negative, never more than the credits, and
\* does not lift a budget of at most b above the cap.
LEMMA AddFits ==
  ASSUME NEW b \in Int, NEW cap \in Int, NEW add \in Nat,
         NEW now \in Int, now <= b, now <= cap
  PROVE  /\ guest_add(b, cap, add) \in Int
         /\ now + guest_add(b, cap, add) <= cap
         /\ guest_add(b, cap, add) <= add
         /\ guest_add(b, cap, add) >= 0
BY SMTT(40) DEF guest_add

\* What RefreshAdd adds to the counter it has loaded from.
LEMMA AddedFits ==
  ASSUME BudgetInv, ref = "add"
  PROVE  /\ gi \in GuestIds /\ cj \in CoreIds
         /\ Added \in Int /\ Added >= 0 /\ Added <= budget_share(creds, cj)
         /\ val[gi][cj] \in Int
         /\ val[gi][cj] + Added <= budget_share(Cap, cj)
<1>1. gi \in GuestIds /\ cj \in CoreIds /\ gi < nr
  BY BudgetAssumption, SMTT(40) DEF BudgetInv, BudgetTypeOK, ReadIsHigher, GuestIds, CoreIds
<1>2. val[gi][cj] \in Int
  BY <1>1 DEF BudgetInv, BudgetTypeOK
<1>3. val[gi][cj] <= budg /\ val[gi][cj] <= budget_share(Cap, cj)
  BY <1>1 DEF BudgetInv, ReadIsHigher, BelowCap
<1>4. Cap \in Nat /\ creds \in Nat /\ cj \in Nat /\ budg \in Int
  BY BudgetAssumption DEF BudgetInv, BudgetTypeOK
<1>5. budget_share(Cap, cj) \in Nat /\ budget_share(creds, cj) \in Nat
  BY <1>4, ShareIsNat
<1> DEFINE cap == budget_share(Cap, cj)
           add == budget_share(creds, cj)
<1>6. Added = guest_add(budg, cap, add)
  BY DEF Added
<1>7. cap \in Int /\ add \in Nat
  BY <1>5, SMTT(40)
<1> HIDE DEF cap, add
<1>8. /\ guest_add(budg, cap, add) \in Int
      /\ val[gi][cj] + guest_add(budg, cap, add) <= cap
      /\ guest_add(budg, cap, add) <= add
      /\ guest_add(budg, cap, add) >= 0
  <2>1. val[gi][cj] <= cap
    BY <1>3 DEF cap
  <2> QED
    BY <1>2, <1>3, <1>4, <1>7, <2>1, AddFits
<1> QED
  BY <1>1, <1>2, <1>6, <1>8 DEF cap, add

\* Changing one counter of the table leaves the others alone.
LEMMA OneCounter ==
  ASSUME NEW v \in [GuestIds -> [CoreIds -> Int]],
         NEW g \in GuestIds, NEW j \in CoreIds, NEW n \in Int
  PROVE  LET w == [v EXCEPT ![g][j] = n]
         IN  /\ w \in [GuestIds -> [CoreIds -> Int]]
             /\ \A h \in GuestIds, k \in CoreIds :
                  w[h][k] = IF h = g /\ k = j THEN n ELSE v[h][k]
OBVIOUS

\* No guest has a budget at the start.
LEMMA InitBudgetInv == BudgetInit => BudgetInv
BY BudgetAssumption, SMTT(40) DEF BudgetInit, BudgetInv, BudgetTypeOK, ReadIsHigher,
   BelowCap, GuestIds, CoreIds

\* One step of a refresh, a registration or a charge keeps the invariant.
LEMMA NextBudgetInv == BudgetInv /\ [BudgetNext]_budgetVars => BudgetInv'
<1> SUFFICES ASSUME BudgetInv, [BudgetNext]_budgetVars
             PROVE  BudgetInv'
  OBVIOUS
<1>a. BudgetTypeOK /\ ReadIsHigher /\ BelowCap
  BY DEF BudgetInv
<1>b. \A j \in CoreIds : budget_share(Cap, j) \in Nat
  BY BudgetAssumption, ShareIsNat, SMTT(40) DEF CoreIds
<1>1. CASE NewGuestBudget
  <2> DEFINE full == [j \in CoreIds |-> budget_share(Cap, j)]
  <2>1. /\ full \in [CoreIds -> Int]
        /\ \A j \in CoreIds : full[j] = budget_share(Cap, j)
    BY <1>b, SMTT(40)
  <2>2. val' = [val EXCEPT ![nr] = full] /\ nr' = nr + 1 /\ UNCHANGED refVars
    BY <1>1 DEF NewGuestBudget
  <2> HIDE DEF full
  <2>3. nr \in GuestIds /\ ref = "idle" /\ nr + 1 \in 0 .. MaxGuests
    BY <1>a, <1>1, BudgetAssumption, SMTT(40) DEF NewGuestBudget, BudgetTypeOK, GuestIds
  <2>4. /\ val' \in [GuestIds -> [CoreIds -> Int]]
        /\ val'[nr] = full
        /\ \A g \in GuestIds : g # nr => val'[g] = val[g]
    BY <1>a, <2>1, <2>2, <2>3 DEF BudgetTypeOK
  <2>5. BudgetTypeOK' /\ ReadIsHigher'
    BY <1>a, <2>2, <2>3, <2>4 DEF BudgetTypeOK, ReadIsHigher, refVars
  <2>6. BelowCap'
    <3> SUFFICES ASSUME NEW g \in GuestIds, NEW j \in CoreIds, g < nr'
                 PROVE  val'[g][j] <= budget_share(Cap, j)
      BY DEF BelowCap
    <3>1. CASE g = nr
      BY <3>1, <1>b, <2>1, <2>4, SMTT(40)
    <3>2. CASE g # nr
      <4>1. g < nr
        BY <3>2, <1>a, <2>2, SMTT(40) DEF BudgetTypeOK, GuestIds
      <4> QED
        BY <4>1, <3>2, <1>a, <2>4 DEF BelowCap
    <3> QED
      BY <3>1, <3>2
  <2> QED
    BY <2>5, <2>6 DEF BudgetInv
<1>2. CASE RefreshStart
  <2>1. creds' \in Nat /\ nr > 0
    BY <1>2, BudgetAssumption, SMTT(40) DEF RefreshStart
  <2> QED
    BY <1>a, <1>2, <2>1, BudgetAssumption, SMTT(40) DEF RefreshStart, BudgetInv,
       BudgetTypeOK, ReadIsHigher, BelowCap
<1>3. CASE RefreshLoad
  <2>1. gi \in GuestIds /\ cj \in CoreIds
    BY <1>a, <1>3, BudgetAssumption, SMTT(40) DEF RefreshLoad, BudgetTypeOK,
       ReadIsHigher, GuestIds, CoreIds
  <2>2. val[gi][cj] \in Int
    BY <1>a, <2>1 DEF BudgetTypeOK
  <2> QED
    BY <1>a, <1>3, <2>2, SMTT(40) DEF RefreshLoad, BudgetInv, BudgetTypeOK,
       ReadIsHigher, BelowCap
<1>4. CASE RefreshAdd
  <2>1. ref = "add" /\ nr' = nr /\ budg' = 0 /\ RefreshNext
    BY <1>4 DEF RefreshAdd
  <2>2. /\ gi \in GuestIds /\ cj \in CoreIds
        /\ val[gi][cj] + Added \in Int
        /\ val[gi][cj] + Added <= budget_share(Cap, cj)
    BY <2>1, AddedFits, SMTT(40)
  <2>3. val' = [val EXCEPT ![gi][cj] = val[gi][cj] + Added]
    BY <1>a, <1>4, <2>2 DEF RefreshAdd, BudgetTypeOK
  <2>4. /\ val' \in [GuestIds -> [CoreIds -> Int]]
        /\ \A h \in GuestIds, k \in CoreIds :
             val'[h][k] = IF h = gi /\ k = cj THEN val[gi][cj] + Added
                          ELSE val[h][k]
    BY <1>a, <2>2, <2>3, OneCounter, SMTT(40) DEF BudgetTypeOK
  <2>5. BudgetTypeOK' /\ ReadIsHigher'
    BY <1>a, <2>1, <2>4, BudgetAssumption, SMTT(40) DEF BudgetTypeOK, ReadIsHigher, RefreshNext
  <2>6. BelowCap'
    BY <1>a, <2>1, <2>2, <2>4 DEF BelowCap
  <2> QED
    BY <2>5, <2>6 DEF BudgetInv
<1>5. ASSUME NEW g \in GuestIds, NEW j \in CoreIds, NEW cyc \in 0 .. MaxCyc,
             Charge(g, j, cyc)
      PROVE  BudgetInv'
  <2>1. val[g][j] \in Int /\ cyc \in Nat /\ val[g][j] - cyc \in Int
    BY <1>a, BudgetAssumption, SMTT(40) DEF BudgetTypeOK
  <2>2. val' = [val EXCEPT ![g][j] = val[g][j] - cyc] /\ UNCHANGED <<nr, refVars>>
    BY <1>a, <1>5 DEF Charge, BudgetTypeOK
  <2>3. /\ val' \in [GuestIds -> [CoreIds -> Int]]
        /\ \A h \in GuestIds, k \in CoreIds :
             val'[h][k] = IF h = g /\ k = j THEN val[g][j] - cyc ELSE val[h][k]
    BY <1>a, <2>1, <2>2, OneCounter, SMTT(40) DEF BudgetTypeOK
  <2>4. \A h \in GuestIds, k \in CoreIds :
          val[h][k] \in Int /\ val'[h][k] \in Int /\ val'[h][k] <= val[h][k]
    BY <1>a, <2>1, <2>3, SMTT(40) DEF BudgetTypeOK
  <2>5. BudgetTypeOK'
    BY <1>a, <2>2, <2>3 DEF BudgetTypeOK, refVars
  <2>6. ReadIsHigher'
    <3>1. ref # "idle" => gi \in GuestIds /\ cj \in CoreIds
      BY <1>a, BudgetAssumption, SMTT(40) DEF BudgetTypeOK, ReadIsHigher, GuestIds, CoreIds
    <3>2. ref = "add" => val'[gi][cj] <= budg
      BY <1>a, <2>4, <3>1, SMTT(40) DEF BudgetTypeOK, ReadIsHigher
    <3> QED
      BY <1>a, <2>2, <3>2 DEF ReadIsHigher, refVars
  <2>7. BelowCap'
    BY <1>a, <1>b, <2>2, <2>4, SMTT(40) DEF BelowCap
  <2> QED
    BY <2>5, <2>6, <2>7 DEF BudgetInv
<1>6. CASE UNCHANGED budgetVars
  BY <1>a, <1>6 DEF budgetVars, BudgetInv, BudgetTypeOK, ReadIsHigher, BelowCap
<1> QED
  BY <1>1, <1>2, <1>3, <1>4, <1>5, <1>6 DEF BudgetNext, Control

\* The inductive invariant holds always: what a refresh has read is never less
\* than what is there.
THEOREM BudgetInvariant == BudgetSpec => []BudgetInv
BY InitBudgetInv, NextBudgetInv, PTL DEF BudgetSpec

\* control_budget_refresh never lifts a budget above its core's share of the
\* cap, however its two accesses interleave with fast_budg_charge.
THEOREM NeverAboveCap == BudgetSpec => []BelowCap
<1>1. BudgetInv => BelowCap
  BY DEF BudgetInv
<1> QED
  BY <1>1, BudgetInvariant, PTL

\* A refresh never undoes a charge of fast_budg_charge: no step raises a budget
\* by more than the credits of the refresh.
THEOREM ChargesNeverUndone == BudgetSpec => ChargesKept
<1>1. ASSUME BudgetInv, [BudgetNext]_budgetVars
      PROVE  [\A g \in GuestIds, j \in CoreIds :
                g < nr => val'[g][j] <= val[g][j] + budget_share(creds, j)]_budgetVars
  <2> SUFFICES ASSUME BudgetNext, NEW g \in GuestIds, NEW j \in CoreIds, g < nr
               PROVE  val'[g][j] <= val[g][j] + budget_share(creds, j)
    BY <1>1
  <2>a. BudgetTypeOK
    BY <1>1 DEF BudgetInv
  <2>b. budget_share(creds, j) \in Nat /\ val[g][j] \in Int
    <3>1. creds \in Nat /\ j \in Nat
      BY <2>a, BudgetAssumption, SMTT(40) DEF BudgetTypeOK, CoreIds
    <3>2. val[g][j] \in Int
      BY <2>a DEF BudgetTypeOK
    <3> QED
      BY <3>1, <3>2, ShareIsNat
  <2>1. CASE NewGuestBudget
    <3>1. val'[g] = val[g]
      BY <2>a, <2>1, SMTT(40) DEF NewGuestBudget, BudgetTypeOK, GuestIds
    <3> QED
      BY <3>1, <2>b, SMTT(40)
  <2>2. CASE RefreshStart \/ RefreshLoad
    BY <2>2, <2>b, SMTT(40) DEF RefreshStart, RefreshLoad
  <2>3. CASE RefreshAdd
    <3>1. /\ gi \in GuestIds /\ cj \in CoreIds /\ val[gi][cj] \in Int
          /\ Added \in Int /\ Added <= budget_share(creds, cj)
      BY <1>1, <2>3, AddedFits DEF RefreshAdd
    <3>2. val' = [val EXCEPT ![gi][cj] = val[gi][cj] + Added]
      BY <2>a, <2>3, <3>1 DEF RefreshAdd, BudgetTypeOK
    <3>3. val'[g][j] = IF g = gi /\ j = cj THEN val[gi][cj] + Added ELSE val[g][j]
      BY <2>a, <3>1, <3>2, OneCounter, SMTT(40) DEF BudgetTypeOK
    <3> QED
      BY <2>b, <3>1, <3>3, SMTT(40)
  <2>4. ASSUME NEW h \in GuestIds, NEW k \in CoreIds, NEW cyc \in 0 .. MaxCyc,
               Charge(h, k, cyc)
        PROVE  val'[g][j] <= val[g][j] + budget_share(creds, j)
    <3>1. val[h][k] \in Int /\ cyc \in Nat /\ val[h][k] - cyc \in Int
      BY <2>a, BudgetAssumption, SMTT(40) DEF BudgetTypeOK
    <3>2. val' = [val EXCEPT ![h][k] = val[h][k] - cyc]
      BY <2>a, <2>4 DEF Charge, BudgetTypeOK
    <3>3. val'[g][j] = IF g = h /\ j = k THEN val[h][k] - cyc ELSE val[g][j]
      BY <2>a, <3>1, <3>2, OneCounter, SMTT(40) DEF BudgetTypeOK
    <3> QED
      BY <2>b, <3>1, <3>3, SMTT(40)
  <2> QED
    BY <2>1, <2>2, <2>3, <2>4 DEF BudgetNext, Control
<1> QED
  BY <1>1, BudgetInvariant, PTL DEF BudgetSpec, ChargesKept

\* The partial sums of budgets: f[j] is that of the first j cores.
IsTotal(f, v, n) ==
  /\ f[0] = 0
  /\ \A j \in 1 .. n : f[j] = f[j - 1] + v[j - 1]

\* What j cores have at most: as many equal parts, and what is left of the cap
\* one by one.
Most(j) ==
  (Cap \div NCores) * j + (IF j <= Cap % NCores THEN j ELSE Cap % NCores)

\* Division with remainder, for numbers of cores that are not numerals.
LEMMA Quotient ==
  ASSUME NEW n \in Nat \ {0}, NEW a \in Nat
  PROVE  \E q \in Nat, r \in 0 .. n - 1 : a = n * q + r
<1> DEFINE P(x) == \E q \in Nat, r \in 0 .. n - 1 : x = n * q + r
           S == {x \in 0 .. a : P(x)}
<1>1. P(0)
  <2>1. 0 = n * 0 + 0 /\ 0 \in 0 .. n - 1
    BY SMTT(40)
  <2> QED
    BY <2>1
<1>2. ASSUME NEW x \in Nat, P(x)
      PROVE  P(x + 1)
  <2>1. PICK q \in Nat, r \in 0 .. n - 1 : x = n * q + r
    BY <1>2
  <2>2. CASE r + 1 < n
    <3>1. x + 1 = n * q + (r + 1) /\ r + 1 \in 0 .. n - 1
      BY <2>1, <2>2, SMTT(40)
    <3> QED
      BY <3>1
  <2>3. CASE r + 1 = n
    <3>1. PICK k \in Nat, z \in 0 .. n - 1 : k = q + 1 /\ z = 0
      BY SMTT(40)
    <3>2. x + 1 = n * k + z
      BY <2>1, <2>3, <3>1, SMTT(40)
    <3> QED
      BY <3>2
  <2> QED
    BY <2>2, <2>3, SMTT(40)
<1> HIDE DEF P
<1>3. 0 \in S /\ \A x \in 0 .. a - 1 : x \in S => x + 1 \in S
  BY <1>1, <1>2, SMTT(40)
<1>4. 0 .. a \subseteq S
  <2> HIDE DEF S
  <2> QED
    BY <1>3, Induct
<1>5. P(a)
  BY <1>4, SMTT(40)
<1> QED
  BY <1>5 DEF P

LEMMA QuotientUnique ==
  ASSUME NEW n \in Nat \ {0}, NEW q \in Nat, NEW r \in 0 .. n - 1
  PROVE  (n * q + r) % n = r /\ (n * q + r) \div n = q
BY SMTT(40)

LEMMA MostIsCap == Most(NCores) = Cap
<1>1. NCores \in Nat \ {0} /\ Cap \in Nat
  BY BudgetAssumption
<1>2. PICK q \in Nat, r \in 0 .. NCores - 1 : Cap = NCores * q + r
  BY <1>1, Quotient
<1>3. Cap % NCores = r /\ Cap \div NCores = q
  BY <1>1, <1>2, QuotientUnique
<1>4. Most(NCores) = q * NCores + r
  BY <1>1, <1>3, SMTT(40) DEF Most
<1> QED
  BY <1>1, <1>2, <1>4, SMTT(40)

LEMMA MostNext ==
  ASSUME NEW j \in Nat
  PROVE  Most(j) \in Int /\ Most(j + 1) = Most(j) + budget_share(Cap, j)
<1>1. NCores \in Nat \ {0} /\ Cap \in Nat
  BY BudgetAssumption
<1>2. Cap \div NCores \in Nat /\ Cap % NCores \in Nat
  BY <1>1, SMTT(40)
<1> DEFINE d == Cap \div NCores
           r == Cap % NCores
<1>3. /\ Most(j) = d * j + (IF j <= r THEN j ELSE r)
      /\ Most(j + 1) = d * (j + 1) + (IF j + 1 <= r THEN j + 1 ELSE r)
      /\ budget_share(Cap, j) = d + (IF j < r THEN 1 ELSE 0)
  BY DEF Most, budget_share
<1> HIDE DEF d, r
<1>4. d \in Nat /\ r \in Nat
  BY <1>2 DEF d, r
<1>5. d * (j + 1) = d * j + d /\ d * j \in Int
  BY <1>4, SMTT(40)
<1> QED
  BY <1>3, <1>4, <1>5, SMTT(40)

LEMMA TotalExists ==
  ASSUME NEW v \in [CoreIds -> Int],
         \A j \in CoreIds : v[j] <= budget_share(Cap, j)
  PROVE  \E f \in [0 .. NCores -> Int] :
           IsTotal(f, v, NCores) /\ f[NCores] <= Most(NCores)
<1> DEFINE P(f, i) == IsTotal(f, v, i) /\ f[i] <= Most(i)
           S == {i \in 0 .. NCores : \E f \in [0 .. i -> Int] : P(f, i)}
<1>1. NCores \in Nat \ {0}
  BY BudgetAssumption
<1>2. 0 \in S
  <2> DEFINE z == [j \in 0 .. 0 |-> 0]
  <2>1. Most(0) = 0
    <3>1. Cap \div NCores \in Nat /\ Cap % NCores \in Nat
      BY <1>1, BudgetAssumption, SMTT(40)
    <3> QED
      BY <3>1, SMTT(40) DEF Most
  <2>2. P(z, 0) /\ z \in [0 .. 0 -> Int] /\ 0 \in 0 .. NCores
    BY <1>1, <2>1, SMTT(40) DEF IsTotal
  <2> HIDE DEF P, z
  <2> QED
    BY <2>2
<1>3. ASSUME NEW i \in 0 .. NCores - 1, i \in S
      PROVE  i + 1 \in S
  <2>1. PICK f \in [0 .. i -> Int] : P(f, i)
    BY <1>3
  <2>2. /\ v[i] \in Int /\ v[i] <= budget_share(Cap, i)
        /\ budget_share(Cap, i) \in Nat
    BY <1>1, BudgetAssumption, ShareIsNat, SMTT(40) DEF CoreIds
  <2> DEFINE g == [j \in 0 .. i + 1 |-> IF j <= i THEN f[j] ELSE f[i] + v[i]]
  <2>3. g \in [0 .. i + 1 -> Int]
    BY <2>2, SMTT(40)
  <2>4. g[0] = 0 /\ \A j \in 1 .. i + 1 : g[j] = g[j - 1] + v[j - 1]
    BY <2>1, SMTT(40) DEF IsTotal
  <2>5. g[i + 1] <= Most(i + 1)
    <3>1. f[i] \in Int /\ f[i] <= Most(i) /\ g[i + 1] = f[i] + v[i]
      BY <2>1, SMTT(40)
    <3>2. Most(i) \in Int /\ Most(i + 1) = Most(i) + budget_share(Cap, i)
      BY MostNext, SMTT(40)
    <3> HIDE DEF g
    <3> QED
      BY <2>2, <3>1, <3>2, SMTT(40)
  <2>6. P(g, i + 1)
    BY <2>4, <2>5 DEF IsTotal
  <2>7. i + 1 \in 0 .. NCores
    BY <1>1, SMTT(40)
  <2> HIDE DEF P, g
  <2> QED
    BY <2>3, <2>6, <2>7
<1>4. NCores \in S
  <2> HIDE DEF S
  <2>1. 0 .. NCores \subseteq S
    BY <1>1, <1>2, <1>3, Induct
  <2> QED
    BY <1>1, <2>1, SMTT(40)
<1> QED
  BY <1>4

\* Budgets that are within their shares are together within the cap.
LEMMA TotalBelow ==
  ASSUME NEW v \in [CoreIds -> Int],
         \A j \in CoreIds : v[j] <= budget_share(Cap, j)
  PROVE  Total(v) <= Cap
<1> DEFINE Eq(h) == h = [j \in 0 .. NCores |->
                          IF j = 0 THEN 0 ELSE h[j - 1] + v[j - 1]]
           sum == CHOOSE h : Eq(h)
<1>1. NCores \in Nat \ {0}
  BY BudgetAssumption
<1>2. PICK f \in [0 .. NCores -> Int] :
        IsTotal(f, v, NCores) /\ f[NCores] <= Most(NCores)
  BY TotalExists
<1>3. Eq(f)
  BY <1>1, <1>2, SMTT(40) DEF IsTotal
<1>4. Eq(sum)
  <2> HIDE DEF Eq
  <2> QED
    BY <1>3
<1>5. Total(v) = sum[NCores]
  BY DEF Total
<1> DEFINE S == {j \in 0 .. NCores : f[j] = sum[j]}
<1> HIDE DEF sum
<1>6. 0 \in S
  BY <1>1, <1>3, <1>4, SMTT(40)
<1>7. ASSUME NEW j \in 0 .. NCores - 1, j \in S
      PROVE  j + 1 \in S
  <2>1. f[j + 1] = f[j] + v[j]
    BY <1>1, <1>3, SMTT(40)
  <2>2. sum[j + 1] = sum[j] + v[j]
    BY <1>1, <1>4, SMTT(40)
  <2> QED
    BY <1>1, <1>7, <2>1, <2>2, SMTT(40)
<1>8. NCores \in S
  <2> HIDE DEF S, Eq
  <2>1. 0 .. NCores \subseteq S
    BY <1>1, <1>6, <1>7, Induct
  <2> QED
    BY <1>1, <2>1, SMTT(40)
<1> QED
  BY <1>2, <1>5, <1>8, MostIsCap

LEMMA InvCap == BudgetInv => CapPerGuest
<1> SUFFICES ASSUME BudgetInv, NEW g \in 0 .. nr - 1
             PROVE  Total(val[g]) <= Cap
  BY DEF CapPerGuest
<1>1. g \in GuestIds /\ g < nr /\ val \in [GuestIds -> [CoreIds -> Int]]
  BY BudgetAssumption, SMTT(40) DEF BudgetInv, BudgetTypeOK, GuestIds
<1>2. \A j \in CoreIds : val[g][j] <= budget_share(Cap, j)
  BY <1>1 DEF BudgetInv, BelowCap
<1>3. val[g] \in [CoreIds -> Int]
  BY <1>1
<1> QED
  BY <1>2, <1>3, TotalBelow

-----------------------------------------------------------------------------
(* The loop *)

Places ==
  {"wait", "rx", "guest", "drain", "left", "sched", "send", "sent", "ctl",
   "undefined"}

Locals ==
  [ at : Places, i : Nat, j : Nat, max : Nat, n : Nat, n0 : Nat, last : Int,
    failed : BOOLEAN ]

LoopType ==
  /\ load \in Loads
  /\ ng \in 0 .. MaxGuests
  /\ list \in [GuestIds -> QueueList]
  /\ qst \in [GuestIds -> [Queues -> {"none", "new", "on", "off", "again"}]]
  /\ sched \in [GuestIds -> Scheduler]
  /\ turn \in [queues : Nat, sched : Nat]
  /\ pc \in Locals

\* The poll of a guest's queues is at a guest with queues, and a poll has
\* served a guest only if there is one.
PcOk ==
  /\ pc.at \in {"drain", "left", "send", "sent"} \/ pc.last >= 0 => ng > 0
  /\ pc.at = "drain" =>
       /\ list[GuestAt(turn.queues, pc.i)].n > 0
       /\ list[GuestAt(turn.queues, pc.i)].head # PROTOQ_ID_INVALID
  /\ pc.at = "undefined" => cut # {}

\* The inductive invariant of the loop, but for the budgets.
LoopInv ==
  /\ LoopType
  /\ \A g \in GuestIds : list[g].n = Cardinality(On(g))
  /\ \A g \in GuestIds : g \notin cut => ListOk(list[g], On(g))
  /\ \A g \in GuestIds : SchedOk(sched[g])
  /\ \A g \in GuestIds : g >= ng => On(g) = {}
  /\ PcOk

LEMMA LoadFields ==
  ASSUME LoopInv
  PROVE  /\ load.queues \subseteq Queues /\ load.flows \subseteq Flows
         /\ load.cores \subseteq CoreIds /\ load.batch \in Nat
BY LoopAssumption DEF LoopInv, LoopType

LEMMA GuestAtIs ==
  ASSUME ng \in 1 .. MaxGuests, NEW t \in Nat, NEW i \in Nat
  PROVE  GuestAt(t, i) \in GuestIds /\ GuestAt(t, i) \in 0 .. ng - 1
<1>1. MaxGuests \in Nat
  BY BudgetAssumption
<1> DEFINE x == (IF t >= ng THEN 0 ELSE t) + i
<1>2. x \in Nat
  BY SMTT(40)
<1>3. GuestAt(t, i) = x % ng
  BY DEF GuestAt
<1> HIDE DEF x
<1>4. x % ng \in 0 .. ng - 1
  BY <1>1, <1>2, SMTT(40)
<1> QED
  BY <1>1, <1>3, <1>4, SMTT(40) DEF GuestIds

LEMMA LocalFields ==
  ASSUME pc \in Locals
  PROVE  /\ pc.at \in Places /\ pc.i \in Nat /\ pc.j \in Nat /\ pc.max \in Nat
         /\ pc.n \in Nat /\ pc.n0 \in Nat /\ pc.last \in Int /\ pc.failed \in BOOLEAN
BY DEF Locals

\* Where a poll starts.
LEMMA AtIs ==
  ASSUME NEW where \in Places, NEW max \in Nat
  PROVE  /\ At(where, max) \in Locals
         /\ At(where, max).at = where /\ At(where, max).last < 0
BY SMTT(40) DEF At, Locals

LEMMA PollIs ==
  ASSUME LoopInv, NEW where \in Places, Poll(where)
  PROVE  pc' \in Locals /\ pc'.at = where /\ pc'.last < 0
<1>1. PICK max \in (IF load.fails THEN 0 ELSE 1) .. load.batch : pc' = At(where, max)
  BY DEF Poll
<1>2. max \in Nat
  BY LoadFields, SMTT(40)
<1> QED
  BY <1>1, <1>2, AtIs

\* The guest whose queues or whose scheduler are polled.
LEMMA PolledIs ==
  ASSUME LoopInv, pc.at \in {"drain", "left", "send", "sent"} \/ pc.i < ng
  PROVE  /\ GuestAt(turn.queues, pc.i) \in GuestIds
         /\ GuestAt(turn.sched, pc.i) \in GuestIds
         /\ GuestAt(turn.queues, pc.i) \in Nat
         /\ GuestAt(turn.sched, pc.i) \in Nat
         /\ ng > 0
<1>1. pc.i \in Nat /\ turn.queues \in Nat /\ turn.sched \in Nat /\ ng \in 0 .. MaxGuests
  BY LocalFields DEF LoopInv, LoopType
<1>2. MaxGuests \in Nat
  BY BudgetAssumption
<1>3. ng > 0
  BY <1>1, <1>2, SMTT(40) DEF LoopInv, PcOk
<1>4. ng \in 1 .. MaxGuests
  BY <1>1, <1>2, <1>3, SMTT(40)
<1>5. /\ GuestAt(turn.queues, pc.i) \in GuestIds
      /\ GuestAt(turn.queues, pc.i) \in 0 .. ng - 1
  BY <1>1, <1>4, GuestAtIs
<1>6. /\ GuestAt(turn.sched, pc.i) \in GuestIds
      /\ GuestAt(turn.sched, pc.i) \in 0 .. ng - 1
  BY <1>1, <1>4, GuestAtIs
<1> QED
  BY <1>1, <1>2, <1>3, <1>5, <1>6, SMTT(40)

\* A step of the loop within a poll.
LEMMA PcStep ==
  ASSUME LoopInv, UNCHANGED <<load, ng, list, qst, sched, cut>>,
         turn' \in [queues : Nat, sched : Nat], pc' \in Locals, PcOk'
  PROVE  LoopInv'
BY DEF LoopInv, LoopType, On

\* A step in which the scheduler of a guest changes.
LEMMA SchedStep ==
  ASSUME LoopInv, NEW g \in GuestIds, NEW s, SchedOk(s),
         sched' = [sched EXCEPT ![g] = s],
         UNCHANGED <<load, ng, list, qst, cut, turn>>, pc' \in Locals, PcOk'
  PROVE  LoopInv'
<1>1. LoopType'
  BY DEF LoopInv, LoopType, SchedOk
<1>2. \A h \in GuestIds : SchedOk(sched'[h])
  BY DEF LoopInv, LoopType
<1>3. /\ \A h \in GuestIds : list'[h].n = Cardinality(On(h)')
      /\ \A h \in GuestIds : h \notin cut' => ListOk(list'[h], On(h)')
      /\ \A h \in GuestIds : h >= ng' => On(h)' = {}
  BY DEF LoopInv, On
<1> QED
  BY <1>1, <1>2, <1>3 DEF LoopInv

\* A step in which the list of a guest's queues changes.
LEMMA ListStep ==
  ASSUME LoopInv, NEW g \in GuestIds, NEW l, NEW on,
         list' = [list EXCEPT ![g] = l],
         qst' \in [GuestIds -> [Queues -> {"none", "new", "on", "off", "again"}]],
         On(g)' = on, \A h \in GuestIds : h # g => On(h)' = On(h),
         l \in QueueList, l.n = Cardinality(on), cut \subseteq cut',
         g \notin cut' => ListOk(l, on), g < ng,
         UNCHANGED <<load, ng, sched, turn>>, pc' \in Locals, PcOk'
  PROVE  LoopInv'
<1>1. LoopType'
  BY DEF LoopInv, LoopType
<1>2. \A h \in GuestIds : /\ list'[h].n = Cardinality(On(h)')
                          /\ h \notin cut' => ListOk(list'[h], On(h)')
  BY DEF LoopInv, LoopType
<1>3. \A h \in GuestIds : SchedOk(sched'[h])
  BY DEF LoopInv
<1>4. \A h \in GuestIds : h >= ng' => On(h)' = {}
  <2> SUFFICES ASSUME NEW h \in GuestIds, h >= ng'
               PROVE  On(h)' = {}
    OBVIOUS
  <2>1. h # g
    BY BudgetAssumption, SMTT(40) DEF LoopInv, LoopType, GuestIds
  <2> QED
    BY <2>1 DEF LoopInv
<1> QED
  BY <1>1, <1>2, <1>3, <1>4 DEF LoopInv

\* What a guest is charged is a step of the budgets.
LEMMA SpendIs ==
  ASSUME NEW g \in GuestIds, Spend(g)
  PROVE  [BudgetNext]_budgetVars
<1>1. Me \in CoreIds
  BY BudgetAssumption, SMTT(40) DEF Me, CoreIds
<1>2. CASE load.iso
  <2>1. PICK cyc \in 0 .. MaxCyc : Charge(g, Me, cyc)
    BY <1>2 DEF Spend
  <2> QED
    BY <1>1, <2>1 DEF BudgetNext
<1>3. CASE ~load.iso
  BY <1>3 DEF Spend
<1> QED
  BY <1>2, <1>3

\* What every step of the loop does.
LoopStep == LoopInv' /\ [BudgetNext]_budgetVars

LEMMA RxPacketStep == LoopInv /\ RxPacket => LoopStep
<1> SUFFICES ASSUME LoopInv, RxPacket
             PROVE  LoopStep
  OBVIOUS
<1>1. PICK g \in 0 .. ng - 1 :
        IF g \in known
        THEN /\ Spend(g)
             /\ \E s \in Handled(sched[g]) : sched' = [sched EXCEPT ![g] = s]
        ELSE UNCHANGED <<budgetVars, sched>>
  BY DEF RxPacket
<1>2. g \in GuestIds
  BY BudgetAssumption, SMTT(40) DEF LoopInv, LoopType, GuestIds
<1>3. pc' \in Locals /\ pc'.at = pc.at /\ pc'.last = pc.last /\ pc.at = "rx"
  BY SMTT(40) DEF RxPacket, LoopInv, LoopType, Locals
<1>4. PcOk'
  BY <1>3 DEF RxPacket, LoopInv, PcOk
<1>5. UNCHANGED <<load, ng, list, qst, cut, turn>>
  BY DEF RxPacket
<1>6. CASE g \in known
  <2>1. PICK s \in Handled(sched[g]) : sched' = [sched EXCEPT ![g] = s]
    BY <1>1, <1>6
  <2>2. SchedOk(s)
    BY <1>2, LoadFields, HandledOk DEF LoopInv
  <2>3. LoopInv'
    BY <1>2, <1>3, <1>4, <1>5, <2>1, <2>2, SchedStep
  <2>4. [BudgetNext]_budgetVars
    BY <1>1, <1>2, <1>6, SpendIs
  <2> QED
    BY <2>3, <2>4 DEF LoopStep
<1>7. CASE g \notin known
  <2>1. LoopInv'
    BY <1>1, <1>3, <1>4, <1>5, <1>7, PcStep DEF LoopInv, LoopType
  <2> QED
    BY <1>1, <1>7, <2>1 DEF LoopStep
<1> QED
  BY <1>6, <1>7

\* At the start of a poll.
LEMMA PcFresh ==
  ASSUME pc' \in Locals, pc'.at \in {"rx", "guest"}, pc'.last < 0
  PROVE  PcOk'
<1>1. pc'.last \in Int
  BY DEF Locals
<1>2. ~(pc'.last >= 0)
  BY <1>1, SMTT(40)
<1>3. pc'.at \notin {"drain", "left", "send", "sent"}
  OBVIOUS
<1> QED
  BY <1>2, <1>3 DEF PcOk

LEMMA RxEndStep == LoopInv /\ RxEnd => LoopStep
<1> SUFFICES ASSUME LoopInv, RxEnd
             PROVE  LoopStep
  OBVIOUS
<1>1. pc' \in Locals /\ pc'.at = "guest" /\ pc'.last < 0
  BY PollIs DEF RxEnd, Places
<1>2. PcOk'
  BY <1>1, PcFresh
<1>3. turn' \in [queues : Nat, sched : Nat]
  BY DEF RxEnd, LoopInv, LoopType
<1>4. LoopInv'
  BY <1>1, <1>2, <1>3, PcStep DEF RxEnd, guestVars
<1> QED
  BY <1>4 DEF LoopStep, RxEnd

\* The turn after the last guest that was served.
LEMMA AfterLastIs ==
  ASSUME LoopInv, NEW t \in Nat
  PROVE  AfterLast(t) \in Nat
<1>1. CASE pc.last >= 0
  <2>1. ng \in Nat /\ ng > 0 /\ pc.last + 1 \in Nat
    BY <1>1, BudgetAssumption, LocalFields, SMTT(40) DEF LoopInv, LoopType, PcOk
  <2>2. (pc.last + 1) % ng \in Nat
    BY <2>1, SMTT(40)
  <2> QED
    BY <1>1, <2>2 DEF AfterLast
<1>2. CASE ~(pc.last >= 0)
  BY <1>2 DEF AfterLast
<1> QED
  BY <1>1, <1>2

LEMMA QueuesEndStep == LoopInv /\ QueuesEnd => LoopStep
<1> SUFFICES ASSUME LoopInv, QueuesEnd
             PROVE  LoopStep
  OBVIOUS
<1>1. pc' \in Locals /\ pc'.at = "sched" /\ pc'.last < 0
  BY PollIs DEF QueuesEnd, Places
<1>2. turn \in [queues : Nat, sched : Nat] /\ AfterLast(turn.queues) \in Nat
  BY AfterLastIs DEF LoopInv, LoopType
<1>3. turn' \in [queues : Nat, sched : Nat]
  BY <1>2 DEF QueuesEnd
<1>4. PcOk'
  BY <1>1, LocalFields, SMTT(40) DEF PcOk, Locals
<1>5. LoopInv'
  BY <1>1, <1>3, <1>4, PcStep DEF QueuesEnd, guestVars
<1> QED
  BY <1>5 DEF LoopStep, QueuesEnd

LEMMA QueuesTurnStep ==
  ASSUME LoopInv, NEW passed, QueuesTurn(passed),
         \A h \in GuestIds : list[h].head = PROTOQ_ID_INVALID => h \in passed
  PROVE  LoopStep
<1> DEFINE g == GuestAt(turn.queues, pc.i)
<1>1. pc.i < ng /\ ng > 0 /\ g \in GuestIds
  BY PolledIs DEF QueuesTurn
<1>2. pc \in Locals /\ pc.at = "guest"
  BY DEF QueuesTurn, LoopInv, LoopType
<1>3. UNCHANGED <<budgetVars, load, ng, list, qst, sched, cut, turn>>
  BY DEF QueuesTurn, guestVars
<1>4. \/ pc' = [pc EXCEPT !.i = @ + 1]
      \/ /\ g \notin passed
         /\ pc' = [pc EXCEPT !.at = IF list[g].n > 0 THEN "drain" ELSE "left",
                             !.j = 0, !.n0 = pc.n]
  BY DEF QueuesTurn
<1> HIDE DEF g
<1>6. CASE pc' = [pc EXCEPT !.i = @ + 1]
  <2>1. pc' \in Locals /\ pc'.at = "guest"
    BY <1>2, <1>6, SMTT(40) DEF Locals
  <2>2. PcOk'
    BY <1>1, <1>3, <2>1 DEF PcOk
  <2> QED
    BY <1>3, <2>1, <2>2, PcStep DEF LoopInv, LoopType, LoopStep
<1>7. CASE /\ g \notin passed
           /\ pc' = [pc EXCEPT !.at = IF list[g].n > 0 THEN "drain" ELSE "left",
                               !.j = 0, !.n0 = pc.n]
  <2>1. /\ pc' \in Locals /\ pc'.i = pc.i /\ (pc'.at = "drain" => list[g].n > 0)
        /\ pc'.at # "undefined"
    BY <1>2, <1>7 DEF Locals, Places
  <2>2. list[g].head # PROTOQ_ID_INVALID
    BY <1>1, <1>7
  <2>3. PcOk'
    BY <1>1, <1>3, <2>1, <2>2 DEF PcOk, GuestAt, g
  <2> QED
    BY <1>3, <2>1, <2>3, PcStep DEF LoopInv, LoopType, LoopStep
<1> QED
  BY <1>4, <1>6, <1>7

LEMMA DequeueStep == LoopInv /\ Dequeue => LoopStep
<1> SUFFICES ASSUME LoopInv, Dequeue
             PROVE  LoopStep
  OBVIOUS
<1> DEFINE g == GuestAt(turn.queues, pc.i)
<1>1. g \in GuestIds /\ ng > 0
  BY PolledIs DEF Dequeue
<1>2. PICK s \in Handled(sched[g]) : sched' = [sched EXCEPT ![g] = s]
  BY DEF Dequeue
<1>3. SchedOk(s)
  BY <1>1, LoadFields, HandledOk DEF LoopInv
<1>4. UNCHANGED <<budgetVars, load, ng, list, qst, cut, turn>>
  BY DEF Dequeue
<1>5. pc' \in Locals /\ pc'.at = pc.at /\ pc'.i = pc.i
  BY SMTT(40) DEF Dequeue, LoopInv, LoopType, Locals
<1>6. PcOk'
  BY <1>1, <1>4, <1>5 DEF PcOk, LoopInv, GuestAt
<1> HIDE DEF g
<1>7. LoopInv'
  BY <1>1, <1>2, <1>3, <1>4, <1>5, <1>6, SchedStep
<1> QED
  BY <1>4, <1>7 DEF LoopStep

LEMMA DequeueFailsStep == LoopInv /\ DequeueFails => LoopStep
<1> SUFFICES ASSUME LoopInv, DequeueFails
             PROVE  LoopStep
  OBVIOUS
<1> DEFINE g == GuestAt(turn.queues, pc.i)
<1>1. g \in GuestIds
  BY PolledIs DEF DequeueFails
<1>2. PICK s \in Handled(sched[g]) : sched' = [sched EXCEPT ![g] = s]
  BY DEF DequeueFails
<1>3. SchedOk(s)
  BY <1>1, LoadFields, HandledOk DEF LoopInv
<1>4. UNCHANGED <<budgetVars, load, ng, list, qst, cut, turn>>
  BY DEF DequeueFails
<1>5. pc' \in Locals /\ pc'.at = "sched" /\ pc'.last < 0
  BY PollIs DEF DequeueFails, Places
<1>6. PcOk'
  BY <1>5, LocalFields, SMTT(40) DEF PcOk, Locals
<1> HIDE DEF g
<1>7. LoopInv'
  BY <1>1, <1>2, <1>3, <1>4, <1>5, <1>6, SchedStep
<1> QED
  BY <1>4, <1>7 DEF LoopStep

LEMMA RotateQueueStep == LoopInv /\ RotateQueue => LoopStep
<1> SUFFICES ASSUME LoopInv, RotateQueue
             PROVE  LoopStep
  OBVIOUS
<1>1. PICK g \in GuestIds : g = GuestAt(turn.queues, pc.i) /\ g < ng /\ ng > 0
  <2>1. ng \in 1 .. MaxGuests /\ turn.queues \in Nat /\ pc.i \in Nat
    BY PolledIs, LocalFields, BudgetAssumption, SMTT(40) DEF RotateQueue, LoopInv, LoopType
  <2> DEFINE h == GuestAt(turn.queues, pc.i)
  <2>2. h \in GuestIds /\ h \in 0 .. ng - 1
    BY <2>1, GuestAtIs
  <2> HIDE DEF h
  <2>3. h < ng /\ ng > 0
    BY <2>1, <2>2, SMTT(40)
  <2> QED
    BY <2>2, <2>3 DEF h
<1>2. PICK l : l = Rotated(list[g])
  OBVIOUS
<1>3. /\ list \in [GuestIds -> QueueList] /\ list[g] \in QueueList
      /\ list[g].n = Cardinality(On(g))
      /\ list[g].n > 0 /\ list[g].head # PROTOQ_ID_INVALID
      /\ g \notin cut => ListOk(list[g], On(g))
  BY <1>1 DEF RotateQueue, LoopInv, LoopType, PcOk
<1>4. UNCHANGED <<budgetVars, load, ng, qst, sched, cut, turn>>
  BY DEF RotateQueue
<1>5. pc \in Locals /\ pc.j + 1 \in Nat /\ turn \in [queues : Nat, sched : Nat]
  BY LocalFields, SMTT(40) DEF LoopInv, LoopType
<1>6. CASE list[g].tail = PROTOQ_ID_INVALID
  <2>1. list' = list /\ pc' = [pc EXCEPT !.at = "undefined"]
    BY <1>1, <1>6 DEF RotateQueue
  <2>2. pc' \in Locals /\ pc'.at = "undefined"
    BY <1>5, <2>1 DEF Locals, Places
  <2>3. g \in cut
    BY <1>3, <1>6, OkHasEnds
  <2>4. PcOk'
    BY <1>1, <1>4, <2>2, <2>3 DEF PcOk
  <2> QED
    BY <1>4, <1>5, <2>1, <2>2, <2>4, PcStep DEF LoopStep
<1>7. CASE list[g].tail # PROTOQ_ID_INVALID
  <2>1. /\ list' = [list EXCEPT ![g] = l]
        /\ pc' = [pc EXCEPT !.j = @ + 1, !.at = NextQueue(l)]
    BY <1>1, <1>2, <1>7 DEF RotateQueue
  <2>2. l \in QueueList /\ l.n = list[g].n
    BY <1>2, <1>3, <1>7, RotatedType
  <2>3. g \notin cut => ListOk(l, On(g))
    BY <1>2, <1>3, RotatedOk
  <2>4. /\ NextQueue(l) \in {"left", "drain", "undefined"}
        /\ NextQueue(l) = "drain" => l.head # PROTOQ_ID_INVALID
        /\ NextQueue(l) = "undefined" => l.head = PROTOQ_ID_INVALID
    BY DEF NextQueue
  <2>5. pc' \in Locals /\ pc'.i = pc.i /\ pc'.at = NextQueue(l)
    <3>1. pc' = [pc EXCEPT !.j = pc.j + 1, !.at = NextQueue(l)]
      BY <2>1
    <3>2. NextQueue(l) \in Places
      BY <2>4 DEF Places
    <3> HIDE DEF NextQueue
    <3> QED
      BY <1>5, <3>1, <3>2 DEF Locals
  <2>6. NextQueue(l) = "undefined" => g \in cut
    BY <1>3, <2>2, <2>3, <2>4, OkHasEnds
  <2>7. PcOk'
    <3>1. GuestAt(turn.queues, pc.i)' = g
      BY <1>1, <1>4, <2>5 DEF GuestAt
    <3>2. list'[g] = l
      BY <1>3, <2>1
    <3> QED
      BY <1>1, <1>3, <1>4, <2>2, <2>4, <2>5, <2>6, <3>1, <3>2 DEF PcOk
  <2>8. \A h \in GuestIds : On(h)' = On(h)
    BY <1>4 DEF On
  <2>9. qst' \in [GuestIds -> [Queues -> {"none", "new", "on", "off", "again"}]]
    BY <1>4 DEF LoopInv, LoopType
  <2>10. LoopInv'
    BY <1>1, <1>3, <1>4, <2>1, <2>2, <2>3, <2>5, <2>7, <2>8, <2>9, ListStep
  <2> QED
    BY <1>4, <2>10 DEF LoopStep
<1> QED
  BY <1>6, <1>7

LEMMA QueuesLeaveStep == LoopInv /\ QueuesLeave => LoopStep
<1> SUFFICES ASSUME LoopInv, QueuesLeave
             PROVE  LoopStep
  OBVIOUS
<1>1. PICK g \in GuestIds : g = GuestAt(turn.queues, pc.i) /\ g \in Nat /\ ng > 0
  BY PolledIs DEF QueuesLeave
<1>2. \/ Spend(g) /\ pc' = [pc EXCEPT !.at = "guest", !.i = @ + 1, !.last = g]
      \/ UNCHANGED budgetVars /\ pc' = [pc EXCEPT !.at = "guest", !.i = @ + 1]
  BY <1>1 DEF QueuesLeave
<1>3. [BudgetNext]_budgetVars
  BY <1>2, SpendIs
<1>4. pc' \in Locals /\ pc'.at = "guest"
  <2>1. pc \in Locals /\ pc.i + 1 \in Nat /\ "guest" \in Places /\ g \in Int
    BY <1>1, LocalFields, SMTT(40) DEF LoopInv, LoopType, Places
  <2>2. \/ pc' = [pc EXCEPT !.at = "guest", !.i = pc.i + 1, !.last = g]
        \/ pc' = [pc EXCEPT !.at = "guest", !.i = pc.i + 1]
    BY <1>2
  <2>3. CASE pc' = [pc EXCEPT !.at = "guest", !.i = pc.i + 1, !.last = g]
    BY <2>1, <2>3 DEF Locals
  <2>4. CASE pc' = [pc EXCEPT !.at = "guest", !.i = pc.i + 1]
    BY <2>1, <2>4 DEF Locals
  <2> QED
    BY <2>2, <2>3, <2>4
<1>5. UNCHANGED <<load, ng, list, qst, sched, cut, turn>>
  BY DEF QueuesLeave, guestVars
<1>6. PcOk'
  BY <1>1, <1>4, <1>5 DEF PcOk
<1>7. LoopInv'
  BY <1>4, <1>5, <1>6, PcStep DEF LoopInv, LoopType
<1> QED
  BY <1>3, <1>7 DEF LoopStep

LEMMA SchedEndStep == LoopInv /\ SchedEnd => LoopStep
<1> SUFFICES ASSUME LoopInv, SchedEnd
             PROVE  LoopStep
  OBVIOUS
<1>1. pc' \in Locals /\ pc'.at = "ctl" /\ pc'.last < 0
  BY AtIs DEF SchedEnd, Places
<1>2. turn \in [queues : Nat, sched : Nat] /\ AfterLast(turn.sched) \in Nat
  BY AfterLastIs DEF LoopInv, LoopType
<1>3. turn' \in [queues : Nat, sched : Nat]
  BY <1>2 DEF SchedEnd
<1>4. PcOk'
  BY <1>1, LocalFields, SMTT(40) DEF PcOk, Locals
<1>5. LoopInv'
  BY <1>1, <1>3, <1>4, PcStep DEF SchedEnd, guestVars
<1> QED
  BY <1>5 DEF LoopStep, SchedEnd

LEMMA SchedTurnStep ==
  ASSUME LoopInv, NEW passed, SchedTurn(passed)
  PROVE  LoopStep
<1>1. pc.i < ng /\ ng > 0
  BY PolledIs DEF SchedTurn
<1>2. pc \in Locals /\ pc.at = "sched"
  BY DEF SchedTurn, LoopInv, LoopType
<1>3. UNCHANGED <<budgetVars, load, ng, list, qst, sched, cut, turn>>
  BY DEF SchedTurn, guestVars
<1>4. \/ pc' = [pc EXCEPT !.i = @ + 1]
      \/ pc' = [pc EXCEPT !.at = "send", !.n0 = pc.n, !.failed = FALSE]
  BY DEF SchedTurn
<1>5. pc' \in Locals /\ pc'.at \notin {"drain", "undefined"}
  <2>1. CASE pc' = [pc EXCEPT !.i = @ + 1]
    BY <1>2, <2>1, SMTT(40) DEF Locals
  <2>2. CASE pc' = [pc EXCEPT !.at = "send", !.n0 = pc.n, !.failed = FALSE]
    BY <1>2, <2>2 DEF Locals, Places
  <2> QED
    BY <1>4, <2>1, <2>2
<1>6. PcOk'
  BY <1>1, <1>3, <1>5 DEF PcOk
<1> QED
  BY <1>3, <1>5, <1>6, PcStep DEF LoopInv, LoopType, LoopStep

LEMMA SchedEventStep == LoopInv /\ SchedEvent => LoopStep
<1> SUFFICES ASSUME LoopInv, SchedEvent
             PROVE  LoopStep
  OBVIOUS
<1> DEFINE g == GuestAt(turn.sched, pc.i)
<1>1. g \in GuestIds /\ ng > 0
  BY PolledIs DEF SchedEvent
<1>2. \/ \E s \in Sent(sched[g]) : sched' = [sched EXCEPT ![g] = s]
      \/ sched' = sched
  BY DEF SchedEvent
<1>3. sched[g].head # SCHED_ID_INVALID
  BY DEF SchedEvent
<1>4. UNCHANGED <<budgetVars, load, ng, list, qst, cut, turn>>
  BY DEF SchedEvent
<1>5. \/ pc' = [pc EXCEPT !.n = @ + 1]
      \/ pc' = pc
      \/ pc' = [pc EXCEPT !.at = "sent"]
      \/ pc' = [pc EXCEPT !.at = "sent", !.failed = TRUE]
  BY DEF SchedEvent
<1> HIDE DEF g
<1>6. PICK s : SchedOk(s) /\ sched' = [sched EXCEPT ![g] = s]
  <2>1. CASE sched' = sched
    <3>1. SchedOk(sched[g]) /\ sched' = [sched EXCEPT ![g] = sched[g]]
      BY <1>1, <2>1 DEF LoopInv, LoopType
    <3> QED
      BY <3>1
  <2>2. CASE \E s \in Sent(sched[g]) : sched' = [sched EXCEPT ![g] = s]
    BY <1>1, <1>3, <2>2, SentOk DEF LoopInv
  <2> QED
    BY <1>2, <2>1, <2>2
<1>7. pc \in Locals /\ pc.at = "send"
  BY DEF SchedEvent, LoopInv, LoopType
<1>8. pc' \in Locals /\ pc'.at \notin {"drain", "undefined"}
  <2>1. CASE pc' = [pc EXCEPT !.n = @ + 1]
    BY <1>7, <2>1, SMTT(40) DEF Locals
  <2>2. CASE pc' = pc
    BY <1>7, <2>2
  <2>3. CASE pc' = [pc EXCEPT !.at = "sent"]
    BY <1>7, <2>3 DEF Locals, Places
  <2>4. CASE pc' = [pc EXCEPT !.at = "sent", !.failed = TRUE]
    BY <1>7, <2>4 DEF Locals, Places
  <2> QED
    BY <1>5, <2>1, <2>2, <2>3, <2>4
<1>9. PcOk'
  BY <1>1, <1>4, <1>8 DEF PcOk
<1>10. LoopInv'
  BY <1>1, <1>4, <1>6, <1>8, <1>9, SchedStep
<1> QED
  BY <1>4, <1>10 DEF LoopStep

LEMMA SchedStopStep == LoopInv /\ SchedStop => LoopStep
<1> SUFFICES ASSUME LoopInv, SchedStop
             PROVE  LoopStep
  OBVIOUS
<1>1. ng > 0
  BY PolledIs DEF SchedStop
<1>2. pc' \in Locals /\ pc'.at = "sent"
  BY DEF SchedStop, LoopInv, LoopType, Locals, Places
<1>3. UNCHANGED <<budgetVars, load, ng, list, qst, sched, cut, turn>>
  BY DEF SchedStop, guestVars
<1>4. PcOk'
  BY <1>1, <1>2, <1>3 DEF PcOk
<1> QED
  BY <1>2, <1>3, <1>4, PcStep DEF LoopInv, LoopType, LoopStep

\* Where the poll of the schedulers goes on.
LEMMA NextSchedIs ==
  ASSUME LoopInv, pc.at = "sent"
  PROVE  NextSched \in Locals /\ NextSched.at = "sched"
<1>1. pc \in Locals /\ GuestAt(turn.sched, pc.i) \in Nat
  BY PolledIs DEF LoopInv, LoopType
<1> DEFINE last == IF pc.n > pc.n0 /\ ~pc.failed
                   THEN GuestAt(turn.sched, pc.i) ELSE pc.last
<1>2. last \in Int
  BY <1>1, LocalFields, SMTT(40)
<1>3. NextSched = [pc EXCEPT !.at = "sched", !.i = pc.i + 1, !.last = last]
  BY DEF NextSched
<1> HIDE DEF last
<1>4. "sched" \in Places /\ pc.i + 1 \in Nat
  BY <1>1, LocalFields, SMTT(40) DEF Places
<1> QED
  BY <1>1, <1>2, <1>3, <1>4 DEF Locals

LEMMA SchedLeftStep ==
  ASSUME LoopInv, NEW next \in {NextSched, At("ctl", 0)}, SchedLeft(next)
  PROVE  LoopStep
<1>1. PICK g \in GuestIds : g = GuestAt(turn.sched, pc.i) /\ ng > 0
  BY PolledIs DEF SchedLeft
<1>2. Spend(g) \/ UNCHANGED budgetVars
  BY <1>1 DEF SchedLeft
<1>3. [BudgetNext]_budgetVars
  BY <1>2, SpendIs
<1>4. pc' \in Locals /\ pc'.at \in {"sched", "ctl"}
  <2>1. NextSched \in Locals /\ NextSched.at = "sched"
    BY NextSchedIs DEF SchedLeft
  <2>2. At("ctl", 0) \in Locals /\ At("ctl", 0).at = "ctl"
    BY AtIs DEF Places
  <2>3. pc' = next
    BY DEF SchedLeft
  <2> QED
    BY <2>1, <2>2, <2>3
<1>5. UNCHANGED <<load, ng, list, qst, sched, cut, turn>>
  BY DEF SchedLeft, guestVars
<1>6. PcOk'
  BY <1>1, <1>4, <1>5 DEF PcOk
<1>7. LoopInv'
  BY <1>4, <1>5, <1>6, PcStep DEF LoopInv, LoopType
<1> QED
  BY <1>3, <1>7 DEF LoopStep

LEMMA NewGuestStep ==
  ASSUME LoopInv, nr \in 0 .. MaxGuests, NewGuest, UNCHANGED <<load, turn>>,
         pc' = At("rx", 0)
  PROVE  LoopInv'
<1>1. PICK g \in GuestIds : g = ng /\ ng' = g + 1 /\ ng' \in 0 .. MaxGuests
  BY BudgetAssumption, SMTT(40) DEF NewGuest, LoopInv, LoopType, GuestIds
<1>2. /\ list' = [list EXCEPT ![g] = NoQueues]
      /\ sched' = [sched EXCEPT ![g] = sched_init]
      /\ qst' = qst /\ cut' = cut
  BY <1>1 DEF NewGuest
<1>3. /\ pc' \in Locals /\ pc'.at = "rx" /\ pc'.last < 0
      /\ pc'.last \in Int
  BY AtIs, LocalFields, SMTT(40) DEF Places, At
<1>4. \A h \in GuestIds : On(h)' = On(h)
  BY <1>2 DEF On
<1>5. On(g) = {}
  BY <1>1, BudgetAssumption, SMTT(40) DEF LoopInv, LoopType
<1>6. ListOk(NoQueues, {}) /\ SchedOk(sched_init)
  BY EmptyListOk, InitSchedOk, SMTT(40)
<1>7. LoopType'
  BY <1>1, <1>2, <1>3, <1>6 DEF LoopInv, LoopType, ListOk, SchedOk
<1>8. \A h \in GuestIds : /\ list'[h].n = Cardinality(On(h)')
                          /\ h \notin cut' => ListOk(list'[h], On(h)')
  <2>1. NoQueues.n = Cardinality({})
    BY FS_EmptySet DEF NoQueues
  <2> QED
    BY <1>2, <1>4, <1>5, <1>6, <2>1 DEF LoopInv, LoopType
<1>9. \A h \in GuestIds : SchedOk(sched'[h])
  BY <1>2, <1>6 DEF LoopInv, LoopType
<1>10. \A h \in GuestIds : h >= ng' => On(h)' = {}
  BY <1>1, <1>4, BudgetAssumption, SMTT(40) DEF LoopInv, LoopType, GuestIds
<1>11. PcOk'
  BY <1>3, PcFresh
<1> QED
  BY <1>7, <1>8, <1>9, <1>10, <1>11 DEF LoopInv

\* Messages about a queue of a guest.
LEMMA QueueStep ==
  ASSUME LoopInv, NEW g \in 0 .. ng - 1, NEW q \in Queues,
         NewQueue(g, q) \/ EnableQueue(g, q) \/ DisableQueue(g, q),
         UNCHANGED <<load, turn>>, pc' = At("rx", 0)
  PROVE  LoopInv'
<1>1. g \in GuestIds /\ g < ng
  BY BudgetAssumption, SMTT(40) DEF LoopInv, LoopType, GuestIds
<1>2. pc' \in Locals /\ pc'.at = "rx" /\ pc'.last < 0 /\ pc'.last \in Int
  BY AtIs, LocalFields, SMTT(40) DEF Places, At
<1>3. PcOk'
  BY <1>2, SMTT(40) DEF PcOk
<1>4. UNCHANGED <<ng, sched>>
  BY DEF NewQueue, EnableQueue, DisableQueue
<1>5. /\ qst \in [GuestIds -> [Queues -> {"none", "new", "on", "off", "again"}]]
      /\ list \in [GuestIds -> QueueList] /\ list[g] \in QueueList
      /\ list[g].n = Cardinality(On(g))
      /\ g \notin cut => ListOk(list[g], On(g))
  BY <1>1 DEF LoopInv, LoopType
<1>6. ASSUME NEW st \in {"new", "on", "off", "again"},
             qst' = [qst EXCEPT ![g][q] = st]
      PROVE  /\ qst' \in [GuestIds -> [Queues -> {"none", "new", "on", "off", "again"}]]
             /\ \A h \in GuestIds : h # g => On(h)' = On(h)
             /\ On(g)' = IF st \in {"on", "again"} THEN On(g) \cup {q} ELSE On(g) \ {q}
  <2>1. \A h \in GuestIds, k \in Queues :
          qst'[h][k] = IF h = g /\ k = q THEN st ELSE qst[h][k]
    BY <1>1, <1>5, <1>6
  <2>2. qst' \in [GuestIds -> [Queues -> {"none", "new", "on", "off", "again"}]]
    BY <1>1, <1>5, <1>6
  <2>3. \A h \in GuestIds : h # g => On(h)' = On(h)
    BY <2>1 DEF On
  <2>4. On(g)' = IF st \in {"on", "again"} THEN On(g) \cup {q} ELSE On(g) \ {q}
    BY <1>1, <2>1 DEF On
  <2> QED
    BY <2>2, <2>3, <2>4
<1>7. IsFiniteSet(On(g))
  <2>1. On(g) \subseteq Queues
    BY DEF On
  <2> QED
    BY <2>1, LoopAssumption, FS_Subset
<1>8. CASE NewQueue(g, q)
  <2>1. q \notin On(g)
    BY <1>8 DEF NewQueue, On
  <2>2. list' = [list EXCEPT ![g] = Unlisted(list[g], q)] /\ cut' = cut
    BY <1>1, <1>5, <1>8 DEF NewQueue, Unlisted
  <2>3. /\ Unlisted(list[g], q) \in QueueList
        /\ Unlisted(list[g], q).n = Cardinality(On(g))
    BY <1>5, UnlistedType
  <2>4. g \notin cut => ListOk(Unlisted(list[g], q), On(g))
    BY <1>5, <2>1, UnlistedOk
  <2>5. /\ qst' \in [GuestIds -> [Queues -> {"none", "new", "on", "off", "again"}]]
        /\ \A h \in GuestIds : h # g => On(h)' = On(h)
        /\ On(g)' = On(g) \ {q}
    BY <1>6, <1>8 DEF NewQueue
  <2>6. On(g) \ {q} = On(g)
    BY <2>1
  <2> QED
    BY <1>1, <1>2, <1>3, <1>4, <2>2, <2>3, <2>4, <2>5, <2>6, ListStep
<1>9. CASE EnableQueue(g, q)
  <2>1. q \notin On(g)
    BY <1>9 DEF EnableQueue, On
  <2>2. list' = [list EXCEPT ![g] = Appended(list[g], q)] /\ cut' = cut
    BY <1>9 DEF EnableQueue
  <2>3. /\ Appended(list[g], q) \in QueueList
        /\ Appended(list[g], q).n = Cardinality(On(g) \cup {q})
    <3>1. Cardinality(On(g) \cup {q}) = Cardinality(On(g)) + 1
      BY <1>7, <2>1, FS_AddElement
    <3>2. /\ Appended(list[g], q) \in QueueList
          /\ Appended(list[g], q).n = list[g].n + 1
      BY <1>5, AppendedType
    <3> QED
      BY <1>5, <3>1, <3>2
  <2>4. g \notin cut => ListOk(Appended(list[g], q), On(g) \cup {q})
    BY <1>5, <2>1, AppendedOk
  <2>5. PICK st \in {"on", "again"} : qst' = [qst EXCEPT ![g][q] = st]
    BY <1>9 DEF EnableQueue
  <2>6. /\ qst' \in [GuestIds -> [Queues -> {"none", "new", "on", "off", "again"}]]
        /\ \A h \in GuestIds : h # g => On(h)' = On(h)
        /\ On(g)' = On(g) \cup {q}
    BY <1>6, <2>5
  <2> QED
    BY <1>1, <1>2, <1>3, <1>4, <2>2, <2>3, <2>4, <2>6, ListStep
<1>10. CASE DisableQueue(g, q)
  <2>1. q \in On(g)
    BY <1>10 DEF DisableQueue
  <2>2. /\ list' = [list EXCEPT ![g] = Removed(list[g], q)]
        /\ cut' = IF On(g) = {q} THEN cut ELSE cut \cup {g}
    BY <1>10 DEF DisableQueue
  <2>3. /\ Removed(list[g], q) \in QueueList
        /\ Removed(list[g], q).n = Cardinality(On(g) \ {q})
    <3>1. Cardinality(On(g)) > 0
      BY <1>5, <1>7, <2>1, FS_EmptySet, ListFields, SMTT(40)
    <3>2. Cardinality(On(g) \ {q}) = Cardinality(On(g)) - 1
      BY <1>7, <2>1, FS_RemoveElement
    <3>3. /\ Removed(list[g], q) \in QueueList
          /\ Removed(list[g], q).n = list[g].n - 1
      BY <1>5, <3>1, RemovedType
    <3> QED
      BY <1>5, <3>2, <3>3
  <2>4. g \notin cut' => ListOk(Removed(list[g], q), On(g) \ {q})
    <3> SUFFICES ASSUME g \notin cut'
                 PROVE  ListOk(Removed(list[g], q), On(g) \ {q})
      OBVIOUS
    <3>1. On(g) = {q} /\ g \notin cut
      BY <2>2
    <3>2. list[g].n = 1
      BY <1>5, <3>1, FS_Singleton
    <3> QED
      BY <1>5, <2>1, <3>1, <3>2, RemovedOk
  <2>5. /\ qst' \in [GuestIds -> [Queues -> {"none", "new", "on", "off", "again"}]]
        /\ \A h \in GuestIds : h # g => On(h)' = On(h)
        /\ On(g)' = On(g) \ {q}
    BY <1>6, <1>10 DEF DisableQueue
  <2>6. cut \subseteq cut'
    BY <2>2
  <2> QED
    BY <1>1, <1>2, <1>3, <1>4, <2>2, <2>3, <2>4, <2>5, <2>6, ListStep
<1> QED
  BY <1>8, <1>9, <1>10

LEMMA ControlStep == BudgetInv /\ LoopInv /\ controlif_poll => LoopStep
<1> SUFFICES ASSUME BudgetInv, LoopInv, controlif_poll
             PROVE  LoopStep
  OBVIOUS
<1>1. UNCHANGED <<budgetVars, load, turn>> /\ pc' = At("rx", 0)
  BY DEF controlif_poll
<1>2. \/ UNCHANGED <<ng, list, qst, sched, cut>>
      \/ NewGuest
      \/ \E g \in 0 .. ng - 1, q \in load.queues :
           NewQueue(g, q) \/ EnableQueue(g, q) \/ DisableQueue(g, q)
  BY DEF controlif_poll, guestVars, NewMap, UploadEbpf
<1>3. CASE UNCHANGED <<ng, list, qst, sched, cut>>
  <2>1. pc' \in Locals /\ pc'.at = "rx" /\ pc'.last < 0 /\ pc'.last \in Int
    BY <1>1, AtIs, SMTT(40) DEF Places, At
  <2>2. PcOk'
    BY <2>1, SMTT(40) DEF PcOk
  <2>3. LoopInv'
    BY <1>1, <1>3, <2>1, <2>2, PcStep DEF LoopInv, LoopType
  <2> QED
    BY <1>1, <2>3 DEF LoopStep
<1>4. CASE NewGuest
  <2>1. LoopInv'
    BY <1>1, <1>4, NewGuestStep DEF BudgetInv, BudgetTypeOK
  <2> QED
    BY <1>1, <2>1 DEF LoopStep
<1>5. ASSUME NEW g \in 0 .. ng - 1, NEW q \in load.queues,
             NewQueue(g, q) \/ EnableQueue(g, q) \/ DisableQueue(g, q)
      PROVE  LoopInv'
  BY <1>1, <1>5, LoadFields, QueueStep
<1> QED
  BY <1>1, <1>2, <1>3, <1>4, <1>5 DEF LoopStep

LEMMA OthersStep ==
  ASSUME LoopInv, Produce \/ Register \/ Refresh \/ OtherCore \/ ProgramsReady
  PROVE  LoopStep
<1>1. UNCHANGED <<load, ng, list, qst, sched, cut, turn>>
  BY DEF Produce, Register, Refresh, OtherCore, ProgramsReady, guestVars
<1>2. pc' \in Locals /\ PcOk'
  <2>1. CASE ProgramsReady
    <3>1. pc' \in Locals /\ pc'.at = "rx" /\ pc'.last < 0 /\ pc'.last \in Int
      BY <2>1, AtIs, SMTT(40) DEF ProgramsReady, Places, At
    <3> QED
      BY <3>1, SMTT(40) DEF PcOk
  <2>2. CASE UNCHANGED pc
    BY <1>1, <2>2 DEF LoopInv, LoopType, PcOk, GuestAt
  <2> QED
    BY <2>1, <2>2 DEF Produce, Register, Refresh, OtherCore
<1>3. [BudgetNext]_budgetVars
  <2>1. CASE OtherCore
    <3>1. PICK j \in load.cores \ {Me}, g \in GuestIds, cyc \in 1 .. MaxCyc :
            Charge(g, j, cyc)
      BY <2>1 DEF OtherCore
    <3>2. j \in CoreIds /\ cyc \in 0 .. MaxCyc
      BY LoadFields, SMTT(40)
    <3> QED
      BY <3>1, <3>2 DEF BudgetNext
  <2>2. CASE Produce \/ ProgramsReady
    BY <2>2 DEF Produce, ProgramsReady
  <2>3. CASE Register \/ Refresh
    BY <2>3 DEF Register, Refresh, BudgetNext, Control
  <2> QED
    BY <2>1, <2>2, <2>3
<1>4. LoopInv'
  BY <1>1, <1>2, PcStep DEF LoopInv, LoopType
<1> QED
  BY <1>3, <1>4 DEF LoopStep

LEMMA InitLoopInv == Init => LoopInv
<1> SUFFICES ASSUME Init
             PROVE  LoopInv
  OBVIOUS
<1>1. pc \in Locals /\ pc.at \in {"wait", "rx"} /\ pc.last < 0 /\ pc.last \in Int
  <2>1. PICK where \in {"wait", "rx"} : pc = At(where, 0)
    BY DEF Init
  <2> QED
    BY <2>1, AtIs, SMTT(40) DEF Places, At
<1>2. ListOk(NoQueues, {}) /\ SchedOk(sched_init)
  BY EmptyListOk, InitSchedOk, SMTT(40)
<1>3. \A g \in GuestIds : On(g) = {}
  BY DEF Init, On
<1>4. LoopType
  <2>1. NoQueues \in QueueList /\ sched_init \in Scheduler
    BY <1>2 DEF ListOk, SchedOk
  <2> QED
    BY <1>1, <2>1, BudgetAssumption, SMTT(40) DEF Init, LoopType
<1>5. /\ \A g \in GuestIds : list[g].n = Cardinality(On(g))
      /\ \A g \in GuestIds : ListOk(list[g], On(g))
      /\ \A g \in GuestIds : SchedOk(sched[g])
  <2>1. NoQueues.n = Cardinality({})
    BY FS_EmptySet DEF NoQueues
  <2> QED
    BY <1>2, <1>3, <2>1 DEF Init
<1>6. PcOk
  BY <1>1, SMTT(40) DEF PcOk
<1> QED
  BY <1>3, <1>4, <1>5, <1>6 DEF LoopInv

\* Every step keeps the invariant, and does nothing to the budgets but what
\* Budget says of a refresh and of charges.
LEMMA NextLoopInv == BudgetInv /\ LoopInv /\ [Next]_vars => LoopStep
<1> SUFFICES ASSUME BudgetInv, LoopInv, [Next]_vars
             PROVE  LoopStep
  OBVIOUS
<1>1. CASE Undefined \/ UNCHANGED vars
  <2>1. UNCHANGED <<budgetVars, load, ng, list, qst, sched, cut, turn, pc>>
    BY <1>1 DEF Undefined, vars
  <2>2. PcOk'
    BY <2>1 DEF LoopInv, PcOk, GuestAt
  <2>3. LoopInv'
    BY <2>1, <2>2, PcStep DEF LoopInv, LoopType
  <2> QED
    BY <2>1, <2>3 DEF LoopStep
<1>2. CASE RxPacket \/ RxEnd \/ QueuesEnd
  BY <1>2, RxPacketStep, RxEndStep, QueuesEndStep
<1>3. CASE QueuesGuest \/ QueuesGuestComb
  <2>1. PICK passed : /\ QueuesTurn(passed)
                      /\ \A h \in GuestIds :
                           list[h].head = PROTOQ_ID_INVALID => h \in passed
    <3>1. CASE QueuesGuest
      BY <3>1 DEF QueuesGuest
    <3>2. CASE QueuesGuestComb
      BY <3>2 DEF QueuesGuestComb
    <3> QED
      BY <1>3, <3>1, <3>2
  <2> QED
    BY <2>1, QueuesTurnStep
<1>4. CASE Dequeue \/ DequeueFails \/ RotateQueue \/ QueuesLeave
  BY <1>4, DequeueStep, DequeueFailsStep, RotateQueueStep, QueuesLeaveStep
<1>5. CASE SchedGuest \/ SchedGuestComb
  BY <1>5, SchedTurnStep DEF SchedGuest, SchedGuestComb
<1>6. CASE SchedEvent \/ SchedStop \/ SchedEnd
  BY <1>6, SchedEventStep, SchedStopStep, SchedEndStep
<1>7. CASE SchedLeave \/ SchedLeaveComb
  <2>1. PICK next \in {NextSched, At("ctl", 0)} : SchedLeft(next)
    BY <1>7 DEF SchedLeave, SchedLeaveComb
  <2> QED
    BY <2>1, SchedLeftStep
<1>8. CASE controlif_poll
  BY <1>8, ControlStep
<1>9. CASE Produce \/ Register \/ Refresh \/ OtherCore \/ ProgramsReady
  BY <1>9, OthersStep
<1> QED
  BY <1>1, <1>2, <1>3, <1>4, <1>5, <1>6, <1>7, <1>8, <1>9
     DEF Next, loop_fast_default, loop_fast_comb, RxPacketComb, RxEndComb,
         QueuesEndComb, DequeueComb, DequeueFailsComb, RotateQueueComb,
         QueuesLeaveComb, SchedEndComb, SchedEventComb, SchedStopComb

LEMMA LoopInvariant == Spec => [](BudgetInv /\ LoopInv)
<1>1. Init => BudgetInv /\ LoopInv
  BY InitBudgetInv, InitLoopInv DEF Init
<1>2. BudgetInv /\ LoopInv /\ [Next]_vars => (BudgetInv /\ LoopInv)'
  BY NextLoopInv, NextBudgetInv DEF LoopStep
<1> QED
  BY <1>1, <1>2, PTL DEF Spec

\* The loop of a core, with all that its handlers, the control plane and the
\* other cores do, changes the budgets only as the refresh, registrations and
\* fast_budg_charge do: it implements Budget, for every load, number of
\* guests, cores, queues and flows.
THEOREM LoopImplementsBudget == Spec => BudgetSpec
<1>1. Init => BudgetInit
  BY DEF Init
<1>2. BudgetInv /\ LoopInv /\ [Next]_vars => [BudgetNext]_budgetVars
  BY NextLoopInv DEF LoopStep
<1> QED
  BY <1>1, <1>2, LoopInvariant, PTL DEF Spec, BudgetSpec

\* The budgets of a guest on all cores together stay within perf_iso_cap
\* while the loop runs, although every share of the cap is rounded.
THEOREM CapHolds == Spec => []CapPerGuest
BY LoopInvariant, InvCap, PTL

\* No charge of the loop is undone by a refresh that runs at the same time.
THEOREM LoopKeepsCharges == Spec => ChargesKept
BY LoopImplementsBudget, ChargesNeverUndone, PTL

\* The enabled queues of a guest, and no others, are on the list that
\* queues_poll_guest rotates, each once, however often it is rotated and
\* however often queues are created, enabled, disabled and enabled again, until
\* handle_disableq takes a queue off a list with others on it.  The core uses
\* no queue outside of dqueues before some guest has disabled one of several.
THEOREM ListsExact == Spec => []ListExact
<1>1. ASSUME LoopInv, NEW g \in (0 .. ng - 1) \ cut
      PROVE  \E w \in [1 .. Cardinality(On(g)) -> On(g)] :
               IsList(list[g], w, Cardinality(On(g)))
  <2>1. g \in GuestIds
    BY <1>1, BudgetAssumption, SMTT(40) DEF LoopInv, LoopType, GuestIds
  <2>2. On(g) \in SUBSET Queues /\ ListOk(list[g], On(g))
    BY <1>1, <2>1 DEF LoopInv, On
  <2> QED
    BY <2>2, OkIsExact
<1>2. LoopInv => (pc.at = "undefined" => cut # {})
  BY DEF LoopInv, PcOk
<1>3. LoopInv => ListExact
  BY <1>1, <1>2 DEF ListExact
<1> QED
  BY <1>3, LoopInvariant, PTL

\* The scheduler of every guest holds the flows that handlers added and did
\* not take out, each once and lowest priority value first, after any sequence
\* of sched_add, sched_remove and sched_pop that handlers make.
THEOREM SchedulersStayInOrder == Spec => []SchedulersInOrder
<1>1. LoopInv => SchedulersInOrder
  <2> SUFFICES ASSUME LoopInv, NEW g \in 0 .. ng - 1
               PROVE  InOrder(sched[g])
    BY DEF SchedulersInOrder
  <2>1. g \in GuestIds
    BY BudgetAssumption, SMTT(40) DEF LoopInv, LoopType, GuestIds
  <2> QED
    BY <2>1, OkInOrder DEF LoopInv
<1> QED
  BY <1>1, LoopInvariant, PTL
=============================================================================
