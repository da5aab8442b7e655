-------------------------------- MODULE Sched --------------------------------
(***************************************************************************)
(* The transmit scheduler of a guest (lib/utils/scheduler): a singly       *)
(* linked list over a fixed array of entries, lowest priority value first. *)
(* A scheduler is a record with the list's head and tail and, per entry,   *)
(* whether it is listed (its id is valid), its successor, its priority and *)
(* the units available for transmission.                                   *)
(***************************************************************************)
EXTENDS Integers, Sequences, FiniteSets

CONSTANTS
  Flows,            \* ids of entries
  SCHED_ID_INVALID  \* not an id

ASSUME SchedAssumption ==
  /\ IsFiniteSet(Flows)
  /\ SCHED_ID_INVALID \notin Flows

sched_init ==
  [ head |-> SCHED_ID_INVALID, tail |-> SCHED_ID_INVALID,
    listed |-> [f \in Flows |-> FALSE],
    next |-> [f \in Flows |-> SCHED_ID_INVALID],
    prio |-> [f \in Flows |-> 0],
    avail |-> [f \in Flows |-> 0] ]

\* The ids in w are linked by next, from the head to the end of the list.
Linked(s, w) ==
  /\ s.head = IF Len(w) = 0 THEN SCHED_ID_INVALID ELSE w[1]
  /\ \A i \in 1 .. Len(w) :
       s.next[w[i]] = IF i < Len(w) THEN w[i + 1] ELSE SCHED_ID_INVALID

\* A list that has an end is no longer than the array.
Lists == UNION {[1 .. n -> Flows] : n \in 0 .. Cardinality(Flows)}

\* The ids met when following next from the head.
Walk(s) == CHOOSE w \in Lists : Linked(s, w)

\* The id at place k of the walk, none at place 0.
IdAt(w, k) == IF k = 0 THEN SCHED_ID_INVALID ELSE w[k]

\* The entry's fields when it leaves the list.
Cleared(s, f) ==
  [s EXCEPT !.listed[f] = FALSE, !.next[f] = SCHED_ID_INVALID,
            !.prio[f] = 0, !.avail[f] = 0]

\* The entry that stays right in front of a new one of priority p.
Before(s, p) ==
  LET w == Walk(s)
      k == CHOOSE k \in 0 .. Len(w) :
             /\ \A i \in 1 .. k : s.prio[w[i]] < p
             /\ k < Len(w) => s.prio[w[k + 1]] >= p
  IN  IdAt(w, k)

\* Mutant of sched_insert: an entry behind all others is not the tail.
Bug_insert_keeps_tail(s, f) ==
  LET prev == Before(s, s.prio[f])
  IN  IF s.head = SCHED_ID_INVALID
      THEN [s EXCEPT !.head = f, !.tail = f, !.next[f] = SCHED_ID_INVALID]
      ELSE IF prev = SCHED_ID_INVALID
      THEN [s EXCEPT !.head = f, !.next[f] = s.head]
      ELSE [s EXCEPT !.next[f] = s.next[prev], !.next[prev] = f]

\* sched_insert: f goes behind all smaller priorities, in front of equal ones.
sched_insert(s, f) ==
  LET prev == Before(s, s.prio[f])
  IN  IF s.head = SCHED_ID_INVALID
      THEN [s EXCEPT !.head = f, !.tail = f, !.next[f] = SCHED_ID_INVALID]
      ELSE IF prev = SCHED_ID_INVALID
      THEN [s EXCEPT !.head = f, !.next[f] = s.head]
      ELSE [s EXCEPT !.next[f] = s.next[prev], !.next[prev] = f,
                     !.tail = IF s.next[prev] = SCHED_ID_INVALID
                              THEN f ELSE @]

\* sched_remove of a listed entry (of another one it changes nothing).
sched_remove(s, f) ==
  LET w == Walk(s)
      at == CHOOSE i \in 1 .. Len(w) : w[i] = f
      prev == IdAt(w, at - 1)
      cut == IF prev = SCHED_ID_INVALID
             THEN [s EXCEPT !.head = s.next[f]]
             ELSE [s EXCEPT !.next[prev] = s.next[f]]
  IN  Cleared([cut EXCEPT !.tail = IF @ = f THEN prev ELSE @], f)

\* sched_add: a listed entry keeps what it has available; it moves only if
\* its priority changes.
sched_add(s, f, p, avail) ==
  IF s.listed[f] /\ s.prio[f] = p
  THEN [s EXCEPT !.avail[f] = @ + avail]
  ELSE LET out == IF s.listed[f] THEN sched_remove(s, f) ELSE s
       IN  sched_insert([out EXCEPT !.listed[f] = TRUE, !.prio[f] = p,
                                    !.avail[f] = s.avail[f] + avail,
                                    !.next[f] = SCHED_ID_INVALID], f)

\* sched_pop of a list that is not empty.
sched_pop(s) ==
  LET f == s.head
  IN  Cleared([s EXCEPT !.head = s.next[f],
                        !.tail = IF s.next[f] = SCHED_ID_INVALID
                                 THEN SCHED_ID_INVALID ELSE @], f)

\* The list is what it should be: every listed entry once, priorities in
\* order, the tail the last of them.
InOrder(s) ==
  \E w \in Lists :
    /\ Linked(s, w)
    /\ {w[i] : i \in 1 .. Len(w)} = {f \in Flows : s.listed[f]}
    /\ \A i, k \in 1 .. Len(w) :
         i < k => w[i] # w[k] /\ s.prio[w[i]] <= s.prio[w[k]]
    /\ s.tail = IdAt(w, Len(w))
=============================================================================
