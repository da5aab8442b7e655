-------------------------------- MODULE MCArp --------------------------------
(* Instances of address resolution for model checking. *)
EXTENDS Arp

\* Queues of two entries, which overflow.
Tight ==
  [outer |-> <<1, 2>>, macs |-> {7}, mbufs |-> 2, reqs |-> 0, faults |-> 0, expiries |-> 0,
   len |-> 2, txlen |-> 1, slack |-> FALSE]

\* A message is lost, repeated or meant for another host; one destination is not
\* reachable at any address.
Lossy == [Tight EXCEPT !.outer = <<1, 0>>, !.mbufs = 1, !.faults = 2, !.expiries = 2]

\* Two addresses whose timers expire.
Timing == [Tight EXCEPT !.expiries = 1, !.len = 3, !.txlen = 2]

\* A host asks, too, from one of two cards.
Asked == [Tight EXCEPT !.outer = <<1>>, !.mbufs = 1, !.reqs = 2, !.macs = {7, 8}]

\* One address more than the tables have room for.
Crowded ==
  [Tight EXCEPT !.outer = <<1, 2, 3>>, !.mbufs = 1, !.reqs = 2, !.len = 3]

\* Room in every queue.
Roomy == [Tight EXCEPT !.outer = <<1>>, !.faults = 1, !.len = 6, !.txlen = 3, !.slack = TRUE]
RoomyAsked == [Roomy EXCEPT !.mbufs = 1, !.faults = 0, !.reqs = 1]

ArpLoads == {Tight, Lossy, Timing, Asked, Crowded, Roomy, RoomyAsked}
=============================================================================
