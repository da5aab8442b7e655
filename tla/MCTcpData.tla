------------------------------ MODULE MCTcpData ------------------------------
(* Instances of the TCP data path for model checking. *)
EXTENDS TcpData

\* Sequence numbers of both ends wrap during the run.
WrapIss == [e \in Ends |-> IF e = "client" THEN 15 ELSE 14]

\* Queues of two elements, and a network that does all it may do.
Load(c, s, f, r) ==
  [bytes |-> [e \in Ends |-> IF e = "client" THEN c ELSE s],
   kinds |-> {"lose", "copy", "overtake"}, faults |-> f, early |-> r,
   paylen |-> 2, net |-> 2, bumps |-> 2, live |-> FALSE]

\* Queues that hold every bump and segment of the run, packets of one byte and
\* a network that only loses.
LiveLoad(c, f) ==
  [Load(c, 0, f, 0) EXCEPT !.kinds = {"lose"}, !.paylen = 1, !.net = 4,
                           !.bumps = 3, !.live = TRUE]

\* A stream that goes round the rings, one over a worse network, one with a
\* hasty retransmission timer, two streams at once, and two streams with three
\* bumps at one end, so that a bump finds app_fast full and stays pending; to
\* be delivered: more bytes than the receive ring holds over a good network,
\* and no more than it holds over a lossy one.
DataLoads ==
  {Load(3, 0, 1, 0), Load(2, 0, 2, 0), Load(2, 0, 1, 1), Load(1, 1, 1, 0),
   Load(2, 1, 0, 0), LiveLoad(3, 0), LiveLoad(2, 1)}
=============================================================================
