----------------------------- MODULE MCFastLoop -----------------------------
(***************************************************************************)
(* Loads for model checking the fast-path loop: budgets of one guest on    *)
(* two cores; a guest with three queues; a guest with three flows; two     *)
(* guests that compete with queues, with flows, and with budgets; and      *)
(* handlers that fail, of one guest with two queues and of two guests; the *)
(* last three are for the combined loop.                                   *)
(***************************************************************************)
EXTENDS FastLoop

CONSTANTS q1, q2, q3, f1, f2, f3

MCQueues == {q1, q2, q3}
MCFlows == {f1, f2, f3}

Idling ==
  [guests |-> 1, queues |-> {}, flows |-> {}, rx |-> FALSE, cores |-> {0},
   disable |-> {}, fails |-> FALSE, guest |-> 0, queue |-> q1,
   iso |-> FALSE, batch |-> 1, comb |-> FALSE]

MCLoads ==
  { [Idling EXCEPT !.iso = TRUE, !.rx = TRUE, !.cores = {0, 1}],
    [Idling EXCEPT !.queues = {q1, q2, q3}, !.disable = {q1, q2}, !.batch = 2],
    [Idling EXCEPT !.rx = TRUE, !.flows = {f1, f2, f3}, !.batch = 3],
    [Idling EXCEPT !.guests = 2, !.queues = {q1, q2}],
    [Idling EXCEPT !.guests = 2, !.queues = {q1, q2}, !.disable = {q1},
                   !.guest = 1],
    [Idling EXCEPT !.guests = 2, !.queues = {q1}, !.flows = {f1}, !.batch = 2],
    [Idling EXCEPT !.guests = 2, !.queues = {q1}, !.flows = {f1}, !.batch = 2,
                   !.guest = 1],
    [Idling EXCEPT !.guests = 2, !.queues = {q1}, !.iso = TRUE, !.guest = 1],
    [Idling EXCEPT !.queues = {q1, q2}, !.flows = {f1}, !.batch = 2,
                   !.fails = TRUE],
    [Idling EXCEPT !.guests = 2, !.queues = {q1}, !.batch = 2, !.fails = TRUE],
    [Idling EXCEPT !.comb = TRUE, !.iso = TRUE, !.rx = TRUE, !.queues = {q1}],
    [Idling EXCEPT !.comb = TRUE, !.guests = 2, !.queues = {q1}, !.flows = {f1},
                   !.guest = 1],
    [Idling EXCEPT !.comb = TRUE, !.guests = 2, !.queues = {q1}, !.flows = {f1},
                   !.fails = TRUE] }
=============================================================================
