------------------------------ MODULE MCGuests ------------------------------
(* Loads for the guests, their library, the control plane and the cores. *)
EXTENDS Guests

MCClients == {1, 2, 3}

Q(n) == [op |-> "queue", len |-> n]
M(n) == [op |-> "map", len |-> n]
On(q, c) == [op |-> "enable", q |-> q, core |-> c]
Off(q, c) == [op |-> "disable", q |-> q, core |-> c]
A(n) == [op |-> "alloc", len |-> n]
U == [op |-> "upload", fault |-> "none"]
Bad == [U EXCEPT !.fault = "verifier"]
Fail == [U EXCEPT !.fault = "build"]
F == [op |-> "free"]

\* Two guests that do as scripts say, everything else as it should be.
Plain(one, two, mode) ==
  [ script |-> <<one, two, <<>>>>, vm |-> {}, good |-> MCClients, dies |-> {},
    mode |-> mode, room |-> 9, again |-> {}, retry |-> {}, ends |-> TRUE ]

MCLoads ==
  { \* queues and maps of two guests, one in a VM
    [Plain(<<Q(2), On(0, 0)>>, <<M(1), Q(2)>>, "hand")
       EXCEPT !.vm = {2}],
    Plain(<<Q(1), Q(2), On(1, 1), Off(1, 1), On(1, 0), On(1, 1)>>, <<>>, "hand"),
    \* a third guest is one too many
    [Plain(<<A(1)>>, <<>>, "hand") EXCEPT !.script[2] = <<F>>,
                                         !.script[3] = <<A(2)>>],
    \* a program is freed and its memory used again
    Plain(<<A(3), U, F, Q(1), M(2), A(2), F>>, <<>>, "ebpf"),
    \* programs of two guests in one VM
    Plain(<<A(2), U, U>>, <<A(1), U>>, "combined"),
    Plain(<<M(1), A(2), U>>, <<A(1), Bad>>, "ebpf"),
    \* programs that are refused
    [Plain(<<A(2), U, Fail, U>>, <<A(1), Bad>>, "combined")
       EXCEPT !.retry = {1}],
    \* programs are not used
    Plain(<<A(1), U>>, <<On(0, 0), On(3, 7), Q(1)>>, "hand"),
    \* memory, queues and maps run out
    [Plain(<<Q(7), Q(3)>>, <<>>, "hand") EXCEPT !.ends = FALSE],
    [Plain(<<M(1), M(1), M(8)>>, <<>>, "hand") EXCEPT !.ends = FALSE],
    [Plain(<<A(9), F, Q(1), Q(1), Q(1), Q(1)>>, <<>>, "hand")
       EXCEPT !.ends = FALSE],
    Plain(<<A(9), A(1), F, A(8), U>>, <<U>>, "hand"),
    \* a guest that does not stop asking for a queue on a core there is not
    [Plain(<<On(0, 7)>>, <<Q(1), On(0, 0)>>, "hand")
       EXCEPT !.again = {1}, !.vm = {2}],
    \* a protocol that is refused
    [Plain(<<Q(1)>>, <<Q(1)>>, "hand") EXCEPT !.vm = {2}, !.good = {}],
    \* guests that die
    [Plain(<<A(1), U>>, <<A(1)>>, "combined")
       EXCEPT !.dies = {1}, !.vm = {2}],
    [Plain(<<Q(1)>>, <<A(1)>>, "hand") EXCEPT !.dies = {1}, !.vm = {1}],
    \* queues to the cores that are often full
    [Plain(<<Q(1), On(0, 0), A(1), U, U>>, <<A(1), U>>,
           "combined") EXCEPT !.room = 1, !.ends = FALSE, !.retry = {1}],
    [Plain(<<Q(1), On(0, 0), On(0, 0), M(1)>>, <<Q(1)>>, "hand")
       EXCEPT !.room = 1, !.ends = FALSE, !.vm = {1}] }

=============================================================================
