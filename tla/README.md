# Chamelio: specifications, model checking and proofs

Chamelio is a user-space network stack on DPDK. A control plane and a number of
fast-path cores run in one process; transport protocols (TCP, UDP) are guests of
that process, each with a slow-path process of its own and with event handlers
that run on the fast-path cores; applications link a library per protocol. All
of them talk through shared-memory queues and rings. This directory holds TLA+
modules translated from that code, TLC configurations that check them on small
instances, and proofs checked by TLAPS.

1. The system and its parts
2. Modules, and how they correspond to the code
3. What the runs check
4. Bounds and fairness
5. What is proved
6. Where code and documents disagree, and other observations
7. What is only model-checked, and what is not modelled
8. Plan

File names below are relative to `src/`.

## 1. The system and its parts

### Shared-memory queues (`lib/utils/queue`)
State: a ring of `nelems` slots with a type byte each (`QUEUE_EMPTY` or a message
type); the producer's `tail` and the consumer's `head` are private. Operations:
`queue_tail`/`queue_enqueue`, `queue_head`/`queue_dequeue`. One producer and one
consumer share nothing but the type bytes. Every pair of processes and cores in
the system is joined by such queues. Hard: the interleaving of the accesses, the
wrap, and callers that ignore the result of the second check. Correct when it is
a bounded FIFO with all its slots usable.

### TCP fast path (`chamelio/protos/tcp_fast.c`, `protos/tcp/include/tcp.h`)
State: `struct tcp_sock` per connection (sequence numbers, ring positions,
windows, recovery), transmit and receive rings. Events: a segment arrives
(`tcp_event_rx`), the scheduler's head entry is due (`tcp_event_sched`), a queue
has an entry (`tcp_event_deq`: bumps of the library, control packets and
retransmission commands of the slow path). It forwards control segments and
segments for sockets that are not established to the slow path. Hard: lost,
repeated and reordered segments; rewinding a flight while its acknowledgements
are under way; numbers that wrap; full bump queues; lost wakeups of the
scheduler. Correct when the reader gets the bytes that were written, in order,
and eventually all of them; when no byte of a ring is owned twice or forgotten.

### TCP slow path (`protos/tcp/slow`)
State: sockets, listeners (backlog and ring of ready children), ports, flow
table, timers. Operations: eight requests of applications (`app/tcp_app_req.c`),
control segments (`rx/`), timers (`tcp_timeout.c`), stalled senders
(`tcp_cc.c`). One thread, which serves in turn the queues from applications, the
queues from the cores and the timers. Hard: each operation takes several
resources that may run out half-way (socket, port, flow slot, timer, queue
entry) and must undo the others; a child of a listener may go away at any point
between SYN and accept; timers that fire although they were cancelled. Correct
when the tables mirror the states of the sockets exactly, when every half-open
socket has the timer that ends it, and when every request is answered.

### TCP library (`protos/tcp/lib/tcp_lib.c`)
State: descriptors with their own idea of the socket's state, updated from
messages of the slow path (`tcp_poll_slow`) and bumps of the fast path
(`tcp_poll_fast`). Blocking calls poll until their event is there. Hard: messages
that come late, after a close, or that were dropped. Correct when what the
library believes has happened in the slow path, and when calls return.

### Timeout manager (`lib/utils/tomgr`)
State: a binary heap over a table of entries that know their place in it. Used by
the slow path and by the control plane's ARP. Hard: the places must follow every
exchange. Correct when the root is the earliest timer, and a cancellation takes
out the timer it names and no other.

### Packet scheduler (`lib/utils/scheduler`)
State: a table of entries, one per flow, and a linked list of those that are
scheduled, ordered by priority. Operations: add, head, pop, remove. Correct when
the list is sorted and holds every scheduled flow once.

### Shared-memory allocator (`lib/utils/shm/shmalloc.c`)
State: first-fit free list of a region. Correct when allocated blocks are
disjoint and freed memory can be had again.

### ARP (`chamelio/control/control_arp.c`, `chamelio/arp/arp.c`)
State: address table with pending requests and retries in the control plane, a
copy per core, packets that wait. Hard: an answer, a timeout and a second request
race; three threads see the table at different times.

### Fast-path loop (`chamelio/fast`)
State per core: packet-buffer cache (`txcache.c`), transmit batch, round-robin
positions over guests, list of polled queues per guest, a copy of each guest's
configuration. Rounds: receive, queues, scheduler (`fast_rx.c`, `fast_queues.c`,
`fast_sched.c`), messages of the control plane (`controlif.c`). Hard: every
buffer must be in exactly one place on every path, error returns included; the
list of polled queues is changed while it is rotated. Correct when no buffer is
lost or used twice and no guest or queue starves.

### Control plane (`chamelio/control`, `lib/guest.c`)
Guests register over a Unix socket or as a virtual machine, get memory, ask for
queues and maps, upload programs; the control plane tells one core after the other
and answers the guest, without waiting for the cores (`control.c`,
`control_guest.c`, `guestif.c`, `control_ebpf.c`). Budgets
(`control_budget.c`) are refilled by the control plane and charged by the cores
at the same time. Hard: requests that fail half-way, a guest that waits for an
answer that never comes, a queue to a core that is full between two cores, programs
that are freed while a core still runs them, the unsynchronised budget.

### UDP (`protos/udp`, `chamelio/protos/udp_fast.c`)
The same division into library, slow path and fast path, with a ring of bytes per
socket and direction and a datagram per bump. A core that sends for an unbound
socket picks a port itself. Hard: ports are given out by the slow path and by every
core; bumps of one socket travel through a queue per core. Correct when the port
table and the sockets agree, when payloads arrive as they were sent, and when calls
return.

### Not state machines of their own
Network virtualisation (`chamelio/netvirt`): a table read from a file once. eBPF
compilation, verification and JIT: calls of external programs. The eBPF versions
of the handlers (`protos/*/fast/*.ebpf.c`) do what the handwritten ones do, but for
`udp_sock_find` (`udp_fast.ebpf.c:412`, `udp_fast.c:394`), of which `Udp` has both.
NIC, VFIO, ivshmem: drivers. Configuration, logging, clock, tools: pure I/O.

### How the parts interact
```
application + library --app_slow--> slow path --slow_fast--> fast path --> NIC
        |  ^            <--slow_app--     ^      <--fast_slow--  ^  |
        |  |                                                     |  |
        |  +------------------- fast_app (bumps) ----------------+  |
        +---------------------- app_fast (bumps) -------------------+
control plane <--> every fast-path core; control plane <--> every guest (slow path)
```
The socket and its two rings are shared memory: the fast path changes the socket
under a lock, the slow path reads `tx_seq` and `tx_pending` of it without one, and
the library never looks at it, only at bumps.

## 2. Modules, and how they correspond to the code

| module | models | state | actions |
|---|---|---|---|
| `Fifo` | what a queue promises | `q`, `seen` | `Enqueue`, `Peek`, `Dequeue`, `PutBack` |
| `SpscQueue` | `queue_fns.h` | type bytes, bodies, cursors, program counters of producer and consumer | one per access to a type byte, and one per use of a slot's body |
| `SpscQueueProofs` | | | theorems about `SpscQueue` |
| `TcpSock` | `struct tcp_sock` and the functions of `tcp_fast.c` that compute with it | operators on a socket `s` and a segment `p` | |
| `TcpData` | data transfer of an established connection: library, fast path and slow path of both ends, and the network | socket, rings, queues, library counters, segments | calls and polls of the library, `tcp_event_rx`, `tcp_event_sched`, the handlers of `tcp_event_deq`, the retransmission request of the slow path, faults |
| `TcpDataLemmas`, `TcpDataSteps`, `TcpDataReceive`, `TcpDataProofs` | | | theorems about `TcpSock` and `TcpData` |
| `TcpSlow` | handlers of the slow path | operators on `h`, the `struct tcp_slow_context` of a host | |
| `TcpLib` | socket calls and message handlers of the library | operators on `L`, the library of one application | |
| `TcpConn` | opening and closing connections: applications, `TcpLib`, `TcpSlow`, the fast path's forwarding, the network, foreign peers | `slow`, `lib`, `req`, `punt`, `net` per host | one per socket call, per loop of the slow path, per fast-path event, and faults |
| `TomgrHeap` | the heap of `tomgr.c` | operators on a heap with its table `m` | |
| `Tomgr` | callers of `tomgr.c`, over `TomgrHeap` | the heap, its table, what callers hold | `tomgr_insert`, `tomgr_cancel`, `tomgr_pop` |
| `Budget` | `control_budget.c`, the initial budgets of `guestif.c`, `fast_budg_charge` | counters per guest and core, place and locals of the refresh | registration, start, load and add of the refresh, charges |
| `Sched` | `scheduler.c` | operators on a scheduler `s` | |
| `FastLoop` | `loop_fast_default` with `fast_rx.c`, `fast_queues.c`, `fast_sched.c`, `loop_fast_comb` with `fast_comb.c`, and the messages of `controlif.c` about guests, queues and programs, over `Budget` and `Sched` | lists of polled queues, queue lengths, schedulers, guests with a protocol, turns, place and locals of the loop | one per iteration of each loop |
| `FastLoopProofs` | | | theorems about `Budget`, `Sched` and `FastLoop` |
| `Mbufs` | the buffers of the same loops: `txcache.c`, `fast_txflush`, the polls, `handle_arp_tx_pkt`, `handle_mbuf` | cache ring, pool, batch, buffers of card and control plane | one per poll or message |
| `MbufsProofs` | | | theorems about `Mbufs` |
| `Arp` | `control_arp.c`, `arp.c`, the ARP messages of `controlif.c`, the loop of `control.c` over messages and timeouts, over `TomgrHeap` | tables of the control plane and of each core, waiting packets, timers, queues in both directions, the network's part | one per packet, message, timeout and fault |
| `ShmHeap` | `shmalloc.c` | operators on a free list | |
| `Shmalloc` | any sequence of allocations and frees | `free`, `used` | `Alloc`, `Free` |
| `ShmallocProofs` | | | theorem about `Shmalloc` |
| `Guests` | `lib/guest.c`, `guestif.c`, `uxsocketif.c`, `ivshmemif.c`, `control_guest.c`, `control_ebpf.c`, and the cores' side in `controlif.c`, over `ShmHeap` | libraries, queues in both directions, guests, the message that is being sent to all cores, what each core knows, programs and combined VMs | one per call of the library, per answer, per event of the control plane's loop, per core that is told |
| `Udp` | `udp_lib.c`, `udp_slow.c`, `appif.c`, `udp_fast.c` | threads, descriptors, wait objects, sockets, ports, rings, queues between threads and slow path and between threads and cores | one per call, per iteration of a loop, per message; a core's look for a port takes three steps |
| `MCTcpData`, `MCTcpConn`, `MCFastLoop`, `MCArp`, `MCGuests`, `MCUdp` | | values for the constants | |

Definitions have the names of the C functions they translate. Operators called
`Bug_...` are mutations of the definition that follows them: each shows that some
property would notice that mistake. They are used by nothing.

What is atomic. In `SpscQueue` a single access to a type byte is a step, because
that is all the two sides share. Above it, queues are sequences (`SpscQueue`
refines `Fifo`). A fast-path event is a step: it runs under the socket's lock.
The library's `sendto`, `recvfrom` and the handling of one bump are steps, but the
release of a queue slot after its handler is a step of its own, and so is the slow
path's read of the socket before it sends a retransmission command. A handler
of the slow path is a step: it is single-threaded, and what it shares with others
are queues. A blocking call of the library is a step that asks, and a later one in
which the answer is handled.

In `FastLoop` an iteration of a loop of the core is a step, and between any two the
control plane and other cores may change budgets and guests may fill queues. The
load and the add of a refresh are separate steps, since each is one atomic access.
In `Mbufs` a whole poll is a step: nobody else touches the cache or the batch, and
pool and card are only used at its start and end.

In `Arp` and `Guests` the control plane handles one event of its loop in a step. A
message to all cores is one step per core in `Guests`, since a guest and the cores go on
in between; in `Arp` it is part of the step, since cores only meet through the control
plane and see their queues one by one. `Guests` separates a call of the library from
the answer it spins on. In `Udp` a core handles a
datagram in two steps (the port is looked up before the socket is used), and picks a
port in three: it finds one, moves `next_port` on, registers it. Two more handlers that
share state without a lock are in two steps: the slow path's `handle_bind` checks a port
and then joins it, and a core's `handle_bump_rx` reads `rx_avail` and then writes it.

What is abstract. Payload bytes are their numbers in the stream, so that any
misplaced byte is visible. Addresses are pairs of host and port. Sequence
numbers start at 1 in `TcpConn`, as in the code, and only SYN and FIN count there;
in `TcpData` they start near the wrap. Rates, ECN and timestamps decide when a segment is
sent; a scheduled socket may be served at any time. Timers may expire at any time
once they are set. All flows fall into one bucket of the flow table. Queues from
several cores are one queue. The `keep` field in `TcpSlow` is the outcome of
`tomgr_cancel` in the handler at hand; `Tomgr` shows that it does fail.

`TcpConn` assumes an orderly application (`Orderly`): it binds a socket before it
connects or listens with it, and does not connect or listen with one it has shut
down. The code refuses neither; see section 6.

In `FastLoop` the handlers of protocols are choices: what they may do to a scheduler
and what they may return. Cycles are small numbers. Of what the messages about maps,
queues and programs carry only the protocol is kept (`known`): `proto_type` in the
default loop, which is modelled with the hand-written protocols, `has_event_*` in the
combined one. The two loops have polls of their own, `...Comb` the second. Where the
code of both is the same the definitions are, too; the combined loop differs in that it
waits for its first programs, passes over guests without one or without flows, ends the
scheduler poll when a handler fails, and flushes the batch only behind the receive poll
and at the end of a round. A scheduler handler adds, moves or removes its flow, leaves it
where it is (a TCP flow whose time has not come), or fails. Assumed of guests: they enable
only queues that are not enabled, and disable only those that are. They may disable one of
several queues, after which the list may be broken: `cut` is the set of guests
that did, and the place "undefined" is the core's once it has followed an invalid link
(action `Undefined`). A queue that was enabled again is read from slot 0, so that it may
look empty although it is not ("again" in `qst`). The
split into `FastLoop` and `Mbufs` keeps both small; they meet in the number of buffers
a poll gets, which `FastLoop` takes as any number up to the batch size.

In `Arp` IP addresses are numbers, because the table hashes them, and a packet is its
destination. The context that holds the table is allocated once at the start and not
cleared (`chamelio.c:93`); `Arp` has its `te` fields as NULL, which is what fresh pages hold.
In `Guests` a program is its number in the order of uploads, and whether
the verifier accepts it, or the VM cannot be built, is part of the upload; offsets and
lengths of memory are exact. The slots of the queue to a guest keep what was in them
(`rq`), since a refusal leaves the cookie of an earlier answer there. `cut` is the set of
guests whose latest combined VM did not reach all cores.
In `Udp` headers are the two ports, and bytes are numbers, so that a payload that is
shifted is visible. Four histories record when the code has gone where it promises
nothing: ports that two joined at the same time (`raced`), sockets whose receive side two
cores had in hand at the same time (`torn`), a bump that did not fit (`spilled`), and for
each datagram whether its core's place in the port lay behind the sockets there (`stray`).
Assumed of `Udp`'s surroundings: rings can be allocated, and a
context's queues are polled once they are created (`Guests` shows that the message
reaches the cores).

`TcpData`, `TcpConn`, `FastLoop`, `Arp`, `Guests` and `Udp` take a set `Loads`: what
applications, peers and network do in a behaviour, and how long the queues are. One
is chosen in `Init`, so that one run covers several instances.

## 3. What the runs check

| run | states | shows |
|---|---|---|
| `SpscQueue` | 4.5 thousand | however producer and consumer interleave: the inductive invariant `IInv`, which says among others that the second checks hold (`SecondCheckHolds`); the ring refines `Fifo` (`ImplementsFifo`); entries are released (`EntriesReleased`) |
| `TcpData` | 1.17 million | the reader gets what was written (`StreamIntact`); acknowledged, received, owned and written positions are in order, and unacknowledged bytes are intact in the ring (`PositionsOrdered`); the bytes of both rings are accounted for exactly once, over library, bumps under way and fast path (`RingsAccounted`); a socket that may send is scheduled (`SendableIsScheduled`); every byte is read eventually, through closed windows and lost segments (`AllDelivered`) |
| `TcpServer` | 1.5 million | backlog counts and the ring of ready children (`BacklogExact`), listener lists (`ListenersExact`), the library's idea of its sockets, one descriptor each (`LibAgrees`), every connection in one slot of the flow table, and no two with the same endpoints unless a port was asked for with `bind` (`FlowsExact`), timers of half-open sockets (`HalfOpenTimed`); two ends of a connection agree on the sequence numbers, the first time their endpoints are connected (`NumbersAgree`) |
| `TcpClient` | 268 thousand | with cancellations that fail: `HalfOpenTimed`; every call returns, but a `tcp_socket` that finds no socket left, and every connect ends (`CallsReturn`), no socket stays half open (`HalfOpenEnds`) |
| `TcpSynAckResend` | violation | the answer to a repeated SYN has another number than the first (`RxSeqIsNext`) |
| `Tomgr` | 540 thousand | the heap is ordered and its entries are in use (`HeapOrdered`), an operation takes out the timer it should and no other (`RemovesExactly`) |
| `TomgrCancel` | violation | a timer that cannot be cancelled (`CancelStops`) |
| `FastLoop` | 895 thousand | the inductive invariant of the budgets (`BudgetInv`), which says among others that none is above its share (`BelowCap`); shares of a guest add up to no more than its cap (`CapPerGuest`), a refresh undoes no charge (`ChargesKept`); every enabled queue is on the list of polled queues once, unless its guest disabled one of several, and without that the core never uses the invalid queue (`ListExact`); schedulers are sorted and complete (`SchedulersInOrder`); no queue and no scheduler starves (`NoneStarves`) |
| `Mbufs` | 2.0 million | a buffer has one owner, and none disappears (`OneOwner`); the transmit batch does not overflow (`BatchFits`) |
| `Arp` | 1.03 million | a core never has another address than the control plane (`CopiesAgree`); a packet given back to a core finds its address resolved, or behind the update that resolves it (`UpdateFirst`); an address that is waited for has a timer, unless a request was refused, and there are timers enough (`PendingTimed`); with room in the queues every packet leaves (`PacketsLeave`) |
| `Guests` | 464 thousand | regions of memory are apart (`RegionsApart`); what a guest may use has reached every core, or is on its way in front of what uses it (`KnownEverywhere`); no core runs a VM that was destroyed, and programs that are linked again are alive unless a VM did not reach all cores (`ProgramsAlive`); none goes back to an older program (`ProgramsForward`); calls return, if the control plane gets past a guest that never stops asking (`GuestCallsReturn`) |
| `Udp` | 367 thousand | port table and sockets agree, but for ports that two join at the same time (`PortsExact`); datagrams leave and arrive with the bytes that were passed, and at a socket of their port, but for strays and raced ports (`PayloadsIntact`); both ends of a ring, and the bumps under way between them, agree, unless two cores have the receive side in hand at once (`RingsAgree`); calls return, if the slow path gets past a thread that never stops asking (`UdpCallsReturn`) |

Run one with `tlc -config TcpServer.cfg MCTcpConn`; `PROJECT.json` names the module of
each.

## 4. Bounds and fairness

`SpscQueue`: four slots, so that the cursors can be together, adjacent or apart and
the used interval can wrap; two messages. The proofs remove both bounds.

`TcpData`: rings of two bytes, segments of up to two bytes, numbers modulo 16 that
wrap during the run, windows modulo 8. Loads: three bytes with one fault (the
rings go round), two bytes with two faults, two bytes with a fault and a
retransmission request while the flight is still under way, both directions at once
with a fault, and both directions with two bytes one way and one the other without
faults; then the two loads of `AllDelivered`. In the last load before those, an end
announces two written bytes and one that it read: a third bump finds the
two-element `app_fast` full, and the library must keep it pending. With fewer bytes
that queue is never full when the library flushes. Ring length two makes every combination
of full, empty and wrapped arise; the comparison of numbers is exact as long as a flight is shorter than half of the
modulus, as in the code (rings are far shorter than 2^31). The loads of
`AllDelivered` have one-byte segments and queues that hold all bumps, since a dropped
bump is never repeated (section 6), and no fault in the one in which the window
closes, since the update that reopens it is not repeated either.

`TcpServer`: queues of one entry, so that each is full often. Loads: two peers
that complete, reset and close in any order against a backlog of two and a third
that finds it full (five segments); a server that is built up in six calls while
a peer sends two segments; nine calls on two sockets that share a port; and both ends
of one connection with a fault: with up to two segments under way per direction, once
with one retransmission each and once without but with a client that may close at any
time, and with a segment of data, one retransmission each, a client that shuts its socket
down and a server that
may close; and a client with two sockets that it may bind to one port and connect to one
server. Tables are as large as a load says (`socks`, `ports`, `slots`, `timers`).
`TcpClient`: two descriptors, one slot in the flow table, two timers, one
retransmission, cancellations that may fail, five calls, and a load with four calls in
which the library has more descriptors than the slow path has sockets. Its application queue
holds all answers: the code drops an answer that does not fit, and then a blocking
call does not return.

`Tomgr`: six entries are the fewest with which a cancellation must repair the heap
upwards; two timeouts suffice for it, since only comparisons matter. Seven
insertions, so that an entry is used again.

`FastLoop`: two guests, two cores, three queues of one entry, three flows, two
priorities. A list of three queues is the shortest with a first, a middle and a last
one; a cap of three does not divide by two cores. Loads: one guest's budgets on two
cores with received packets; three queues of which two may be disabled and enabled
again; two guests of which one disables one of its two queues; three flows that handlers
add, move and remove; two guests that compete with queues, flows or budgets;
failing handlers together with polls that get no buffer; and the combined loop with
packets and budgets, with two guests, and with failing handlers. Budgets are not charged
below -1. `Mbufs`: a cache of two slots, batches of two, six buffers, or four
(`NScarce`), so few that the pool refuses one or both pieces of a refill; one packet
at the card and one at the control plane; one buffer lost.

`Arp`: two cores, tables of two entries, room for two waiting packets, batches of one
message. Loads: queues of two entries that overflow; two faults on the network (a
message lost, repeated, or meant for another host) and a destination without address;
two addresses whose timers expire; a host that asks from two cards; one address more
than the table holds; and two loads with room in all queues, for `PacketsLeave`, in
which a timer may expire any number of times, but not while a core has yet to send
what was queued for it: otherwise requests pile up, as they would with a core that
does not run for the whole of a timeout.

`Guests`: three clients of which two find a place, two cores, a region of thirteen
bytes with an alignment of two, so that it does not divide evenly, three queues and
five maps per guest (the library uses every second slot, section 6). The eighteen
loads are scripts: queues, maps and programs of two guests, in each of the three modes of
programs; programs that the verifier refuses and VMs that cannot be built; a guest that
never stops asking; memory, queues and maps that run out; a protocol that is refused; guests that
stop at any moment; queues to the cores of one entry, which are full in the middle
of a message to all cores. The loads with a refused queue or map, or with full queues, are
without `GuestCallsReturn`: there the code does not answer in a way the library
understands (section 6).

`Udp`: three sockets, ports 2 to 4, two of which a scan looks at, two sockets on a shared
port, rings of three bytes and datagrams of up to two (three where two cores receive at
once), so that a payload wraps. The loads are scripts of three threads of two
applications: a client without a port that is answered, full rings, datagrams that do not
fit, shared and taken ports, wait objects, too many sockets, an application that stops,
bump queues of one entry. The races of section 6 happen in them: two cores, or a core and
the slow path, that look for a port at the same time; two cores that receive for one
socket; a socket bound twice to a port it shares; a core without a socket of its own, with
handwritten and with eBPF handlers; a thread that never stops asking. Payloads above
`UDP_MAX_PAYLOAD` do not occur.

Deadlock is not checked where the number of calls, bytes or faults is bounded: the
system may stop when they are used up. `SpscQueue`, `FastLoop` and `Mbufs` have no
such bound and are checked for deadlock.

Fairness. Every thread of the program is a loop that polls: the fast path its
receive queue, its queues and its scheduler in every round, the slow path its
queues and timers, the library its queues while it waits. So each loop is weakly
fair. In `TcpData` a whole core is one weakly fair action: it may serve its sources
in any order. In `TcpConn` each source is weakly fair, because each round of the
loop serves each. Nothing is assumed about what applications call, what peers
send, or which of several timers expires. In `FastLoop` the core takes steps for ever, since a step of its loop is possible at
every place, and refreshes that give credits keep coming, since the control plane's
loop calls `control_budget_refresh` in every round and cycles pass between rounds;
`LiveSpec` says just that. (The programs that the combined loop waits for are published
while the control plane starts, `control.c:170`.) In `TcpData` fairness is stated for the loads of
`AllDelivered` only. `Arp`, `Guests` and `Udp` have weak fairness of the control plane's or
slow path's loop, of each core's poll of its queues, and of each library: a call is
made, and a waiting call looks at its queue again and again; `Arp`'s network answers a
question that stays asked, and its timers expire when the loop looks at them again
and again; `Guests`' loop comes to every socket that waits. The conditions under which an action is
enabled are written out in `TcpConn`, `Arp` and `Guests`, which is what weak fairness
means there and is cheaper to check. (In `Guests` the control plane's loop never
rests, so that "again and again not enabled" may be tested at its steps.)

Two liveness properties have a premise that the code does not guarantee, because
`poll_guests` and `poll_apps` serve one queue until they find it empty: of a guest or
thread that never stops asking (`again` in a load) they assume that its queue is found
empty again and again. Without it nobody else is ever served, and both properties fail.
`NoneStarves` is stated for loads without failing handlers and received packets, and for
queues of guests that did not disable one of several.

## 5. What is proved

`SpscQueueProofs`, for every number of slots and every set of messages (the only
assumption is `QueueAssumption`: `N` is a positive number and `NoMsg` is not a
message):

| theorem | states |
|---|---|
| `RingInvariant` | `Spec => []IInv` |
| `SecondCheck` | the second look at the type byte always finds what the first found |
| `Exclusive` | the producer never touches the slot the consumer reads |
| `FullCapacity` | `queue_tail` reports a full queue only when all `N` slots are taken |
| `RingImplementsFifo` | `Spec => ImplementsFifo`: the ring refines the bounded FIFO |

The argument. What makes the queue correct is that the used slots are exactly the
circular interval from the slot the consumer releases next (`RelSlot`) to the slot
the producer publishes next (`PubSlot`). That is not inductive alone: between
`queue_tail` and the store that publishes, the producer relies on what it saw. So
`IInv` adds where the cursors are relative to the program counters (`Cursors`), that
the slot each side is working on still has the type it saw (`SecondCheckHolds`),
and that used slots hold messages, the one being read included (`Bodies`). `IInv` is
also checked by TLC. The other side can never change what one side saw: the
producer only makes empty slots used, the consumer only used slots empty. The
refinement maps the interval to a sequence; `PublishAppends`, `ReleaseDropsHead`,
`ReadPeeks` and `SameContents` say what each kind of step does to it.

`TcpDataLemmas`, for every width of sequence numbers and every length of the two rings
(`SockAssumption`: they are positive, and the sequence space is more than twice the
transmit ring), every socket and every segment:

| theorem | states |
|---|---|
| `AckBumpExact` | `rx_get_ack_bump`, with its comparisons of numbers that wrap, takes an acknowledgement if and only if it covers bytes the socket holds |
| `AckTakesItsBytes` | `rx_sock_bump_ack` gives up exactly the acknowledged bytes, sent or put back by a rewind; what is left is in the ring and ends at the same sequence number |
| `SendsWithinLimits` | a packet takes queued bytes within the peer's window and, in recovery, within the flight before the rewind |
| `RewindKeepsBytes` | a rewind keeps all bytes, in the ring and in their place of the stream |
| `OrderAcrossWrap` | the casts to `__s32` tell early from late and cut off what was received before, for distances up to half of the sequence space |
| `ReceivesIntoRing` | what is received fits, and both ring positions, corrected by one subtraction, are in the rings |

The argument. `AddWraps` and `SubWraps` replace a modulo by at most one correction; the
rest is linear arithmetic on the two sides of the wrap. All but `OrderAcrossWrap` assume
`InRings`, and those about a step prove it again for the socket that results.

`TcpDataProofs`, about both ends of a connection and the network between them, for every
length of rings, queues and packets, any initial sequence numbers, any threshold of the
library's bumps, and any number of faults and of segments under way (`DataAssumption`:
the constants are numbers, a packet has room for payload, and a stream is shorter than
half of the sequence space):

| theorem | states |
|---|---|
| `DataInvariant` | `Spec => []IInv` |
| `StreamsIntact` | what an application reads is a prefix of what the other one wrote |
| `PositionsInOrder` | acknowledged, received, owned and written positions are in order, and what may have to be sent again is intact in the ring |
| `RingBytesAccounted` | library, bumps and fast path account for every byte of both rings exactly once as long as no bump was dropped, and never for too much room after that |
| `NoLostWakeup` | a socket that may send has a scheduler entry |

The argument. Of the properties themselves none is inductive: each speaks of one place,
and a step moves bytes between two. `IInv` says for each end what the place of every byte
is (`EndOk`). Sequence numbers become positions of a stream, which do not wrap (`Una`,
`Nxt`, `Top`). The bytes that were written and not acknowledged are those in flight, those
that wait, those in bumps and those only written, and each is in the slot of its position
(`TxOk`); in the same way the bytes received and not yet given back (`RxOk`). `PairOk` orders
what the two ends know of one stream, and `NetOk` says that a segment, however old,
carries bytes of the stream at their place and acknowledges no more than was received.
That a segment may have any age is what limits the length of a stream: after more than
half of the sequence space an old segment passes for a new one, in the code as in
the model. The sum of the bumps in a queue is a recursive function; what `Append` and
`Tail` do to it is shown by induction over the natural numbers. Theorems with a predicate
as parameter are of no use to the prover, so the induction is one on sets of numbers:
one that is not empty has a least element (`WellFoundedInduction`). The proof is spread
over four modules: `TcpDataLemmas` (the invariant, rings, sums), `TcpDataSteps` (library and
sending half), `TcpDataReceive` (receiving half), `TcpDataProofs` (slow path, network, and
the theorems).

`FastLoopProofs`. First the budgets alone, for every number of guests and cores, every
cap, and every amount of credits and charges (`BudgetAssumption`: they are natural
numbers, and there is a core):

| theorem | states |
|---|---|
| `BudgetInvariant` | `BudgetSpec => []BudgetInv` |
| `NeverAboveCap` | no budget is above its core's share of the cap |
| `ChargesNeverUndone` | no step raises a budget by more than its share of the refresh's credits |

The argument. `BelowCap` is not inductive: between its load and its add the refresh
relies on a value that may be old. `BudgetInv` adds `ReadIsHigher`: the value read is
never below the counter, since only charges happen in between (registration is on the
refresh's own thread). What is added fits above the value read (`AddFits`), so it
fits above the counter. `OneCounter` reduces a step to the counter it changes.

Then the loop of a core, default and combined, for every number of queues and flows, any
priorities and batch sizes, and whatever the handlers do (`SchedAssumption`,
`LoopAssumption`: queues and flows are finite sets without the invalid number, and a load
uses members of them):

| theorem | states |
|---|---|
| `LoopImplementsBudget` | `Spec => BudgetSpec`: what the loop does to budgets are steps of `Budget` |
| `CapHolds` | the budgets of a guest on all cores together are within its cap |
| `LoopKeepsCharges` | no refresh undoes a charge of the loop or of another core |
| `ListsExact` | the list that the loop rotates is exactly the enabled queues, each once, for every guest that did not disable one of several queues; and the core uses the invalid queue only if some guest did |
| `SchedulersStayInOrder` | a scheduler holds the flows that were added and not taken out, each once, in order of priority |

The argument. A linked list is well-formed if some sequence without repetition is what
one finds when one follows its links (`Linked`). `LoopInv` says so of every guest's list of
queues that is not `cut`, with exactly the enabled queues in it (`ListOk`), and of every
scheduler, with priorities that do not fall and a tail that is its end (`SchedOk`). Of
every guest, `cut` or not, the count of the list is the number of enabled queues: that is
what tells the disabling of the only queue, after which the list is empty again, from that
of one of several. For
each operation a lemma names the new sequence: behind the last, in front of
the first entry of higher priority, without the entry that is removed, rotated by one. The loops
keep turn and remaining count in locals between steps, so that `LoopInv` also says that the
guest at hand has queues, with a valid head when one is drained (`PcOk`). For `CapHolds` the shares of the cores are added up by a
recursive function (`TotalBelow`); the rounding of `budget_share` makes them add up to the
cap exactly (`MostIsCap`).

`MbufsProofs`, for pools, caches, batches and cards of every size (`MbufsAssumption`: there
are buffers enough to fill the cache, and, where they are not scarce, for all who hold
some at a time):

| theorem | states |
|---|---|
| `BuffersInvariant` | `Spec => []IInv` |
| `BuffersHaveOneOwner` | a buffer has one owner, and none disappears |
| `BatchAlwaysFits` | the transmit batch does not overflow |

The argument. `IInv` says that the slots of the cache in use, the pool, the batch, the
card, the packets that wait, the messages and the lost buffers are a partition of all
buffers (`Parts`), that no buffer is in two slots of the cache or of the batch (`CacheOk`,
`BatchOk`), and bounds what others may hold, which is what makes the buffers enough. A
poll takes buffers from the head of the cache, fills some, and puts the others back: the
lemmas say what each of these does to the part of the ring that is in use, and
counting (`FiniteSetTheorems`) shows that the pool can fill it up again.

`ShmallocProofs`, for every size of a region and every alignment (`AlignAssumption`,
`ShmLenAssumption`: both are positive), and callers that free what they hold:

| theorem | states |
|---|---|
| `MemoryPartitioned` | `Spec => []IInv`: free blocks and handles share no byte, lie in the region, are not empty, and make up all of it |

The argument. `IInv` is inductive as it stands, and says nothing about the order of the
list: `shmalloc_free` does not keep it sorted (section 6), so that no step may rely on
it. What a step needs of the list is only that the loop that looks for a place to link
a block stops somewhere (`SuccessorExists`), and that first fit finds a block if there
is one (`FirstExists`). The work is then in what the list operations do to a partition:
take a whole block (`TakeWhole`), cut one in two (`TakePart`) or three (`TakeMiddle`),
link a block (`GiveBack`), join two neighbours (`JoinFree`). `AllocSound` and `FreeSound`
put them together. `Guests` checks the same partition (`RegionsApart`) for the blocks
the control plane hands out, together with what guests believe to have.

## 6. Where code and documents disagree, and other observations

Each of the first two is a run that TLC ends with a counterexample.

* `TcpSynAckResend`. A repeated SYN is answered with sequence number `tx_seq - 1`
  (`tcp_ctl_tx_resend`), the first one with `tx_seq`. A client that only sees the
  second expects a number that its peer does not send next; `tcp.h:109` calls
  `rx_seq` the "Next sequence number expected from peer".
* `TomgrCancel`. `tomgr_pop` does not tell the timer that moves to the root where it
  is, so that its cancellation fails and it expires nevertheless; `tomgr.h:45` says
  that `tomgr_cancel` removes and cancels the entry. The slow path is safe with it:
  `TcpClient` lets any cancellation fail.

Others were met while the code was translated; the models behave in the same way, or
exclude the case as section 4 and the modules say. No run is about them.

Timers and TCP:

* `tcp_event_rx` puts bytes into the receive ring before it knows that it can announce
  them (`tcp_fast.c:286`). With a full bump queue they are never announced.
* The segment that reopens a zero window is sent once, and there is no persist timer: if
  it is lost the sender waits for ever.
* Cancelling the timer that is last in the heap marks its entry as in use again; it
  is lost to the table. (`tests/test_tomgr.c:58` expects the index of a cancelled
  entry to be invalid.)
* `ready_used` of a listener also counts ring entries of children that have gone,
  until `tcp_listener_ready_pop` passes them; the ring is right (`BacklogExact`).
* The library is not told when a child goes away before it is accepted, so that
  `TCP_WAIT_ACCEPT` may be reported with nothing to accept; nor when a peer closes
  or resets an established connection.
* `app_bind` reserves a free port and then uses the requested one, which is not
  reserved.
* A second `bind` on a listening socket moves `local_port` away from the port that
  lists it; `connect` on a socket that was shut down enters a second flow. Both are
  excluded by `Orderly`, and without it `ListenersExact` and `FlowsExact` fail.
* Since a requested port is not reserved, two sockets can be bound to one and connected to
  one server: both flows have the same endpoints, and segments go to the one that is found
  first. `FlowsExact` allows it for such ports only.
* Every connection starts at number 1 and ports are free again at once, so that an answer
  to an earlier connection can open a later one between the same endpoints
  (`NumbersAgree` is about the first one).
* A `tcp_socket` that finds no socket left in the slow path is not answered and does not
  return (`CallsReturn` excepts it).
* `tcp_app_poll` stays with a context as long as its queue is not empty; `TcpConn` has one
  context per host, so this is not seen in it.
* A call that finds the request queue full loses its descriptor (`tcp_socket`,
  `tcp_accept`) or its request (`tcp_close`).

Fast-path loop:

* `handle_disableq` sets the links of its queue's neighbours to invalid instead of
  joining them, and uses `prev`, which `dqueue_rotate_head` does not maintain: disabling
  one of several queues may cut others off the list, and the core may go on with queue
  `PROTOQ_ID_INVALID`. `handle_enableq` starts at slot 0 again, wherever the producer is,
  and a queue may then look empty for ever. Nothing in the repository disables one of
  several queues; `FastLoop` does, and `ListExact` and `NoneStarves` except guests that did.
* When a handler fails, `fast_queues_poll` returns without putting back its buffers and
  without moving the turn on; the entry stays in its queue, and guests behind it are
  not polled in that round. In the combined loop the same is true of the scheduler
  poll; the default one goes on with the next guest. `Mbufs` counts these buffers in `lost`; `NoneStarves` is
  stated without failures.
* `handle_arp_tx_pkt` ignores the result of `txcache_alloc`. Without a buffer it uses the
  slot at the head of the cache, whoever has its buffer; `OneOwner` fails if the action
  is allowed while buffers are scarce.
* `handle_mbuf` tests `tx_n > TXBUF_SIZE`, which never holds: `controlif_poll` handles no
  more messages than there is room (`BatchFits`).
* Received packets are charged to their guest even if it has no budget (the check in
  `fast_rx_poll` is commented out). A guest that receives enough is never polled, so
  the liveness of `FastLoop` is stated for loads without received packets.
* Under eBPF without combined programs `rx_poll_guest` and `queues_poll_guest_dequeue`
  run a program that may not have been uploaded yet; `sched_poll_guest` and the combined
  loop ask first.
* `budget_share` gives the cores with the highest numbers nothing when there are fewer
  credits than cores.

ARP:

* `control_arp_mbuf` loses the buffer of a packet it has no room to keep.
* With a full table `control_arp_lookup` stores through the entry it did not get.
* An update that finds the queue to a core full stops there (`control_arp.c:212`): the
  cores behind it wait for the address for ever, and their packets go round.
* A request that could not be queued leaves its address pending without a timer; its
  `te` may be that of another address, which a later answer then cancels.
* `arp_buf_flush` stops at a full queue; a look-up that finds `fast_ctl_q` full leaves the
  core's entry pending.

Memory and guests:

* The search of `shmalloc_free` stops one element early, so that a freed block is linked
  in front of its predecessor: the list is not sorted and neighbours are not always
  merged, although the comments (`shmalloc.c:146`, `:171`) say so. It costs room, not
  correctness (`MemoryPartitioned`).
* A refused queue or map is answered without the cookie of the request, and the library
  stores through the cookie that the slot of the queue happens to hold, that of an earlier
  request or none: the call that waits is not told. `cham_new_map` counts each map twice, so that it uses every second
  slot and the fifth map lies outside of its table.
* A full queue to a core while a guest is accepted drops the guest and its memory, but
  the cores in front of it were told. In `publish_agg_vms` it frees programs that the next
  combined VM is linked of (`ProgramsAlive` excepts the programs of that guest). Elsewhere it ends the control plane with an assertion.
* Guests are never removed: `uxsocket_error` only closes the connection. Old combined VMs
  are never destroyed, memory of maps is not cleared, and `control_ebpf_free` leaves the
  handle it freed in its table.
* `agt_queue_len` has to equal `GUESTQ_NELEMS`; nothing checks it. `poll_guests` does not
  count its iterations: it stays with a guest that keeps its queue filled.

UDP:

* A core that picks a port for an unbound socket races with `bind` in the slow path and
  with other cores: two sockets may get one port without sharing it, or a socket two.
  `PortsExact` excepts the ports for which this happened (`raced`).
* `udp_sock_find` takes `next_sock` of its core even for a single socket; a core whose
  number is not below `nsocks` finds socket 0, that of somebody else or of nobody, and
  then writes into a ring that is not there. The eBPF version takes the only socket
  of a port, and drops the datagram where the place lies behind several. `PayloadsIntact` excepts such datagrams of the handwritten one.
* Two cores that receive for one socket change `rx_avail` without a lock. `PayloadsIntact`
  and `RingsAgree` except sockets for which they did so at the same time (`torn`).
* A full bump queue is noticed after the ring has moved: the bytes are not announced, or
  are sent again (`udp_fast.c:128`, `:282`). `PayloadsIntact` and `RingsAgree` are stated as
  long as this did not happen (`spilled`).
* A payload longer than `UDP_MAX_PAYLOAD` is cut, and its rest becomes the start of later
  datagrams. `recvfrom` merges datagrams and returns the address of the last.
* After a failed `bind` or `setsockopt` its result stays, so that the next call returns at
  once with a failure while its request is still queued. `udp_setsockopt` sends the
  descriptor where the socket's number is expected; a failed `udp_socket` leaves
  number 0.
* Ports below `MIN_PORT` can be bound but do not receive; `MAX_PORT` lies behind the end of
  `port_map`. Binding a sharing socket twice enters it twice and takes up the room of
  another (`PortsExact` allows it for sockets that share).
* `poll_apps` stays with an application that keeps its queue filled.
* A request that finds no room for a socket is not answered, and `udp_socket` does not
  return. Sockets and queues of an application that stopped stay.

## 7. What is only model-checked, and what is not modelled

Opening and closing connections (`TcpConn`), timers (`Tomgr`), ARP, guests (`Guests`, but for
the allocator) and UDP are only model-checked, on the instances of section 4. Some
of it has to stay so: liveness under fairness (`EntriesReleased`, `AllDelivered`,
`CallsReturn`, `HalfOpenEnds`, `NoneStarves`, `PacketsLeave`, `GuestCallsReturn`,
`UdpCallsReturn`) and `ENABLED` are out of the prover's
reach, and so are modules with `RECURSIVE` operators (`TomgrHeap`, `Tomgr`, `Arp`).

Not modelled, and not planned: the computation of rates in congestion control
(arithmetic without effect on the states modelled here), network virtualisation
(a constant table), the eBPF tool chain, drivers and virtual machines (external
programs and devices), configuration, logging and tools (pure I/O). In TCP: ECN and
timestamps, several cores per socket, the wait sets of `tcp_wait` and the registration
of applications (`Udp` models their counterparts in UDP). In the fast path:
`fast_comb_helpers.c`, which repeats the scheduler and the queue of `lib/utils` for
compiled programs.
Headers of Ethernet, IP, GRE and ARP: only the fields that decide something are there.
In the control plane: errors of the operating system other than a closed connection,
statistics, and the look-up of a guest's virtual network, which may also reject it. The
eBPF handlers are the handwritten ones in another dialect, and are not modelled again,
but for the one difference that section 1 names.

## 8. Plan

Done: queues, TCP, timers, budgets, the fast-path loop, ARP, guests and the allocator, UDP.
What would come next, most useful first:

1. Theorems about `Guests`, on top of the one about the allocator: the regions a guest was
   told of, and the order in which cores see programs.
2. Theorems about the tables of the slow path (`BacklogExact`, `FlowsExact`), for any number
   of sockets and listeners.
3. The heap of the timers as a recursive function, so that the prover can read it.
4. The wait sets of TCP, in the manner of `Udp`.
