------------------------------- MODULE Guests -------------------------------
(***************************************************************************)
(* Guests register with the control plane, and get queues, maps and room   *)
(* for programs in a region of memory they share with it and with the      *)
(* fast-path cores.  Modelled: the library of each guest (cham_lib), one   *)
(* action per call and per answer it reads; the control plane, whose loop  *)
(* looks at sockets and then polls the guests' queues, and whose handlers  *)
(* tell one core after the other; the queue from the control plane to each *)
(* core, and what the core remembers.  The memory is that of ShmHeap.      *)
(*                                                                         *)
(* A program is a number, in the order of uploads.  In combined mode one   *)
(* VM is built of the programs of all guests; otherwise a VM has one       *)
(* program.  What programs do, and the verifier, are left out: an upload   *)
(* says whether its program passes, or what refuses it.                    *)
(***************************************************************************)
EXTENDS ShmHeap, FiniteSets

CONSTANTS
  Clients,            \* processes and VMs that become guests
  MaxGuests,          \* CHAMELIO_MAX_GUESTS
  NCores,             \* config->fp_cores_max
  MAX_PROTO_QUEUES,
  MAX_PROTO_MAPS,
  GUESTQ_SIZE,        \* GUESTQ_NELEMS * GUESTQ_ELSIZE, and agt_queue_len
                      \* times the size of an entry
  GUESTQ_NELEMS,      \* entries of a queue between a guest and the control
                      \* plane
  Loads               \* what is exercised; one is chosen at the start:
                      \*   script: per client, the calls it makes
                      \*   vm: clients in a VM
                      \*   good: clients that ask for a known protocol
                      \*   dies: clients that may stop at any time
                      \*   mode: config->fp_proto_mode, "hand" or "ebpf", or
                      \*         "combined" for ebpf with fp_jit_combined
                      \*   room: config->cham_queue_len
                      \*   again: clients that repeat their last call for ever
                      \*   retry: clients that go on after a failed upload
                      \*   ends: all calls are expected to return

ASSUME RegionAssumption == 2 * ALIGN_UP(GUESTQ_SIZE) <= shm_len

Gids == 0 .. MaxGuests - 1
Cores == 0 .. NCores - 1
None == [off |-> 0, len |-> 0]          \* no region
NoGuest == -1

VARIABLES
  load,       \* a member of Loads
  lib,        \* per client: guest_lib and proto_lib, and where it is
  gq,         \* per guest: guest_cham_q
  rq,         \* per guest: cham_guest_q
  ctl,        \* control_context, and where its loop is
  guest,      \* per guest: guest_control
  job,        \* the message that is being sent to all cores
  cfq,        \* per core: ctl_fast_q
  core,       \* per core: fast_context
  code,       \* programs and VMs: agg_*_vm, guest_bc, what was freed and
              \* destroyed; per program the queues and maps its guest had
  cut         \* history: guests whose latest combined VM did not reach all
              \* cores

vars == <<load, lib, gq, rq, ctl, guest, job, cfq, core, code, cut>>

-----------------------------------------------------------------------------
(* Initial states *)

NoLib ==
  [ at |-> "start", gid |-> NoGuest, next |-> 1, sock |-> "none",
    nqueues |-> 0, nmaps |-> 0,
    queue |-> [q \in 0 .. MAX_PROTO_QUEUES - 1 |-> None],
    map |-> [m \in 0 .. MAX_PROTO_MAPS - 1 |-> None],
    maps |-> <<>>, prog |-> None, flag |-> 0 ]

\* cham_guest_q: the answers in it, and for every slot of the ring, from the
\* one that is written to next, the latest answer that left a cookie there.
NoCookie == [type |-> "none"]
NoRing == [q |-> <<>>, slots |-> [i \in 1 .. GUESTQ_NELEMS |-> NoCookie]]

NoControl ==
  [ free |-> <<>>, used |-> {}, open |-> FALSE, nqueues |-> 0, nmaps |-> 0,
    queue |-> [q \in 0 .. MAX_PROTO_QUEUES - 1 |-> None],
    prog |-> None ]

NoFast ==
  [ known |-> FALSE, maps |-> <<>>, on |-> {},
    queue |-> [q \in 0 .. MAX_PROTO_QUEUES - 1 |-> None] ]

\* No VM: nothing has been uploaded.
NoVm == [id |-> 0, progs |-> [g \in Gids |-> 0]]

NoJob == [kind |-> "none"]

Combined == load.mode = "combined"

\* handle_upload_ebpf's message.
Upload(g, vm) == [type |-> "upload", g |-> g, vm |-> vm]

\* In combined mode a VM without guests is built and published at the start.
control_ebpf_publish == IF Combined THEN <<Upload(MaxGuests, NoVm)>> ELSE <<>>

\* control_context_init.
Init ==
  /\ load \in Loads
  /\ lib = [c \in Clients |-> NoLib]
  /\ gq = [g \in Gids |-> <<>>]
  /\ rq = [g \in Gids |-> NoRing]
  /\ ctl = [up |-> TRUE, n |-> 0, next |-> 0, at |-> "vms", polled |-> 0]
  /\ guest = [g \in Gids |-> NoControl]
  /\ job = NoJob
  /\ cfq = [c \in Cores |-> control_ebpf_publish]
  /\ core = [c \in Cores |->
               [n |-> 0, guest |-> [g \in Gids |-> NoFast],
                has |-> {}, vm |-> [g \in Gids |-> NoVm]]]
  /\ code = [needs |-> <<>>, agg |-> NoVm, bc |-> [g \in Gids |-> 0],
             freed |-> {}, dead |-> {}]
  /\ cut = {}

ctlVars == <<ctl, guest, job, code>>
coreVars == <<cfq, core>>

-----------------------------------------------------------------------------
(* The library of a guest *)

Call(c) == load.script[c][lib[c].next]
HasCall(c) ==
  /\ lib[c].at = "idle" /\ lib[c].next <= Len(load.script[c])
  /\ c \in load.again => Len(gq[lib[c].gid]) < GUESTQ_NELEMS

\* The call after this one: the same, if it is the last one and is repeated.
After(c) ==
  IF c \in load.again /\ lib[c].next = Len(load.script[c])
  THEN lib[c].next ELSE lib[c].next + 1

\* cham_connect_guest, or a VM that is started.
cham_connect_guest(c) ==
  /\ lib[c].at = "start" /\ load.script[c] # <<>>
  /\ lib' = [lib EXCEPT ![c].at = "connect"]
  /\ UNCHANGED <<load, gq, rq, ctlVars, coreVars, cut>>

\* cham_new_proto_bare: the request, on the socket.
cham_new_proto_bare(c) ==
  /\ lib[c].at = "memory" /\ c \notin load.vm
  /\ lib' = [lib EXCEPT ![c].at = "proto", ![c].sock = "request"]
  /\ UNCHANGED <<load, gq, rq, ctlVars, coreVars, cut>>

\* ... and the answer.
ReadProtoRes(c) ==
  /\ lib[c].at = "proto" /\ lib[c].sock \in {"success", "failure"}
  /\ lib' = [lib EXCEPT ![c].at = IF lib[c].sock = "success" THEN "idle"
                                  ELSE "gone"]
  /\ UNCHANGED <<load, gq, rq, ctlVars, coreVars, cut>>

\* A request that fits goes into the queue and the library goes on as l says;
\* else the call fails, and the guest gives up.
Request(c, req, l) ==
  LET g == lib[c].gid
  IN  IF Len(gq[g]) < GUESTQ_NELEMS
      THEN /\ gq' = [gq EXCEPT ![g] = Append(@, req)]
           /\ lib' = [lib EXCEPT ![c] = l]
      ELSE /\ lib' = [lib EXCEPT ![c].at = "gone"]
           /\ UNCHANGED gq

Waits(c) == [lib[c] EXCEPT !.at = "wait", !.next = After(c)]

\* cham_new_proto_virt.
cham_new_proto_virt(c) ==
  /\ lib[c].at = "memory" /\ c \in load.vm
  /\ Request(c, [type |-> "new_proto", good |-> c \in load.good],
             [lib[c] EXCEPT !.at = "wait"])
  /\ UNCHANGED <<load, rq, ctlVars, coreVars, cut>>

cham_new_queue(c) ==
  /\ HasCall(c) /\ Call(c).op = "queue"
  /\ Request(c, [type |-> "new_queue", len |-> Call(c).len,
                 opaque |-> lib[c].nqueues],
             Waits(c))
  /\ UNCHANGED <<load, rq, ctlVars, coreVars, cut>>

\* The library counts a map when it asks for it, and again when it has it.
cham_new_map(c) ==
  /\ HasCall(c) /\ Call(c).op = "map"
  /\ Request(c, [type |-> "new_map", len |-> Call(c).len,
                 opaque |-> lib[c].nmaps],
             [Waits(c) EXCEPT !.nmaps = @ + 1])
  /\ UNCHANGED <<load, rq, ctlVars, coreVars, cut>>

\* Nothing is answered to these two.
cham_enable_queue(c) ==
  /\ HasCall(c) /\ Call(c).op = "enable"
  /\ Request(c, [type |-> "enable", qid |-> Call(c).q, core |-> Call(c).core],
             [lib[c] EXCEPT !.next = After(c)])
  /\ UNCHANGED <<load, rq, ctlVars, coreVars, cut>>

cham_disable_queue(c) ==
  /\ HasCall(c) /\ Call(c).op = "disable"
  /\ Request(c, [type |-> "disable", qid |-> Call(c).q, core |-> Call(c).core],
             [lib[c] EXCEPT !.next = After(c)])
  /\ UNCHANGED <<load, rq, ctlVars, coreVars, cut>>

cham_allocate_ebpf(c) ==
  /\ HasCall(c) /\ Call(c).op = "alloc"
  /\ Request(c, [type |-> "alloc", len |-> Call(c).len],
             [Waits(c) EXCEPT !.flag = 0])
  /\ UNCHANGED <<load, rq, ctlVars, coreVars, cut>>

\* cham_upload_ebpf, cham_free_ebpf: not without room for a program.
cham_upload_ebpf(c) ==
  /\ HasCall(c) /\ Call(c).op = "upload"
  /\ IF lib[c].prog.len = 0
     THEN lib' = [lib EXCEPT ![c].at = "gone"] /\ UNCHANGED gq
     ELSE Request(c, [type |-> "upload", fault |-> Call(c).fault,
                      needs |-> [nq |-> lib[c].nqueues, nm |-> Len(lib[c].maps)]],
                  [Waits(c) EXCEPT !.flag = 0])
  /\ UNCHANGED <<load, rq, ctlVars, coreVars, cut>>

cham_free_ebpf(c) ==
  /\ HasCall(c) /\ Call(c).op = "free"
  /\ IF lib[c].prog.len = 0
     THEN lib' = [lib EXCEPT ![c].next = After(c)] /\ UNCHANGED gq
     ELSE Request(c, [type |-> "free"], [Waits(c) EXCEPT !.flag = 0])
  /\ UNCHANGED <<load, rq, ctlVars, coreVars, cut>>

\* handle_proto_res, handle_new_queue_res, handle_new_map_res: the answer is
\* stored where its cookie says.  A refusal to make a queue or a map comes
\* with the cookie that was in the slot before: that of an earlier queue, or
\* map, which is then empty while the call waits on; or none that can be
\* stored to, and storing it ends the guest.
handle_proto_res(l, r) == [l EXCEPT !.at = IF r.ok THEN "idle" ELSE "gone"]

handle_new_queue_res(l, r) ==
  IF r.ok
  THEN [l EXCEPT !.at = "idle", !.queue[r.opaque] = r.region,
                 !.nqueues = @ + 1]
  ELSE IF r.slot.type = "new_queue"
  THEN [l EXCEPT !.queue[r.slot.opaque] = None, !.nqueues = @ + 1]
  ELSE [l EXCEPT !.at = "crashed"]

handle_new_map_res(l, r) ==
  IF r.ok
  THEN [l EXCEPT !.at = "idle", !.map[r.opaque] = r.region, !.nmaps = @ + 1,
                 !.maps = Append(@, r.region)]
  ELSE IF r.slot.type = "new_map"
  THEN [l EXCEPT !.map[r.slot.opaque] = None, !.nmaps = @ + 1]
  ELSE [l EXCEPT !.at = "crashed"]

handle_allocate_ebpf_res(l, r) ==
  [l EXCEPT !.at = "idle", !.prog = r.region, !.flag = 1]

\* A failed upload is an error to the caller, which gives up or goes on.
handle_upload_ebpf_res(c, l, r) ==
  [l EXCEPT !.at = IF r.ok \/ c \in load.retry THEN "idle" ELSE "gone",
            !.flag = IF r.ok THEN 1 ELSE -1]

\* Once it is freed, cham_free_ebpf forgets the program.
handle_free_ebpf_res(l, r) == [l EXCEPT !.at = "idle", !.prog = None, !.flag = 0]

cham_poll_control(c) ==
  LET g == lib[c].gid
      r == Head(rq[g].q)
      l == lib[c]
  IN  /\ l.at = "wait" /\ rq[g].q # <<>>
      /\ lib' = [lib EXCEPT ![c] =
                   CASE r.type = "new_proto" -> handle_proto_res(l, r)
                     [] r.type = "new_queue" -> handle_new_queue_res(l, r)
                     [] r.type = "new_map" -> handle_new_map_res(l, r)
                     [] r.type = "alloc" -> handle_allocate_ebpf_res(l, r)
                     [] r.type = "upload" -> handle_upload_ebpf_res(c, l, r)
                     [] r.type = "free" -> handle_free_ebpf_res(l, r)]
      /\ rq' = [rq EXCEPT ![g].q = Tail(@)]
      /\ UNCHANGED <<load, gq, ctlVars, coreVars, cut>>

\* The process or the VM of a guest stops.
Stop(c) ==
  /\ c \in load.dies /\ lib[c].gid # NoGuest /\ lib[c].at # "dead"
  /\ lib' = [lib EXCEPT ![c].at = "dead"]
  /\ UNCHANGED <<load, gq, rq, ctlVars, coreVars, cut>>

-----------------------------------------------------------------------------
(* The control plane: telling the cores *)

\* A message to all cores: to whom it went, and the answer to the guest when
\* all have it.
Job(kind, g, msg, res) ==
  [kind |-> kind, g |-> g, msg |-> msg, res |-> res, i |-> 0]

\* What is left in a slot for a later refusal.  Room for a program has its
\* cookie where that of a map ends.
Leaves(res, slot) ==
  IF res.type \in {"new_queue", "new_map"} THEN res
  ELSE IF res.type = "alloc" /\ slot.type = "new_map" THEN NoCookie
  ELSE slot

Answered(ring, res) ==
  [ q |-> Append(ring.q, res),
    slots |-> Append(Tail(ring.slots), Leaves(res, Head(ring.slots))) ]

Answer(g, res) == rq' = [rq EXCEPT ![g] = Answered(@, res)]

\* A refusal, which does not write its cookie.
Refused(ring, type) ==
  [ q |-> Append(ring.q, [type |-> type, ok |-> FALSE,
                          slot |-> Head(ring.slots)]),
    slots |-> Append(Tail(ring.slots), Head(ring.slots)) ]

Refuse(g, type) == rq' = [rq EXCEPT ![g] = Refused(@, type)]

Dequeue(g) == gq' = [gq EXCEPT ![g] = Tail(@)]
Fits1(c) == Len(cfq[c]) < load.room
Tell(c, msg) == cfq' = [cfq EXCEPT ![c] = Append(@, msg)]

\* Mutant of Done: the loop ends one core early.
Bug_done_early(j) == j.i + 1 >= NCores - 1

\* All cores have the message.
Done(j) == j.i + 1 >= NCores

\* The message for the next core; after the last one the handler ends.
TellNext ==
  /\ ctl.up /\ job # NoJob /\ Fits1(job.i)
  /\ Tell(job.i, job.msg)
  /\ IF ~ Done(job)
     THEN /\ job' = [job EXCEPT !.i = @ + 1]
          /\ UNCHANGED <<gq, rq, ctl>>
     ELSE /\ job' = NoJob
          /\ IF job.kind = "guest"
             THEN ctl' = [ctl EXCEPT !.n = @ + 1] /\ UNCHANGED <<gq, rq>>
             ELSE Answer(job.g, job.res) /\ Dequeue(job.g) /\ UNCHANGED ctl
  /\ UNCHANGED <<load, lib, guest, core, code, cut>>

\* The queue of a core is full.  A new guest is dropped with its memory, also
\* when other cores have heard of it; a combined VM is not published further,
\* and the new program is freed although it is now the guest's; an assertion
\* stops the control plane in all other handlers.
TellFull ==
  /\ ctl.up /\ job # NoJob /\ ~ Fits1(job.i)
  /\ \/ /\ job.kind = "guest"
        /\ job' = NoJob
        /\ guest' = [guest EXCEPT ![job.g] = NoControl]
        /\ lib' = [c \in Clients |->
                     IF lib[c].gid = job.g
                     THEN [lib[c] EXCEPT !.at = "orphan", !.gid = NoGuest]
                     ELSE lib[c]]
        /\ UNCHANGED <<gq, rq, ctl, code, cut>>
     \/ /\ job.kind = "combined"
        /\ job' = NoJob
        /\ code' = [code EXCEPT !.freed = @ \cup {job.msg.vm.progs[job.g]}]
        /\ cut' = cut \cup {job.g}
        /\ Answer(job.g, [job.res EXCEPT !.ok = FALSE])
        /\ Dequeue(job.g)
        /\ UNCHANGED <<lib, ctl, guest>>
     \/ /\ job.kind \in {"queue", "map", "vm"}
        /\ ctl' = [ctl EXCEPT !.up = FALSE]
        /\ UNCHANGED <<lib, gq, rq, guest, job, code, cut>>
  /\ UNCHANGED <<load, cfq, core>>

-----------------------------------------------------------------------------
(* The control plane: connections *)

\* The control plane looks at the sockets of VMs, or of other guests.
At(phase) == ctl.up /\ ctl.at = phase /\ job = NoJob

\* The memory of a new guest: the two queues come first.
NewMemory ==
  LET to == shmalloc_alloc(shmalloc_init, GUESTQ_SIZE)
      from == shmalloc_alloc(to.free, GUESTQ_SIZE)
  IN  [NoControl EXCEPT !.free = from.free, !.used = {to.block, from.block},
                        !.open = TRUE]

\* A client becomes a guest, unless there are too many.  It has its memory
\* before the cores hear of it.
Accept(c) ==
  /\ lib[c].at = "connect"
  /\ IF ctl.n >= MaxGuests
     THEN /\ lib' = [lib EXCEPT ![c].at = "gone"]
          /\ UNCHANGED <<gq, rq, guest, job>>
     ELSE /\ lib' = [lib EXCEPT ![c].at = "memory", ![c].gid = ctl.n]
          /\ guest' = [guest EXCEPT ![ctl.n] = NewMemory]
          /\ gq' = [gq EXCEPT ![ctl.n] = <<>>]
          /\ rq' = [rq EXCEPT ![ctl.n] = NoRing]
          /\ job' = Job("guest", ctl.n, [type |-> "guest", g |-> ctl.n], NoJob)
  /\ UNCHANGED <<load, ctl, coreVars, code, cut>>

\* uxsocket_accept of guestif.c and of ivshmemif.c.
uxsocket_accept(c) == At("socks") /\ c \notin load.vm /\ Accept(c)
ivshmem_accept(c) == At("vms") /\ c \in load.vm /\ Accept(c)

\* What a new protocol changes: the guest starts over.
NewProto(g, good) ==
  IF good THEN [guest EXCEPT ![g].nqueues = 0, ![g].nmaps = 0] ELSE guest

\* uxsocket_receive: a protocol is registered on the socket.
uxsocket_receive(c) ==
  /\ At("socks") /\ lib[c].at = "proto" /\ lib[c].sock = "request"
  /\ guest' = NewProto(lib[c].gid, c \in load.good)
  /\ lib' = [lib EXCEPT ![c].sock = IF c \in load.good THEN "success"
                                    ELSE "failure"]
  /\ UNCHANGED <<load, gq, rq, ctl, job, coreVars, code, cut>>

\* The socket is closed, the guest stays registered.
Hangup(c) ==
  /\ lib[c].at = "dead" /\ guest[lib[c].gid].open
  /\ guest' = [guest EXCEPT ![lib[c].gid].open = FALSE]
  /\ UNCHANGED <<load, lib, gq, rq, ctl, job, coreVars, code, cut>>

uxsocket_error(c) == At("socks") /\ c \notin load.vm /\ Hangup(c)
ivshmem_error(c) == At("vms") /\ c \in load.vm /\ Hangup(c)

\* All events that ivshmemif_poll, or guestif_poll, got have been handled.
ivshmemif_poll ==
  /\ At("vms")
  /\ ctl' = [ctl EXCEPT !.at = "socks"]
  /\ UNCHANGED <<load, lib, gq, rq, guest, job, coreVars, code, cut>>

guestif_poll ==
  /\ At("socks")
  /\ ctl' = [ctl EXCEPT !.at = "poll", !.polled = 0]
  /\ UNCHANGED <<load, lib, gq, rq, guest, job, coreVars, code, cut>>

-----------------------------------------------------------------------------
(* The control plane: requests in the queues *)

\* The request of type t at the head of the guest whose turn it is.
Request1(t, g) ==
  /\ At("poll") /\ ctl.polled < ctl.n
  /\ g = ctl.next /\ gq[g] # <<>> /\ Head(gq[g]).type = t

\* Mutant of next_guest: the turn does not move on.
Bug_turn_stays == ctl.next

\* The guest behind the one whose turn it is.
next_guest == (ctl.next + 1) % ctl.n

\* poll_guests: an empty queue, and the end of the loop once as many were
\* found empty as there are guests.
PollEmpty ==
  /\ At("poll") /\ ctl.polled < ctl.n
  /\ gq[ctl.next] = <<>>
  /\ ctl' = [ctl EXCEPT !.polled = @ + 1, !.next = next_guest]
  /\ UNCHANGED <<load, lib, gq, rq, guest, job, coreVars, code, cut>>

PollDone ==
  /\ At("poll") /\ ctl.polled >= ctl.n
  /\ ctl' = [ctl EXCEPT !.at = "vms"]
  /\ UNCHANGED <<load, lib, gq, rq, guest, job, coreVars, code, cut>>

control_guest_new_proto(g) ==
  /\ Request1("new_proto", g)
  /\ guest' = NewProto(g, Head(gq[g]).good)
  /\ Answer(g, [type |-> "new_proto", ok |-> Head(gq[g]).good])
  /\ Dequeue(g)
  /\ UNCHANGED <<load, lib, ctl, job, coreVars, code, cut>>

\* The guest with a block of its memory given out.
Allocated(gc, length) ==
  LET a == shmalloc_alloc(gc.free, length)
  IN  [gc EXCEPT !.free = a.free, !.used = @ \cup {a.block}]

AllocatedAt(gc, length) == shmalloc_alloc(gc.free, length).block.off

\* A queue: counted first, then refused, or made and sent to the cores.
control_guest_new_queue(g) ==
  LET req == Head(gq[g])
      n == guest[g].nqueues
      region == [off |-> AllocatedAt(guest[g], req.len), len |-> req.len]
  IN  /\ Request1("new_queue", g)
      /\ IF n < MAX_PROTO_QUEUES /\ CanAlloc(guest[g].free, req.len)
         THEN /\ guest' = [guest EXCEPT
                ![g] = [Allocated(@, req.len) EXCEPT !.nqueues = n + 1,
                                                     !.queue[n] = region]]
              /\ job' = Job("queue", g,
                     [type |-> "new_queue", g |-> g, qid |-> n,
                      region |-> region],
                     [type |-> "new_queue", ok |-> TRUE, id |-> n,
                      region |-> region, opaque |-> req.opaque])
              /\ UNCHANGED <<gq, rq>>
         ELSE /\ guest' = [guest EXCEPT ![g].nqueues = n + 1]
              /\ Refuse(g, "new_queue")
              /\ Dequeue(g)
              /\ UNCHANGED job
      /\ UNCHANGED <<load, lib, ctl, coreVars, code, cut>>

control_guest_new_map(g) ==
  LET req == Head(gq[g])
      n == guest[g].nmaps
      region == [off |-> AllocatedAt(guest[g], req.len), len |-> req.len]
  IN  /\ Request1("new_map", g)
      /\ IF n < MAX_PROTO_MAPS /\ CanAlloc(guest[g].free, req.len)
         THEN /\ guest' = [guest EXCEPT
                ![g] = [Allocated(@, req.len) EXCEPT !.nmaps = n + 1]]
              /\ job' = Job("map", g,
                     [type |-> "new_map", g |-> g, mid |-> n,
                      region |-> region],
                     [type |-> "new_map", ok |-> TRUE, id |-> n,
                      region |-> region, opaque |-> req.opaque])
              /\ UNCHANGED <<gq, rq>>
         ELSE /\ Refuse(g, "new_map")
              /\ Dequeue(g)
              /\ UNCHANGED <<guest, job>>
      /\ UNCHANGED <<load, lib, ctl, coreVars, code, cut>>

\* A request for one core: ignored if the core or the queue does not exist;
\* an assertion stops the control plane if the queue to the core is full.
TellOne(g, req, msg) ==
  /\ \/ /\ req.core \notin Cores \/ req.qid >= guest[g].nqueues
        /\ Dequeue(g)
        /\ UNCHANGED <<ctl, cfq>>
     \/ /\ req.core \in Cores /\ req.qid < guest[g].nqueues
        /\ Fits1(req.core)
        /\ Tell(req.core, msg)
        /\ Dequeue(g)
        /\ UNCHANGED ctl
     \/ /\ req.core \in Cores /\ req.qid < guest[g].nqueues
        /\ ~ Fits1(req.core)
        /\ ctl' = [ctl EXCEPT !.up = FALSE]
        /\ UNCHANGED <<gq, cfq>>
  /\ UNCHANGED <<load, lib, rq, guest, job, core, code, cut>>

control_guest_enableq(g) ==
  LET req == Head(gq[g])
  IN  /\ Request1("enable", g)
      /\ TellOne(g, req, [type |-> "enable", g |-> g, qid |-> req.qid,
                          region |-> guest[g].queue[req.qid]])

control_guest_disableq(g) ==
  LET req == Head(gq[g])
  IN  /\ Request1("disable", g)
      /\ TellOne(g, req, [type |-> "disable", g |-> g, qid |-> req.qid])

-----------------------------------------------------------------------------
(* The control plane: programs *)

control_ebpf_allocate(g) ==
  LET req == Head(gq[g])
  IN  /\ Request1("alloc", g)
      /\ IF CanAlloc(guest[g].free, req.len)
         THEN LET at == AllocatedAt(guest[g], req.len)
              IN  /\ guest' = [guest EXCEPT ![g] =
                        [Allocated(@, req.len) EXCEPT
                           !.prog = [off |-> at, len |-> ALIGN_UP(req.len)]]]
                  /\ Answer(g, [type |-> "alloc",
                                region |-> [off |-> at, len |-> req.len]])
         ELSE /\ Answer(g, [type |-> "alloc", region |-> None])
              /\ UNCHANGED guest
      /\ Dequeue(g)
      /\ UNCHANGED <<load, lib, ctl, job, coreVars, code, cut>>

\* The block goes back; the handle is kept.
control_ebpf_free(g) ==
  /\ Request1("free", g)
  /\ guest' = [guest EXCEPT ![g].free = shmalloc_free(@, guest[g].prog),
                            ![g].used = @ \ {guest[g].prog}]
  /\ Answer(g, [type |-> "free"])
  /\ Dequeue(g)
  /\ UNCHANGED <<load, lib, ctl, job, coreVars, code, cut>>

\* Mutant of build_agg_vm: only the new program is linked.
Bug_build_own_only(g, v) ==
  [id |-> v, progs |-> [NoVm.progs EXCEPT ![g] = v]]

\* The VM of all guests, with program v for guest g.
build_agg_vm(g, v) == [id |-> v, progs |-> [code.bc EXCEPT ![g] = v]]

\* Mutant of rebuild_agg_vms: the program is the guest's before it is known
\* whether VMs can be built.
Bug_rebuild_installs(known, g, v, built) ==
  IF built
  THEN [ known EXCEPT !.agg = build_agg_vm(g, v), !.bc[g] = v,
                      !.freed = @ \cup ({code.bc[g]} \ {0}) ]
  ELSE [ known EXCEPT !.bc[g] = v, !.freed = @ \cup {v}, !.dead = @ \cup {v} ]

\* rebuild_agg_vms, and the end of control_ebpf_upload if it fails.  If all
\* VMs were built the guest's former program is freed and the former VMs stay;
\* else those that were built are destroyed and the new program is freed.
rebuild_agg_vms(known, g, v, built) ==
  IF built
  THEN [ known EXCEPT !.agg = build_agg_vm(g, v), !.bc[g] = v,
                      !.freed = @ \cup ({code.bc[g]} \ {0}) ]
  ELSE [ known EXCEPT !.freed = @ \cup {v}, !.dead = @ \cup {v} ]

\* Undefined: a program that was freed is linked, or freed again.
LinksFreed(g) == \E h \in Gids \ {g} : code.bc[h] \in code.freed
FreesTwice(g) == code.bc[g] \in code.freed

UploadRes(ok) == [type |-> "upload", ok |-> ok]
UploadFails(g) == Answer(g, UploadRes(FALSE)) /\ Dequeue(g) /\ UNCHANGED job

\* Programs that are VMs of their own go to the cores if all were built, else
\* those that were are destroyed.
UploadVms(known, g, v, fault) ==
  LET vm == [id |-> v, progs |-> [NoVm.progs EXCEPT ![g] = v]]
  IN  /\ load.mode = "ebpf"
      /\ \/ /\ fault = "none"
            /\ code' = known
            /\ job' = Job("vm", g, Upload(g, vm), UploadRes(TRUE))
            /\ UNCHANGED <<gq, rq>>
         \/ /\ fault # "none"
            /\ code' = [known EXCEPT !.dead = @ \cup {v}]
            /\ UploadFails(g)
      /\ UNCHANGED <<ctl, cut>>

\* In combined mode VMs of the programs of all guests do (publish_agg_vms).
\* A program the verifier refuses is freed.  What linking a program that was
\* freed, or freeing one again, does is undefined: nothing, an error, or the
\* end of the control plane.
UploadCombined(known, g, v, fault) ==
  /\ Combined
  /\ \/ /\ fault = "verifier"
        /\ code' = [known EXCEPT !.freed = @ \cup {v}]
        /\ UploadFails(g)
        /\ UNCHANGED <<ctl, cut>>
     \/ /\ fault = "build" \/ (fault = "none" /\ LinksFreed(g))
        /\ code' = rebuild_agg_vms(known, g, v, FALSE)
        /\ UploadFails(g)
        /\ UNCHANGED <<ctl, cut>>
     \/ /\ fault = "none"
        /\ code' = rebuild_agg_vms(known, g, v, TRUE)
        /\ job' = Job("combined", g, Upload(g, code'.agg), UploadRes(TRUE))
        /\ cut' = cut \ {g}
        /\ UNCHANGED <<gq, rq, ctl>>
     \/ /\ fault # "verifier"
        /\ LinksFreed(g) \/ (fault = "none" /\ FreesTwice(g))
        /\ ctl' = [ctl EXCEPT !.up = FALSE]
        /\ UNCHANGED <<gq, rq, job, code, cut>>

\* control_ebpf_upload: a no-op if programs are not used.
control_ebpf_upload(g) ==
  LET req == Head(gq[g])
      known == [code EXCEPT !.needs = Append(@, req.needs)]
      v == Len(known.needs)
  IN  /\ Request1("upload", g)
      /\ \/ /\ load.mode = "hand"
            /\ Answer(g, UploadRes(TRUE))
            /\ Dequeue(g)
            /\ UNCHANGED <<ctl, job, code, cut>>
         \/ UploadVms(known, g, v, req.fault)
         \/ UploadCombined(known, g, v, req.fault)
      /\ UNCHANGED <<load, lib, guest, coreVars>>

-----------------------------------------------------------------------------
(* A fast-path core *)

handle_new_guest(k, m) ==
  [k EXCEPT !.n = @ + 1,
            !.guest[m.g] = [NoFast EXCEPT !.known = TRUE],
            !.has = @ \ {m.g},
            !.vm = IF Combined THEN @ ELSE [@ EXCEPT ![m.g] = NoVm]]

handle_new_queue(k, m) == [k EXCEPT !.guest[m.g].queue[m.qid] = m.region]

handle_new_map(k, m) == [k EXCEPT !.guest[m.g].maps = Append(@, m.region)]

handle_enableq(k, m) ==
  [k EXCEPT !.guest[m.g].on = @ \cup {m.qid},
            !.guest[m.g].queue[m.qid] = m.region]

handle_disableq(k, m) == [k EXCEPT !.guest[m.g].on = @ \ {m.qid}]

handle_upload_ebpf(k, m) ==
  [k EXCEPT !.has = @ \cup ({m.g} \cap Gids),
            !.vm = IF Combined THEN [g \in Gids |-> m.vm]
                   ELSE [@ EXCEPT ![m.g] = m.vm]]

controlif_poll(c) ==
  LET m == Head(cfq[c])
      k == core[c]
  IN  /\ cfq[c] # <<>>
      /\ core' = [core EXCEPT ![c] =
                    CASE m.type = "guest" -> handle_new_guest(k, m)
                      [] m.type = "new_queue" -> handle_new_queue(k, m)
                      [] m.type = "new_map" -> handle_new_map(k, m)
                      [] m.type = "enable" -> handle_enableq(k, m)
                      [] m.type = "disable" -> handle_disableq(k, m)
                      [] m.type = "upload" -> handle_upload_ebpf(k, m)]
      /\ cfq' = [cfq EXCEPT ![c] = Tail(@)]
      /\ UNCHANGED <<load, lib, gq, rq, ctlVars, cut>>

-----------------------------------------------------------------------------
LibStep(c) ==
  \/ cham_connect_guest(c) \/ cham_new_proto_bare(c) \/ ReadProtoRes(c)
  \/ cham_new_proto_virt(c) \/ cham_new_queue(c) \/ cham_new_map(c)
  \/ cham_enable_queue(c) \/ cham_disable_queue(c) \/ cham_allocate_ebpf(c)
  \/ cham_upload_ebpf(c) \/ cham_free_ebpf(c) \/ cham_poll_control(c)

Poll(g) ==
  \/ control_guest_new_proto(g) \/ control_guest_new_queue(g)
  \/ control_guest_new_map(g) \/ control_guest_enableq(g)
  \/ control_guest_disableq(g) \/ control_ebpf_allocate(g) \/ control_ebpf_free(g)
  \/ control_ebpf_upload(g)

control_loop ==
  \/ TellNext \/ TellFull
  \/ ivshmemif_poll \/ guestif_poll \/ PollEmpty \/ PollDone
  \/ \E c \in Clients :
       \/ uxsocket_accept(c) \/ uxsocket_receive(c) \/ uxsocket_error(c)
       \/ ivshmem_accept(c) \/ ivshmem_error(c)
  \/ \E g \in Gids : Poll(g)

Next ==
  \/ control_loop
  \/ \E c \in Clients : LibStep(c) \/ Stop(c)
  \/ \E c \in Cores : controlif_poll(c)

Spec == Init /\ [][Next]_vars

\* Every client whose library can go on does; the control plane, as long as
\* it runs, and the cores are loops; a socket that stays ready is served if
\* the control plane looks at sockets again and again.  It never rests, so
\* each condition is tested again and again.
Ready(c) ==
  \/ lib[c].at = "start" /\ load.script[c] # <<>>
  \/ lib[c].at = "memory" \/ HasCall(c)
  \/ lib[c].at = "proto" /\ lib[c].sock \in {"success", "failure"}
  \/ lib[c].at = "wait" /\ rq[lib[c].gid].q # <<>>

AtSocket(c) ==
  lib[c].at = "connect" \/ (lib[c].at = "proto" /\ lib[c].sock = "request")

FairSpec ==
  /\ Spec
  /\ []<><<control_loop \/ ~ ctl.up>>_vars
  /\ \A c \in Clients : []<><<LibStep(c) \/ ~ Ready(c)>>_vars
  /\ []<><<guestif_poll>>_vars =>
       \A c \in Clients :
         []<><<\/ uxsocket_accept(c) \/ ivshmem_accept(c) \/ uxsocket_receive(c)
              \/ ~ AtSocket(c)>>_vars
  /\ \A c \in Cores : []<><<controlif_poll(c) \/ cfq[c] = <<>>>>_vars

-----------------------------------------------------------------------------
(* Properties *)

\* What a client has in its memory, by name: the queues to and from the
\* control plane, its queues and maps, and its program between calls.
Regions(c) ==
  LET all ==
        { <<"control", 0, [off |-> 0, len |-> GUESTQ_SIZE]>>,
          <<"control", 1, [off |-> ALIGN_UP(GUESTQ_SIZE), len |-> GUESTQ_SIZE]>> }
        \cup {<<"queue", q, lib[c].queue[q]>> : q \in DOMAIN lib[c].queue}
        \cup {<<"map", m, lib[c].map[m]>> : m \in DOMAIN lib[c].map}
        \cup (IF lib[c].at = "idle" THEN {<<"program", 0, lib[c].prog>>} ELSE {})
  IN  {r \in all : r[3] # None}

\* The memory of a guest is free or given out once, none is lost, and what
\* the library was told to use as queues, maps and program are parts of it
\* that do not overlap and that the allocator knows to be in use.
\* (shmalloc.c, control_guest.c, control_ebpf.c, lib/guest.c)
RegionsApart ==
  \A c \in Clients :
    LET gc == guest[lib[c].gid]
    IN  lib[c].gid # NoGuest =>
          /\ BlocksApart(gc.free, gc.used) /\ NothingLost(gc.free, gc.used)
          /\ \A r \in Regions(c) :
               [off |-> r[3].off, len |-> ALIGN_UP(r[3].len)] \in gc.used
          /\ \A r, s \in Regions(c) : r = s \/ Apart(r[3], s[3])

\* Core c was told m before anything that waits now, or m waits.
Told(c, m) ==
  LET k == core[c].guest[m.g]
  IN  \/ \E i \in DOMAIN cfq[c] : cfq[c][i] = m
      \/ m.type = "new_queue" /\ k.queue[m.qid] = m.region
      \/ m.type = "new_map" /\ m.mid < Len(k.maps) /\ k.maps[m.mid + 1] = m.region

\* A queue or map a guest was told about has been announced to every core,
\* under the number the guest uses and with the same place; a queue a core
\* polls is one it was told about; and a core that runs a program knows all
\* queues and maps its guest had when it uploaded it: answers to guests do
\* not wait for the cores. (control_guest.c, controlif.c, lib/guest.c)
KnownEverywhere ==
  /\ \A c \in Clients, k \in Cores :
       lib[c].gid # NoGuest =>
         /\ \A q \in {i \in DOMAIN lib[c].queue : lib[c].queue[i] # None} :
              Told(k, [type |-> "new_queue", g |-> lib[c].gid, qid |-> q,
                       region |-> lib[c].queue[q]])
         /\ \A m \in 0 .. Len(lib[c].maps) - 1 :
              Told(k, [type |-> "new_map", g |-> lib[c].gid, mid |-> m,
                       region |-> lib[c].maps[m + 1]])
  /\ \A k \in Cores, g \in Gids :
       LET f == core[k].guest[g]
           v == core[k].vm[g].progs[g]
       IN  /\ \A q \in f.on : f.known /\ f.queue[q] = guest[g].queue[q]
           /\ v > 0 => /\ Len(f.maps) >= code.needs[v].nm
                       /\ \A q \in 0 .. code.needs[v].nq - 1 :
                            f.queue[q] # None

\* Whatever uploads the verifier refuses, whatever VMs cannot be built and
\* whichever queues to cores are full: no core runs, or is about to run, a VM
\* that was destroyed; and a program that the next combined VM will be linked
\* of has been freed only if it is that of a guest whose latest VM did not
\* reach all cores: the code keeps it then although it frees it.
\* (control_ebpf.c)
ProgramsAlive ==
  /\ \A k \in Cores :
       /\ \A g \in core[k].has : core[k].vm[g].id \notin code.dead
       /\ \A i \in DOMAIN cfq[k] :
            cfq[k][i].type = "upload" => cfq[k][i].vm.id \notin code.dead
  /\ \A g \in Gids : code.bc[g] \in code.freed => g \in cut

\* Whatever other guests upload, and whatever fails: once a core runs a
\* guest's program it never runs an older one, or none. (control_ebpf.c,
\* handle_upload_ebpf)
ProgramsForward ==
  [][\A k \in Cores, g \in Gids :
       core[k].vm[g].progs[g] <= core'[k].vm[g].progs[g]]_vars

\* A client has made its calls, was turned away, has stopped, or never ends.
Finished(c) ==
  \/ lib[c].at = "idle" /\ lib[c].next > Len(load.script[c])
  \/ lib[c].at \in {"gone", "dead"}
  \/ load.script[c] = <<>> \/ c \in load.again

\* Every call of the library returns and the cores hear of everything in the
\* end, whatever other guests do, as long as the control plane gets past a
\* guest that does not stop asking: it serves a guest until it finds its queue
\* empty. (poll_guests, the waiting loops of lib/guest.c)
GuestCallsReturn ==
  load.ends /\ (\A c \in Clients :
                  []<><<\/ PollEmpty /\ ctl.next = lib[c].gid
                       \/ c \notin load.again>>_vars)
    => <>[](/\ \A c \in Clients : Finished(c)
            /\ \A k \in Cores : cfq[k] = <<>>)

=============================================================================
