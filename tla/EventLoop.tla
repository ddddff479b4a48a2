------------------------------ MODULE EventLoop ------------------------------
(***************************************************************************)
(* The life of the process: the start-up of qsr_udp_run in src/src/udp.c   *)
(* with its error paths, the epoll loop, the hot reload of                 *)
(* src/src/runtime.c at the top of the loop, and the shutdown.  Around it  *)
(* are an operator who writes the configuration file, clients and backends *)
(* that send, and the kernel's epoll set.                                  *)
(*                                                                         *)
(* A receive round is one datagram, and what is done with a datagram is    *)
(* cut down to the flow it opens or refreshes: ReceiveLoop and Dataplane   *)
(* have the rest.                                                          *)
(***************************************************************************)
EXTENDS FlowOps, ConfigFile

CONSTANTS
  Documents,      \* what the operator may put into the file
  FirstDocument,  \* what it has at start-up
  InPlace,        \* those it may write entry by entry into the truncated file
  EditsAtStart,   \* the file may change before the watch is set
  NameOf,         \* the name each client asks for
  MaxEvents,      \* QSR_EPOLL_MAX_EVENTS
  ReceiveRounds,  \* QSR_RECV_ROUNDS_PER_EVENT
  MaxQueue,       \* datagrams a socket's kernel buffer holds
  MaxTime, MaxId  \* bounds

VARIABLES
  pc,       \* a stage of the start-up, or where the loop is
  held,     \* what the process has allocated and opened, flow sockets apart
  config,   \* runtime->config
  table,    \* runtime->flows
  events,   \* the tags epoll_wait returned that are not dispatched yet
  rounds,   \* receive rounds of the first of them
  stop,     \* g_stop
  file,     \* [doc, written]: the document, and how many of its entries are there
  notify,   \* the inotify descriptor has events
  clients,  \* the listening socket's queue, who sent each datagram
  replies,  \* the flow sockets' queues, how many datagrams each has
  ready,    \* the kernel's list of ready tags
  now, last_expire

ASSUME DocumentAssumption ==
  /\ \A d \in Documents : d \in Seq({d[i] : i \in DOMAIN d})
  /\ FirstDocument \in Documents /\ InPlace \subseteq Documents
ASSUME LoopAssumption == MaxEvents \in Nat /\ ReceiveRounds \in Nat /\ MaxQueue \in Nat
ASSUME ResolvesAssumption == \A host \in DOMAIN Resolves : Resolves[host] \in Backends

kernel == <<clients, replies, ready, now>>
disk == <<file, notify>>
vars == <<pc, held, config, table, events, rounds, stop, disk, kernel, last_expire>>

-----------------------------------------------------------------------------
(* The file and its watch *)

Whole(d) == [doc |-> d, written |-> Len(d)]
NoFile == [doc |-> <<>>, written |-> -1]
Contents(f) == IF f = NoFile THEN Missing ELSE SubSeq(f.doc, 1, f.written)

\* What each reading of the file comes to, loaded and with its routes resolved.
Prefixes(d) == {SubSeq(d, 1, n) : n \in 0 .. Len(d)}
Readings ==
  [entries \in {Missing} \cup UNION {Prefixes(d) : d \in Documents} |->
     LET read == Load(entries)
     IN IF read.loaded /\ CanResolve(read.config.routes)
        THEN [read EXCEPT !.config.routes = Resolve(@)] ELSE Failed]
Usable(entries) == Readings[entries].loaded
Resolved(entries) == Readings[entries].config

\* setup_inotify_watch: the events on the directory that wake the router.
Mask == {"IN_MOVED_TO", "IN_CREATE", "IN_MODIFY", "IN_CLOSE_WRITE", "IN_DELETE"}

\* Tags of the epoll set: flow slots, and two numbers that are not slots.
MainTag == Capacity
InotifyTag == Capacity + 1
Tags == Slots \cup {MainTag, InotifyTag}

Readable(tag) ==
  CASE tag = MainTag -> clients # <<>>
    [] tag = InotifyTag -> notify
    [] OTHER -> Used(table, tag) /\ replies[table.flows[tag].fd] > 0

\* The elements of s that are in keep, in their order.
Among(s, keep) ==
  LET kept[n \in 0 .. Len(s)] ==
        IF n = 0 THEN <<>>
        ELSE IF s[n] \in keep THEN Append(kept[n - 1], s[n]) ELSE kept[n - 1]
  IN kept[Len(s)]

\* A tag becomes ready; the tags that are so after the step.
Woken(tag) == IF \E i \in DOMAIN ready : ready[i] = tag THEN ready ELSE Append(ready, tag)
StillReady == Among(ready, {tag \in Tags : Readable(tag)'})

Edit(f, event) ==
  LET seen == "inotify" \in held /\ event \in Mask
  IN /\ pc # "exited"
     /\ "inotify" \in held \/ EditsAtStart
     /\ file # f /\ file' = f
     /\ notify' = (notify \/ seen)
     /\ ready' = IF seen /\ "wakeup" \in held THEN Woken(InotifyTag) ELSE ready
     /\ UNCHANGED <<pc, held, config, table, events, rounds, stop, clients, replies,
                    now, last_expire>>

\* A rename over the file (an editor, a ConfigMap), its removal, and a rewrite
\* in place, one entry at a time.
Replace == \E d \in Documents : Edit(Whole(d), "IN_MOVED_TO")
Remove == file # NoFile /\ Edit(NoFile, "IN_DELETE")
Truncate ==
  \E d \in InPlace : Edit([doc |-> d, written |-> 0], "IN_MODIFY")
Write ==
  /\ file.written \in 0 .. Len(file.doc) - 1
  /\ Edit([file EXCEPT !.written = @ + 1], "IN_MODIFY")

-----------------------------------------------------------------------------
(* Start-up *)

Stages == <<"load", "sessions", "flows", "resolve", "listen", "bind", "nonblock",
            "pending", "epoll", "register", "batch", "top">>
StageAfter(stage) == Stages[1 + CHOOSE i \in DOMAIN Stages : Stages[i] = stage]

\* qsr_runtime_free.
RuntimeParts == {"sessions", "flows", "inotify"}
\* What the later error paths and the shutdown give back besides.  Closing the
\* epoll set ends its registrations.
EpollParts == {"epoll", "wakeup"}

Acquires(stage) ==
  CASE stage \in {"sessions", "flows", "pending", "epoll", "batch"} -> {stage}
    [] stage = "bind" -> {"socket"}
    [] OTHER -> {}
\* Best effort: without them there is no reload, or one at the next wake-up.
MayAcquire(stage) ==
  CASE stage = "flows" -> {"inotify"}
    [] stage = "register" /\ "inotify" \in held -> {"wakeup"}
    [] OTHER -> {}

\* Deviation: the listening socket is left open.
FreesButSocket(stage) ==
  CASE stage = "flows" -> {"sessions"}
    [] stage \in {"resolve", "listen", "bind", "nonblock", "pending"} -> RuntimeParts
    [] stage = "epoll" -> RuntimeParts \cup {"socket", "pending"}
    [] stage \in {"register", "batch"} -> RuntimeParts \cup {"socket", "pending"} \cup EpollParts
    [] OTHER -> {}

\* The error path of each stage: what it gives back.
Frees(stage) ==
  CASE stage = "flows" -> {"sessions"}
    [] stage \in {"resolve", "listen", "bind"} -> RuntimeParts
    [] stage \in {"nonblock", "pending"} -> RuntimeParts \cup {"socket"}
    [] stage = "epoll" -> RuntimeParts \cup {"socket", "pending"}
    [] stage \in {"register", "batch"} -> RuntimeParts \cup {"socket", "pending"} \cup EpollParts
    [] OTHER -> {}

Starting == pc \in {Stages[i] : i \in 1 .. Len(Stages) - 1}

\* main reads the file, and qsr_udp_run resolves what main read.
Startable(stage) ==
  CASE stage = "load" -> Load(Contents(file)).loaded
    [] stage = "resolve" -> CanResolve(config.routes)
    [] OTHER -> TRUE
StartedConfig(stage) ==
  CASE stage = "load" -> Load(Contents(file)).config
    [] stage = "resolve" -> [config EXCEPT !.routes = Resolve(@)]
    [] OTHER -> config

Start ==
  /\ Starting /\ Startable(pc)
  /\ pc' = StageAfter(pc)
  /\ \E extra \in SUBSET MayAcquire(pc) : held' = held \cup Acquires(pc) \cup extra
  /\ config' = StartedConfig(pc)
  /\ UNCHANGED <<table, events, rounds, stop, disk, kernel, last_expire>>

\* Any stage may fail: out of memory, of descriptors, no such address.
FailToStart ==
  /\ Starting
  /\ pc' = "exited"
  /\ held' = held \ Frees(pc)
  /\ UNCHANGED <<config, table, events, rounds, stop, disk, kernel, last_expire>>

Shutdown ==
  /\ pc' = "exited"
  /\ held' = held \ ({"batch", "pending", "socket"} \cup EpollParts \cup RuntimeParts)
  /\ table' = Empty
  /\ notify' = FALSE /\ events' = <<>> /\ rounds' = 0
  /\ clients' = <<>> /\ replies' = [fd \in Fds |-> 0] /\ ready' = <<>>
  /\ UNCHANGED <<config, stop, file, now, last_expire>>

-----------------------------------------------------------------------------
(* The top of the loop: qsr_runtime_poll *)

\* drain_inotify comes before the file is read, so that an edit in between is
\* seen at the next round.
Poll ==
  /\ pc = "top" /\ ~stop
  /\ pc' = IF notify THEN "reload" ELSE "wait"
  /\ notify' = FALSE
  /\ UNCHANGED <<held, config, table, events, rounds, stop, file, clients, replies, now,
                 last_expire>>
  /\ ready' = StillReady

LeaveLoop == pc = "top" /\ stop /\ Shutdown

\* The flows become t.  The queue of a socket goes with the socket; a tag that
\* epoll_wait has returned already stays.
SameFlow(p) == Used(table', p) /\ Used(table, p) /\ table'.flows[p].id = table.flows[p].id
WithFlows(t) ==
  /\ table' = t
  /\ replies' = [fd \in Fds |->
       IF \E p \in Slots : SameFlow(p) /\ table.flows[p].fd = fd THEN replies[fd] ELSE 0]

\* Deviations: the settings stay; every flow of the old routes goes.
SwappedRoutes(new) == [config EXCEPT !.routes = new.routes]
DoomedOld(new) == {b \in Backends : HasBackend(config.routes, b)}

\* The address to listen on and the size of the tables take a restart.
Swapped(new) ==
  [routes |-> new.routes,
   settings |-> [k \in Settings |->
     IF k \in {"listen", "maxSessions"} THEN config.settings[k] ELSE new.settings[k]]]
\* should_evict_on_reload, should_evict_flow_on_reload.
Doomed(new) ==
  {b \in Backends : HasBackend(config.routes, b) /\ ~HasBackend(new.routes, b)}

\* reload_from_path: fail-closed, then the eviction, then the swap.
Reload ==
  LET new == Resolved(Contents(file))
  IN /\ pc = "reload"
     /\ pc' = "wait"
     /\ IF Usable(Contents(file))
        THEN WithFlows(EvictBackends(table, Doomed(new))) /\ config' = Swapped(new)
        ELSE UNCHANGED <<table, replies, config>>
     /\ UNCHANGED <<held, events, rounds, stop, disk, clients, now, last_expire>>
     /\ ready' = StillReady

-----------------------------------------------------------------------------
(* epoll_wait *)

\* The first tags of the ready list, none after a second without any.  The set
\* is level-triggered: what is returned goes to the end of the list.
Wait ==
  LET n == IF Len(ready) < MaxEvents THEN Len(ready) ELSE MaxEvents
  IN /\ pc = "wait"
     /\ pc' = "dispatch"
     /\ events' = SubSeq(ready, 1, n)
     /\ ready' = SubSeq(ready, n + 1, Len(ready)) \o events'
     /\ rounds' = 0
     /\ UNCHANGED <<held, config, table, stop, disk, clients, replies, now, last_expire>>

\* EINTR: a signal.
WaitInterrupted ==
  /\ pc = "wait" /\ stop
  /\ pc' = "top"
  /\ UNCHANGED <<held, config, table, events, rounds, stop, disk, kernel, last_expire>>

WaitFails == pc = "wait" /\ Shutdown

-----------------------------------------------------------------------------
(* The dispatch of the events *)

\* drain_socket reads on: its socket has datagrams and the rounds are not used
\* up.  The slot of a flow is looked at now, not as it was at epoll_wait.
More == events # <<>> /\ Readable(Head(events)) /\ rounds < ReceiveRounds

\* Deviation: the rounds are not counted, and a socket is read until it is empty.
RoundsUncounted == rounds
RoundDone == rounds + 1

\* A client's datagram: its flow sends it on, or its ClientHello is routed and
\* gets a flow, or it is dropped.
Forwarded(c) ==
  LET p == SlotOf(table, c)
  IN p # NoSlot /\ WithFlows(Reuse(table, p, table.flows[p].backend, now))
Routed(c) ==
  LET r == Lookup(config.routes, NameOf[c])
  IN /\ r # 0 /\ table.next_id <= MaxId
     /\ \E registered \in BOOLEAN :
          WithFlows(Acquired(table, c, config.routes.routes[r].backend, registered, now))
Dropped(c) == SlotOf(table, c) = NoSlot /\ UNCHANGED <<table, replies>>

ReceiveClient ==
  /\ pc = "dispatch" /\ More /\ Head(events) = MainTag
  /\ clients' = Tail(clients)
  /\ rounds' = RoundDone
  /\ Forwarded(Head(clients)) \/ Routed(Head(clients)) \/ Dropped(Head(clients))
  /\ UNCHANGED <<pc, held, config, events, stop, disk, now, last_expire>>
  /\ ready' = StillReady

ReceiveReply ==
  LET p == Head(events)
      fd == table.flows[p].fd
  IN /\ pc = "dispatch" /\ More /\ p \in Slots
     /\ replies' = [replies EXCEPT ![fd] = @ - 1]
     /\ table' = [table EXCEPT !.flows[p].last_seen = now]
     /\ rounds' = RoundDone
     /\ UNCHANGED <<pc, held, config, events, stop, disk, clients, now, last_expire>>
     /\ ready' = StillReady

\* On to the next event; one of the watch is a wake-up only.
NextEvent ==
  /\ pc = "dispatch" /\ events # <<>>
  /\ ~More \/ Head(events) = InotifyTag
  /\ events' = Tail(events)
  /\ rounds' = 0
  /\ UNCHANGED <<pc, held, config, table, stop, disk, kernel, last_expire>>

\* After the last, once per interval, run_expiry_sweeps.
SweepInterval == 1
EndEvents ==
  /\ pc = "dispatch" /\ events = <<>>
  /\ pc' = "top"
  /\ IF now - last_expire >= SweepInterval
     THEN WithFlows(ExpireAll(table, now)) /\ last_expire' = now
     ELSE UNCHANGED <<table, replies, last_expire>>
  /\ UNCHANGED <<held, config, events, rounds, stop, disk, clients, now>>
  /\ ready' = StillReady

-----------------------------------------------------------------------------
(* The world around the loop *)

Running == ~Starting /\ pc # "exited"

ClientSends(c) ==
  /\ Running /\ Len(clients) < MaxQueue
  /\ clients' = Append(clients, c)
  /\ ready' = Woken(MainTag)
  /\ UNCHANGED <<pc, held, config, table, events, rounds, stop, disk, replies, now,
                 last_expire>>

BackendSends(p) ==
  LET fd == table.flows[p].fd
  IN /\ Running /\ Used(table, p) /\ replies[fd] < MaxQueue
     /\ replies' = [replies EXCEPT ![fd] = @ + 1]
     /\ ready' = Woken(p)
     /\ UNCHANGED <<pc, held, config, table, events, rounds, stop, disk, clients, now,
                    last_expire>>

\* SIGINT or SIGTERM.
Signal ==
  /\ Running /\ ~stop
  /\ stop' = TRUE
  /\ UNCHANGED <<pc, held, config, table, events, rounds, disk, kernel, last_expire>>

Tick ==
  /\ Running /\ now < MaxTime
  /\ now' = now + 1
  /\ UNCHANGED <<pc, held, config, table, events, rounds, stop, disk, clients, replies,
                 ready, last_expire>>

Init ==
  /\ pc = Stages[1] /\ held = {} /\ stop = FALSE
  /\ config = [settings |-> Default, routes |-> NewTable]
  /\ table = Empty
  /\ events = <<>> /\ rounds = 0
  /\ file = Whole(FirstDocument) /\ notify = FALSE
  /\ clients = <<>> /\ replies = [fd \in Fds |-> 0] /\ ready = <<>>
  /\ now = 0 /\ last_expire = 0

LoopStep ==
  \/ Poll \/ Reload \/ LeaveLoop
  \/ Wait \/ WaitInterrupted \/ WaitFails
  \/ ReceiveReply \/ NextEvent \/ EndEvents

Next ==
  \/ Start \/ FailToStart
  \/ LoopStep \/ ReceiveClient
  \/ Replace \/ Remove \/ Truncate \/ Write
  \/ \E c \in Clients : ClientSends(c)
  \/ \E p \in Slots : BackendSends(p)
  \/ Signal \/ Tick

\* Nothing but ReceiveClient takes a datagram from the clients' queue.
TakesDatagram ==
  /\ pc = "dispatch" /\ More /\ Head(events) = MainTag
  /\ clients' = Tail(clients)

\* The process is scheduled, epoll_wait returns within a second, and
\* getaddrinfo returns.  Nobody else has to do anything.
Spec ==
  /\ Init /\ [][Next]_vars
  /\ WF_vars(Start \/ FailToStart) /\ WF_vars(LoopStep) /\ WF_clients(TakesDatagram)

-----------------------------------------------------------------------------
(* Properties *)

Parts == {"sessions", "flows", "inotify", "socket", "pending", "epoll", "wakeup", "batch"}
LoopPcs == {"top", "reload", "wait", "dispatch", "exited"}

TypeOK ==
  /\ pc \in LoopPcs \cup {Stages[i] : i \in DOMAIN Stages}
  /\ held \subseteq Parts
  /\ table \in Tables
  /\ events \in Seq(Tags) /\ Len(events) <= MaxEvents
  /\ rounds \in 0 .. ReceiveRounds
  /\ stop \in BOOLEAN /\ notify \in BOOLEAN
  /\ file.written \in -1 .. Len(file.doc)
  /\ clients \in Seq(Clients) /\ Len(clients) <= MaxQueue
  /\ replies \in [Fds -> 0 .. MaxQueue]
  /\ ready \in Seq(Tags)
  /\ now \in Nat /\ last_expire \in 0 .. now

\* Every return of qsr_udp_run, from whichever stage of the start-up or from
\* the loop, has freed and closed all there was, flow sockets included; and no
\* stage is reached without what the earlier ones acquired.
ResourcesFreed ==
  /\ pc = "exited" => held = {} /\ table.fds = {}
  /\ Running => {"sessions", "flows", "socket", "pending", "epoll", "batch"} \subseteq held

\* Whatever the operator wrote and in whatever order, the routes in force are
\* found by name, by server id and by backend address, and nothing else is:
\* names that normalize alike, names and addresses that collide, and routes
\* that share a backend.
RoutesExact == IndexesExact(config.routes)

\* "Session disruption on reload is bounded" (docs/threat-model.md): a reload
\* closes no flow whose backend is in the file, wherever in it and under
\* whichever names, and a file that does not load or resolve closes none.
SurvivorsKeepFlow ==
  [][pc = "reload" /\ file.written = Len(file.doc) =>
       \A p \in UsedSlots(table) :
         table.flows[p].backend \in BackendsIn(file.doc) \/ ~Usable(file.doc) =>
           table'.flows[p] = table.flows[p]]_vars

\* An edit is not lost, whenever it falls: between the drain of the watch and
\* the reading of the file, during a flood of datagrams, after another one.
\* A file that stays as it is comes into force if it loads and resolves, with
\* the settings that do not take a restart.
InForce(d) ==
  /\ config.routes = Resolved(d).routes
  /\ \A k \in {"idleTimeout", "cidEncoding", "logging"} :
       config.settings[k] = Resolved(d).settings[k]
FileApplied ==
  \A d \in Documents :
    <>[](file = Whole(d) /\ "inotify" \in held /\ pc # "exited") =>
      <>[](Usable(d) => InForce(d))

\* The bound on the rounds of one socket: a flood on another socket does not
\* keep a backend's reply waiting, although epoll_wait returns fewer tags than
\* are ready and a tag may be of a flow that is gone.
RepliesServed == \A fd \in Fds : replies[fd] = MaxQueue ~> replies[fd] < MaxQueue

\* A signal ends the process, wherever in the loop it comes and whatever the
\* clients send.
StopExits == stop ~> pc = "exited"

=============================================================================
