# Verification of brocoli and dandelion

The repository holds a ZeroMQ message broker (`broker.c`, "brocoli"), a hub that
routes between brokers (`hub.c`, "dandelion") and a client library
(`zmq_wrapper.c`). This directory holds TLA+ models of the parts with state and
concurrency, TLC configurations that check small instances of them, and TLAPS
proofs of their safety for every instance. Line numbers below are those of
`src/`.

## 1. The system

### Components

**Broker service registry** (`broker.c` 69-396, 520-602, 863-874). State: the
table of service slots `main_ctx->svc_ctx[MAX_SVC_NUM]`, the tree of service and
process nodes, the event base of the service thread. Three threads: the
registration thread (`svc_regi_thrd`) handles `svc_reg` messages and the sweep
of every second; the service thread (`svc_dealer_thrd`) opens a slot's sockets
(`start_svc_polling`) and closes them and clears the slot (`svc_release`). The
registration thread hands callbacks over with `event_base_once`. Nothing locks
the slots: `svc_release` ends in a `memset` that runs beside scans and claims.
Correct when: two slots never serve one port; a release always finds an open
slot and no node that still refers to it; a process within its lease is never
removed; what stops registering is forgotten.

**Broker router** (`broker.c` 605-713, 821-861). State: the router socket's
queues and the position of the reader inside a multipart message.
`router_callback` reads a sender and a type and relays or drains the rest; some
branches return with frames unread. Correct when: what is sent is one message,
whole, once; what came through the hub never goes back; giving up on one message
costs no other.

**Broker service relay** (`broker.c` 36-66, 101-166). Per service: a dealer
connected to the router, push/pull and pub/sub sockets to the processes, and
callbacks that relay between them (fan-in and fan-out), all on the service
thread. Correct when: a request goes, whole, to one process of the service and
its answer to the process that asked; what waits in a socket is read.

**Client library** (`zmq_wrapper.c`). `mq_regi` (heartbeat every second),
`mq_send_req`, `mq_send_res`, `mq_send_log`, `mq_recv_*`, `relay_snd_more`.
Correct when: messages are sent whole and received whole.

**Configuration publishing** (`broker.c` 715-819): inotify watch of the `conf`
directory, `publish_conf_from_file`, relayed by the services' slots, received by
the clients' `mq_recv_conf_*`. Files change while they are read; a slot or a
process that is not there, or whose queue is full, misses the message, and
nobody sends it again. Correct when: what a process reads is one configuration,
whole if its file was moved in place, and the last text of a file reaches every
process that was connected when it changed, unless it is lost on the way.
The hub copies the directory to brokers with one `lsyncd` process each
(`hub.c` 289-349).

**Hub broker registry** (`hub.c` 20-29, 378-684, 780-948). State: the slots
`main_ctx->broker_ctx[MAX_BROKER_NUM]`, the tree of broker, service and process
nodes, a thread per broker. The registration thread (`broker_regi_thrd`) scans
and claims; the main thread creates the broker's thread; that thread ends with a
`memset` of its slot. Correct when: one slot per host; a release goes to a live
event loop; a slot has at most one thread; a broker that registers is given a
thread.

**Hub routing** (`hub.c` 31-288). Every broker's thread has a dealer (a peer of
the broker's router), a publisher and a subscriber on the hub's xsub/xpub proxy,
and a *small tree* of which broker has which service, fed by the registrations
that are published for all threads. `interhub_callback` publishes requests and
responses for the thread of the broker they go to; `broker_sub_callback` sends
what was published for its broker, and ages the tree with
`remove_smalltree_callback`. Correct when: a message ends at the right broker,
whole and once; dead routes are forgotten.

**Others**: the xsub/xpub proxy (one call of `zmq_proxy`), the drawing of the
trees with graphviz, sample processes (`ahif.c`, `feaib.c`, `psib.c`, `smsib.c`,
`regib.c`), load generators (`perfs.c`, `perfr.c`).

### Interactions

    client --svc_reg--> broker registry --svc_reg--> hub registry --svc_reg--> every broker's
      |                  |  event_base_once            |  event_base_once        thread (small tree)
      |                  v                             v
      +--svc_req--> service sockets --> router <--> dealer of the hub's thread <--> xsub/xpub

Within a process the threads share slots and trees and hand callbacks to each
other's event bases; between processes everything is a multipart message, read
frame by frame.

### What is hard here

* `memset` of a slot beside a scan or a claim of the same slot (`broker.c:98`,
  `hub.c:389`): the stores come in any order, the slot may be claimed between two.
* A registration between a node's expiry and the release of its slot.
* `event_base_once` on an event base that is not there yet, or not any more.
* A branch that returns in the middle of a multipart message.
* A buffer that keeps the rest of a longer string (`hub.c:118`, `hub.c:275`).
* Lease times judged node by node, parents removed with their children.
* Queues at their limit, in the middle of a relay whose result nobody looks at.
* Edge-triggered descriptors whose reader may stop with messages left.
* Files read line by line while they are rewritten or replaced, sent once, through
  slots that come and go.

`PROJECT.json` lists all of them under "hazards", with the properties that cover
them.

## 2. The modules

| module | models | state | actions |
|---|---|---|---|
| `LeaseTable` | what a heartbeat table promises (abstract) | members and the seconds since each one's heartbeat | `Renew`, `Drop`, `Second` |
| `BrokerRegistry` | broker service registry | slots field by field (`used`, `name`, `port`, `based`, `opened`), tree (`nodes`, `procs`, ages, `node_ctx`), registration thread (`pc`, `req`, `new_svc`, `todo`), service thread (`booted`, `evq`, `clearing`, `left`) | `RegiScan`, `ClaimSlot`, `SlotsFull`, `NewService`, `AddToService`, `AddProc`, `SweepStart`, `SweepNode`, `SvcThreadInit`, `StartPolling`, `SvcRelease`, `Memset`, `Tick` |
| `BrokerRouter` | broker router | `inq` (messages), `cur` (unread frames of the one being read), `routes`, `out` | one per branch of `router_callback`; `Arrive`, `Connect`, `Disconnect` |
| `HubRegistry` | hub broker registry | slots, tree of paths with ages, `node_ctx`, registration thread, `creating`, `thread`, `releasing`, `left` | `RegiScan`, `Reject`, `ClaimSlot`, `SlotsFull`, `NewBroker`, `ChkBroker`, `ChkSvc`, `ChkProc`, `Sweep`, `MainInit`, `CreateThread`, `ThreadStart`, `BrokerRelease`, `ThreadEnd`, `Memset`, `Tick` |
| `HubRouting` | hub routing | frame queues `dq`, `sq`, `running`, `dirty`, `small`, `age`, `swept` | `Ask`, `Answer`, `Register`, `Return`, one per branch of the two callbacks, `RemoveSmallTree`, `Tick` |
| `ServiceRelay` | broker service relay, client library | slots (`base`), connections, queues of messages (`outq`, `dq`, `up`, `sq`, `inq`, `ansq`), what a callback has read and begun to send (`rd`, `snd`), what each descriptor's reader knows (`eye`), the callback that runs (`cb`), what the processes hold and got | `OpenSlot`, `SvcRelease`, `Connect`, `Exit`, `MqSendReq`, `MqRecvReq`, `MqSendRes`, `MqRecvRes`, `EdgeStart`, `TimerStart`, `TimerIdle`, `RelayFrame`, `Return`, `RelaySub`, one per outcome of the router |
| `ConfPublish` | configuration publishing | `disk`, `writing`, inotify queue `kq`, events in hand `batch`, file being read `fp`, `alive`; `slot` and its queue `sq`, connections `conn`; each process's queue `box`, the message and the configuration it is reading (`rd`, `cur`), what it `got`; `due`, a history variable: the files it may count on | `WriteStart`, `WriteLine`, `WriteClose`, `Move`, `Remove`, `WatchCallback`, `Crash`, `Ignore`, `OpenFails`, `Open`, `ReadLine`, `Publish`, `OpenSlot`, `SlotHears`, `SvcRelease`, `RelaySub`, `Connect`, `RecvConf*` |
| `BrokerRegistryProofs`, `BrokerRouterProofs`, `HubRegistryProofs`, `HubRoutingProofs`, `ServiceRelayProofs`, `ConfPublishProofs` | theorems about the module each is named after | | |
| `ConfArrivalProofs` | the theorem that the last text arrives (`ConfPublish`) | | |

`MC<Module>` gives the small instances. `Bad<Definition>` operators are faulty
variants of the definition they precede: each property is known to fail when its
variant takes the definition's place.

### How steps were cut

*Registration threads.* One message or one sweep is handled at a time (one event
loop). Within a message there are steps at the points where another thread can
change what the next statement reads: scan, claim, hand-over, each node. The
scan itself (`broker.c:315-327`, `hub.c:604-617`) is one step. The code reads
the slots one after the other, but at most one of them is being cleared in the
broker, and clearing only takes a match away, so a scan that straddles a memset
returns what an atomic scan at some moment of it returns. In the hub several
memsets may run; there the one-step scan is an assumption of the model.

*memset* is one step per field, in any order, begun by the step before it.

*Time.* Heartbeat times are ages in whole seconds, capped one above the limit.
`Tick` may come between any two steps except where code that never blocks would
have to take longer than a second: the heartbeats of one registration are at
most one second apart, a sweep compares with the time it started at, and in the
hub a memset ends and a callback of `HubRouting` returns within the second.

*Messages.* Frames are records of a kind and a value. ZeroMQ delivers multipart
messages whole, so what can be mixed up is only who reads which frame; the
models keep exactly that. A relay is one step, because the reader is one thread
and the message is complete.

*Buffers* (`HubRouting`). The code compares what it read with `strcmp` in a
buffer that was zeroed on entry, and `zmq_recv` adds no zero. `dirty` holds the
lengths (of the two that types have) at which the buffer holds another byte, and
`Wipe` says what each kind of frame leaves there.

*The relay's sockets* (`ServiceRelay`). A message is cut where the code cuts it:
`RelayFrame` is one round of `mq_relay_callback`, and between two rounds
processes send, receive and exit and the router runs. A socket that has accepted
the first frame of a message takes the others (ZeroMQ's multipart messages are
atomic), so what `zmq_send`'s ignored result can lose is a message's first
frames; when a peer goes, the message begun for it is lost. A process's
sockets connect together (`conn`). A descriptor is `asleep` after its reader
found nothing, `ready` when it has been signalled, `awake` while the reader may
have left something; only a socket that is asleep signals. A send on the
dealer, which has the same descriptor, may use the signal up. The router is a
step per message and is that of a broker without a hub: `BrokerRouter` has its
frames and the hub. Names are model values; `SvcBegins` and `ProcBegins` say
which are prefixes of others. A body of no bytes is a kind of frame of its own,
because the library's calls fail on it.

*Files* (`ConfPublish`). A line is known by its file and the version it is of.
In-place writers empty the file, add a line at a time and close it; rsync, which
the hub runs through `lsyncd`, writes under a temporary name (that the broker
rejects, it has two dots) and moves, and a reader that has the old file open
keeps the old text. `fgets` reads a line at a time and may meet any state of the
file; its read-ahead buffer only makes some of these interleavings impossible.
The kernel merges an event with an equal one right before it. The events of one
callback are handled one after the other; `CHUNK` bounds them.

*A configuration's way* (`ConfPublish`). A message is the frames the code sends:
service, `MQ_CONF`, name, lines, an empty frame. The publisher decides with the
first frame to whom the message goes (`Open`): the slots whose subscription is
in effect and fits, but for any set of full ones. It goes out with its last
frame (`Publish`), and a slot released in between does not get it. The slot takes
the service off and passes the rest on to the processes connected then, but for any
set of full ones (`RelaySub`). `SvcRelease` drops what waits in the slot and any end of what is
on its way to each process. A slot is open before its subscription reaches the
publisher (`OpenSlot`, `SlotHears`), and a process connects at any time it finds
the slot open (`Connect`). The processes read frame by frame (`Recv`), `RCVMORE`
being the place in the message that was begun; they see a configuration's name, not
its service. Which queue is full is left open instead of being counted, because
answers share the queues. What one reading call does (`mq_recv_conf_name` two
frames, `mq_recv_conf_body` one) is one step: nobody else reads the socket.

*Event bases.* `event_base_once` on a NULL base does nothing; the pointer's copy
in a slot is part of the slot (`based`).

### Abstract specification

`LeaseTable` is implemented by the process nodes of both registries
(`INSTANCE LeaseTable WITH members <- ..., age <- ...`, property `LeaseSpec`). Its
`Slack` is one second: a service's heartbeat time is written before its
process's (`broker.c:333-334`), so when a second passes between them and the
service's whole subtree expires, a process can lose that second.

## 3. The runs

| run | instance | shows |
|---|---|---|
| `broker_slots` | two services with ports 5550 and 5563, two slots, limit 0 | types; no two used slots have one port; releases find an open slot; a node's slot is its own |
| `broker_lease` | a service with two processes on ports 5550 and 5560, another on 5553, one slot, limit 1, fairness | `LeasesNested`, `LeaseSpec`, `SilentForgotten` |
| `router` | two services and the hub, six messages: two requests, one request from the hub, a response for the hub, one for the broker, a log line; with and without a hub | whole, once, no loop, at most one message swallowed per request given up, none without a hub |
| `relay` | services `s` (one process) and `t` (one by tcp, one by ipc that may exit), two requests from `s` to `t`, names that begin others, queues of one message, three frames per callback, one release | `TakenWhole`, `TakenOnce`, `FailedNotTaken`, `AnswersRight`, `NothingStuck` |
| `conf` | one process whose service's name begins another's; a file of each with one configuration's name, one written in place and one moved, another moved one, a file of the wrong type, one without a dot; three versions in all, one empty; two events per callback; one release of a slot, any queue full at any time | `WholeVersion`, `OwnConf`, `FinalConf`, `ConfReaches` |
| `hub_slots` | two brokers on one host, one process each, two slots, limit 0, failing `pthread_create`, unbounded delays | `HostsUnique`, `ReleaseOnLiveLoop`, `OneThreadPerSlot` |
| `hub_lease` | one broker with two services, one slot, limit 2 | `LeaseSpec` |
| `hub_routing` | two brokers with one service, a request each way, limit 0 | `RoutedRight`, `RoutedOnce`, `Aligned`, `RouteLease` |
| `broker_leak`, `router_swallow`, `hub_restart`, `hub_unheard` | as above | the disagreements of section 6 |

*Bounds and why they are enough.* Slots, services and brokers interact in pairs:
a slot being cleared and another being claimed, a node that expired and its
successor, a port or host wanted by two. Two of each gives all pairs, and the
table being full; one slot gives the competition. A limit of 0 seconds makes
nodes expire one tick after their heartbeat and keeps every order of
expiry and registration; where the length of the lease matters (`broker_lease`,
`hub_lease`) it is 1 or 2, so that losing the slack differs from losing the
lease. The proofs of section 4 cover all values for the safety properties. In `router` the
messages allow two failures in a row with a message after them. In `HubRouting`
`QueueBound` lets a registration be published only while all subscribers'
queues are empty: more than one registration in a drain adds nothing, since a
registration leaves the buffer fit for another; relayed messages queue freely.
In `relay` queues of
one message make every send meet a full queue, and a callback that stops after
three frames stops in the middle of the first message (four frames from a
process) and of the second (two frames from the router); the real limits, 1000
frames and 80000 messages, are these cases further out. One release lets a slot
close and open once, with requests before, between and after. The instance's
ports end in 0: otherwise a tcp process never meets its slot (`zmq_wrapper.c:50`
against `broker.c:77`) and `NothingStuck` fails, as it should; the run says nothing
of other ports. In `conf` three
versions are enough for a file to be replaced while its replacement is being
read, for two equal events to merge, for an empty text among others, and for two
files to take turns under one name; one release loses messages before, in
and behind the slot, and lets the slot and the process connect again (918,905
states).
`hub_slots` and `hub_routing` use the symmetry that swaps the two brokers with
what belongs to them; no definition in them chooses between brokers.

*Fairness.* `broker_lease`, `hub_restart`, `relay` and `conf` use it. The threads run
(`WF` on the registration thread's and each other thread's steps) and time
passes. `Tick` and the sweep get `SF`: registrations may arrive without a pause,
but libevent serves a timer that is due in every round of its loop, so no number
of messages keeps the sweep away for ever. `hub_restart` also sets `Prompt`: the
main thread is ready before the first registration, a thread starts within a
second and no registration meets a running memset, so the violation it shows
needs no lost race of these kinds. No process is assumed to register,
except in `relay`, where a service that has a live process gets a slot in the
end. There every callback that is due runs (timers and descriptors are served by
one event loop), and processes go on receiving, as the loops of `psib.c` and
`ahif.c` do; nobody has to send, exit or release. In `conf` the router's thread, each slot's `sub` callback and the receiving
processes go on (`WF` of `BrokerStep`, `RelaySub(s)`, `RecvConf(p)`); nobody has to close
a file, open a slot, connect, or find room in a queue.

*Deadlock* is checked in every run. In `ServiceRelay` and `ConfPublish` an idle
timer and an idle receiver are steps, because the code takes them.

## 4. The proofs

The theorems hold for every value of the constants under the assumption at the
head of each module: constants have their types, and `NULL` is none of the values
it stands in for. What these assumptions say beyond that:

* `RouterAssumption`: the hub sends requests and responses only, as its
  `relay_to_broker` does.
* `RelayAssumption` and `ConfAssumption`: limits (`HWM`, `RELAY_MAX`, `CHUNK`) are at
  least 1.
* `RoutingAssumption`: there are finitely many brokers (`MAX_BROKER_NUM`).

Two hypotheses are about the deployment and are stated in the theorems that need
them, not as assumptions of the module. `PortsApart` (`ServiceRelay`): a process
that connects by tcp goes to whatever listens at the port it was given, so a port
may not be what another service's slot rounds its own port to. Without it TLC
finds `TakenOnce` violated (a service on port 5550 and a process of another one
given the port 5550). `OneEach` (`HubRouting`): every broker has at most one
service, which is what `RouteLease` is stated for. The `MC` modules assume both
of their instances, where TLC evaluates them.

Proofs by case on the actions; the step of each action is a case or a lemma of its
own. None of the properties is inductive alone. What each needs:

**`BrokerRegistryProofs`.**

* `TypeCorrect`: `Spec => []TypeOK`, inductive by itself.
* `PortsStayUnique`. The strengthening `PortInv` adds that while the
  registration thread is between its scan and its claim (`pc = "fresh"`) no used
  slot has the port it is about to write, unless that is 0. It survives the interleaved memset,
  because clearing fields never makes a slot's port equal to another one.
* `LeasesStayNested`. `LeaseInv` adds that the service whose process is about to
  be written is there and was renewed at most a second ago.
* `ProcsAreLeased`: the process nodes implement `LeaseTable`. Initial states map
  to initial states and each step to `Renew`, `Drop`, `Second` or a stutter;
  `LeasesNested` is what makes the removal of a subtree a legal `Drop`.
* `ReleaseIsSafe` and `NodesOwnSlots`, both from `SlotInv`, which has four parts:
  `EventInv` (a waiting callback's slot is used, no two callbacks are the same),
  `QueueInv` (a slot that waits for its release belongs to no node, and is open
  or its start comes before it in the queue), `OwnerInv` (a node's slot is used,
  its own, and open or waiting to be) and `FreshInv` (neither the slot just
  claimed nor the one being cleared has a callback, a node or open sockets, and
  they are not the same slot). None of the four is inductive alone: that a
  release finds an open slot depends on the order of the queue, the order on
  what the claim found, and that on who may refer to a slot.

**`HubRegistryProofs`.**

* `TypeCorrect` together with `TreeInv`: between the heartbeats of one registration
  the nodes above the next one stay, so `chk_tree` always finds its parent.
* `HostsStayUnique` from `HostInv`, the hub's form of `PortInv`.
* `SlotsLive`, `OneThreadEach`, `ReleaseIsSafe` from `SlotInv`: `FreeInv` (a slot
  that is free or just claimed has no thread, no memset about to clear its `used`
  flag, and is no node's), `ThreadInv` (one creation per claim, a release only
  from the loop, no node from the request for it on, and a set event base pointer
  only while a thread runs it or the memset has yet to reach it) and `OwnerInv`
  (a node owns its slot alone; a second after its heartbeat no memset of an
  earlier thread is left in it). The last conjunct is what keeps a release from
  an event base that was freed: it needs the assumption of the model that a
  memset ends within a second.
* `ProcsAreLeased`: as for the broker, from `AgeInv`, by which a node is at most a
  second more silent than any below it, on all three levels.

**`BrokerRouterProofs`.** `Flows` proves `FlowInv`: `CurInv` lists all that a round
can leave unread (nothing; tag and body, or only the body, of a request that was
given up; a response for the hub), `WaitInv` and `OutInv` say that what waits, what
was given up and what was sent are disjoint and without repetition. `StepCases`
derives that every round either drains what was left, with at most the message
after it, or handles one whole message. `SentAreWhole`, `SentAtMostOnce` and
`NoLoopThroughHub` follow. `SwallowIsBounded` needs a potential: messages
swallowed, and one more while a lone body is still unread, are at most the
requests given up.

**`ServiceRelayProofs`.** `StateTyped` is the type invariant that makes the rest
possible: it says of every queue of which messages it may hold which ends, of a
relay what it has read and begun to send (`PartsOK`: the two together are an end
of one message), and that a message begun has room in its queue (`RoomInv`).

* `TypeCorrect` and `TakenAreWhole` follow: only ends of messages arrive, and an
  end with a tag and a body is all of it.
* `FailedIsNotTaken` and `TakenAtMostOnce` from `ReqInv`: the places of a request
  (in the process's queue, in the hands of the relay to the router, behind the
  router, in the hands of the relay to the processes, in a process's queue, taken)
  are numbered, and a request is at one of them at most; it is at one only after
  `mq_send_req` has returned what `result` says. `WayInv` adds whose request each place
  may hold, which is where `PortsApart` is used.
* `AnswersAreRight` from `ResInv`, the same for the answers, except that one answer
  may be at several processes, at each of them once.

**`ConfPublishProofs`.** `MsgInvariant` proves `MsgInv`: what the broker has sent of
a message begins one for the file it reads (`OpenInv`), what waits in a slot or at
a process is a whole message with a text that the receiver may get under that
name (`QueueInv`), and a process stands as many frames into a message as it has lines
(`ReadInv`). Losing whole messages, which is all that slots and queues can do to them,
keeps it; losing frames would not. A text that a process may get (`GoodText`) is
made of lines of files of that name, and if all of these files are moved ones, it
is a version of one.

* `TypeCorrect`, `ReadWhole` and `OwnLines` follow.

**`ConfArrivalProofs`.** `LastTextArrives` from `ArrivalInv`. For every settled file
that a process may count on, the last event of a file with its name waits and is
its own (`Pending`); or none waits, and its text is being read as it is in the
directory, to be sent to the process's slot too (`BeingRead`); or no file with its
name is being read either, and the last message under its name on the way, in the
slot or behind it, or what the process has read or is reading, is that text
(`Latest`). `Pending` survives the kernel's merging of events, since the one merged with
has not been read. `Latest` needs that queues keep their order, and that a file of
another service with the same configuration's name counts as a change of it.

**`HubRoutingProofs`.** `Routing` proves `Routed`:

* `MailInv`: wherever a queue of a thread has a frame that is a type, a whole
  message begins there that belongs in this queue. It says nothing of where
  the reader stands, and that is why it holds: callbacks may misread and leave the
  reader in the middle of a message, but they relay only from a frame that is a
  type, and by `MailInv` the frames after it are its own.
* `TreeInv`: a small tree has no node twice, a service only where it registers, its
  broker's node before it and all of a broker's nodes together, so that what
  `remove_smalltree_callback` cuts out is a broker with exactly its services.

From `Routed` follow `TypeCorrect` and `RoutedAreRight`. `RoutedAtMostOnce` adds
`TokenInv`: a message begins at one place of one queue, or is in one router's, and
only after it was sent. `StaysAligned` adds `AlignInv`: only the callback that reads a
queue leaves it in the middle of a message, and it does not return until the
queue is empty. `RoutesAreLeased` (under `OneEach`) adds `AgeInv`: an old node's age
and the number of other brokers before it in the tree, plus one once this second's
removal is done, are at most the lease and the number of brokers. A removal lowers
the count for every broker behind it, which makes up for the second that
passes.

*Only model-checked*: liveness under fairness (`SilentForgotten`, `NothingStuck`,
`ConfReaches`), which TLAPS cannot prove. The properties of the four runs that
expect a violation are false. Every other property of a run is a theorem.

## 5. What the checks show

The unlocked slots of the broker are safer than they look: the one registration
thread and the single service thread are enough for unique ports, sound releases
and nodes that own their slots, in every interleaving of the memset. What is not
safe is the sequence: a service that comes back too early gets a node without a
slot (6, `broker_leak`), and the hub has the same pattern with a worse end. The
router loses messages only in a bounded way, one per request given up and none
without a hub. The hub's callbacks may misread whatever follows a longer string,
yet never send anything wrong: what they misread they drop.

The relay of a service cuts messages when a queue is full, and yet no process
ever takes the body of one request with the tag of another: only first frames
are lost, `mq_recv_req` wants a tag and a body, and the router drains what does
not begin with a type. This rests on three details, each of which a mutant
removes: the check for more frames in `mq_recv_req`, that slots' ports differ,
and that a message begun is not finished on a new slot's socket. A request with
an empty body is reported as failed after it was sent, but no process serves it,
so sending it again does no harm. An answer may be read by another process, of a
service and a name that begin the asker's, but by no others. The timer that
`add_fd_read_callback` adds "for safe" is needed: with the edge-triggered
descriptor alone a message stays behind when a callback stops at its limit.

A configuration that is written in place can be published torn, in the middle
of the writing; the event of the writer's `close` then publishes it again, and
`FinalConf` shows that this is enough, also when the kernel merges
events. A file moved in place is never torn. But a configuration is sent once.
It is lost for good to a process when its slot is closed or has not subscribed yet,
when the process has not connected yet, and when the slot's or the process's queue is full:
the process keeps what it has until the file changes again. `FinalConf` and
`ConfReaches` therefore speak of the files in `due` only, which says when
a process may count on one: from a change that finds the slot's and the process's
subscriptions in effect, until the slot is released, a message of that name
meets a full queue, or another file that is the same configuration to the process
changes. The last is a matter of names: a slot hears every service
whose name its own begins, and a process is given the configuration's name without
the service, so `S_net.conf` and `S1_net.conf` are one configuration to the
processes of `S`, and the one that was sent last wins. `OwnConf` shows that no more
than that is confused: the calls that read a message frame by frame stay in step
over all of these losses. A file whose name has no dot stops
the broker (`broker.c:764`, modelled as `Crash`), and both properties are stated
up to that.

## 6. Disagreements found

* `broker_leak` (`broker.c:333`): a slot in use that no node manages.
* `router_swallow` (`broker.c:612`): the unread body of a request that was given
  up swallows the next message.
* `hub_restart` (`hub.c:625`): a broker that restarts on its host is refused for
  ever.
* `hub_unheard` (`hub.c:121`): a registration read after a longer topic is not
  recognised, nor, in the same way, a request after a longer message type
  (`hub.c:275`).

One more was seen while reading and has no run: the comment at `broker.c:583-584`
puts "create service node & manage it" before "relay to inter hub", and
`regi_action` relays first (`broker.c:366`), so the hub also hears of processes
whose registration the broker then rejects. `BrokerRegistry` leaves out what the
hub hears; the hub's modules take every registration.

## 7. Not modelled

* The message counters, addresses and drawn graph in the nodes: no step depends
  on them.
* The limit of 1000 messages per `router_callback`: the rest is read in the next
  call, with the reader at the same place.
* Messages lost in a full publisher of the hub; prefix matches between the topics of
  the hub (`ServiceRelay` and `ConfPublish` have those of the broker).
* Frames longer than the buffers they are read into, and the counters of bytes.
* Sockets that are still bound while a new slot binds the same address: libzmq
  closes in a thread of its own, and `OpenSlot` always succeeds.
* `lsyncd`'s processes (what they do to files is `Move`), `zmq_proxy`, the load
  generators.
* An inotify queue that overflows: its event has no name and is ignored, and no
  code reads the directory again.
* A broker or a process that is started again; in `ConfPublish` also a process that
  ends (its queue goes with it, and a new one is a process that has yet to connect).
* Services of one broker that keep another's routes alive in the small tree
  (`hub.c:198`): `RouteLease` is stated where every broker has one service.

Narrower than the code, in ways no property depends on:

* `BrokerRegistry`: the slot's `zmq_context` (`broker.c:72`) is no `Field`. If the
  running memset wipes it after a claim, `start_svc_polling` gets no socket and the
  process exits (`zmq_wrapper.c:328-331`); `StartPolling` goes on instead. `evbase`,
  wiped in the same way, is modelled (`based`).
* `BrokerRouter`: only whole messages arrive. A service's relay may have cut
  first frames off (`ServiceRelay` has that); such a message has no known type
  and is drained.
* `ServiceRelay`: a request to an unknown peer and one that meets a full dealer
  queue are both lost whole (`RouteReqNowhere`, `RouteReqNow`). What the second leaves
  unread is in `BrokerRouter`.
* `HubRegistry`: a broker's host is a function of its name, so two hosts with the same
  `<progname>_<pid>` (`hub.c:436-437`) are excluded; `broker_id`, the node pointer and
  the sockets of the slot are no `Field`s.
* `HubRouting`: the lengths of what leaves traces in the buffers are fixed (`Wipe`);
  the name frame of a response is padded with zeros by the code (`hub.c:98-105`) and
  passed on as it is here; a response is published under the service its request
  was for.
* `ConfPublish`: `_x.conf` is published for a service with the empty name, which no
  slot hears.

## 8. Plan

Done, in the order of importance: `BrokerRegistry`, `BrokerRouter`, `HubRegistry`,
`HubRouting`, `ServiceRelay`, `ConfPublish`, and the proofs of all their safety
properties.

1. `RouteLease` for brokers with several services: the bound becomes one second for
   every node of the small tree, as long as none of a broker's services keeps the
   broker's node alive.
2. A composition of two brokers' routers with `HubRouting` against an abstract
   request/response channel, so that what the router swallows and what the hub
   misreads are seen end to end. `Routed` and `FlowInv` are the invariants its
   refinement would rest on.
