# Verification of the SARAD Registration Server

TLA+ models, model checking runs and proofs for the Registration Server
(`src/src/regserver`), the service that makes SARAD instruments available to
applications over REST, MQTT and mDNS. Paths below are relative to
`src/src/regserver/`.

## 1. The system

Everything is an actor of the Thespian actor system: a process of its own with
a mailbox, that handles one message at a time. Some actors additionally start
threads, and those threads call methods of the actor.

    main.py ── Registrar ─┬─ MqttSchedulerActor, MdnsSchedulerActor     (frontends)
    restapi.py (Flask,    ├─ ClusterActor ─ ComActor ─ UsbActor / NetUsbActor ─ ZigBeeDeviceActor
     asks actors)         ├─ HostCreatorActor, HostActor ─ DeviceActor (LAN)
                          ├─ MqttClientActor ─ MqttDeviceActor
                          └─ Is1Listener ─ Is1 device actors
    every device actor ── RedirectorActor (TCP socket for the application)

### Inventory

| Component (files) | State | Operations | Hard behaviour | What makes it correct |
|---|---|---|---|---|
| Device actor (`modules/device_actor.py`) | request queue, one lock per request kind, id counter, reservation, `reserve_device_msg`, `return_message`, binary locks, `on_kill` | reserve, free, get value, get status, start/stop monitoring, set RTC, binary command, status update, kill | backend that answers late or never; retries every 0.5 s; 20 s timers; redirector that starts and stops concurrently; clients that wait for one answer | every request answered once; one request at a time at the instrument; reservation exclusive; no lock held for ever; a kill answers everybody |
| Base actor (`base_actor.py`) | `child_actors`, `on_kill`, parent, registrar | setup/subscribe, kill, keep-alive, child exited, dead letters | kill cascade against creation of children; dead letters shut the server down | tree ends when told to; no child left behind |
| Redirector (`redirect_actor.py`) | socket, thread | setup, relay, kill | socket closed by the application at any time | one SocketMsg, exits once |
| Registrar (`registrar.py`) | `actor_dict`, `device_statuses`, `hosts`, `pending`, `rest_api`, watchdog phase | subscribe, unsubscribe, create actor, status updates, watchdog, rescan, shutdown, monitoring | two actors for one instrument; actor replaced while its messages are under way; late keep-alive | both dictionaries agree; one actor per instrument in the end; no false alarm |
| REST API (`restapi.py`, `helpers.py`) | none between calls | one endpoint per operation | ask with timeout, wrong answer shuts the server down | each call gets the answer to its own request |
| MQTT frontend (`modules/frontend/mqtt/mqtt_scheduler.py`) | reservations, one pending control action, buy-ahead caches, `cmd_ids` | control, cmd, status updates, answers | paho thread, two cache threads per instrument, shared conditions; reconnect | answers published to the request they belong to; no reply lost; no thread waits for ever |
| mDNS frontend (`modules/frontend/mdns/*`) | advertised services | dictionary updates, advertise | updates during shutdown | advertised set equals device set |
| Modbus frontend (`modules/frontend/modbus/*`) | register image | poll | – | – |
| USB device actor (`backend/usb/usb_actor.py`) | instrument, inner thread, monitoring state | check connection, binary, values, monitoring, set RTC | reply handlers run in a thread; reservation by the actor itself for monitoring | as device actor, though handlers interleave |
| NetUsb / ZigBee (`backend/usb/net_usb_actor.py`, `zigbee_device_actor.py`) | `blocked`, forwarded flags, channel | reserve/free forwarded to coordinator and siblings | several instruments share one radio channel | at most one reserved at a time |
| Cluster / COM (`backend/usb/cluster_actor.py`, `com_actor.py`, listeners) | ports, child actors, polling flag | rescan, add/remove port, detect | detection thread against messages | one ComActor per port, one device per ComActor |
| LAN device / host (`backend/mdns/device_actor.py`, `host_actor.py`) | HTTP thread, `occupied`, children | HTTP calls, update, ping, scan | threads change the children; stale updates | reservation follows the remote host |
| mDNS listener / host creator | pending hosts | service added/removed | creation through the Registrar | one HostActor per host |
| MQTT device (`backend/mqtt/mqtt_device_actor.py`) | pending states, `cmd_id`, last message | reserve, free, binary, values | lost, duplicated, retained messages | answers matched to requests |
| MQTT client (`backend/mqtt/mqtt_client_actor.py`, `mqtt_base_actor.py`) | hosts, locks, subscriptions | meta, rescan, shutdown, resurrect | reconnect, timeouts | children follow the meta messages |
| IS1 listener (`backend/is1/is1_listener.py`) | sockets, scan thread | connection, scan | one thread per connection | one actor per instrument |
| Main / shutdown (`main.py`, `shutdown.py`) | flag file, ping files, watchdog counters | start, restart, stop | flag written from any process | server stops when flagged |
| Configuration, logging | constants | – | – | not modelled |

The hazards of each, with their source lines and the properties that watch
them, are listed in `PROJECT.json` under `hazards`.

### How the parts interact

- Actors send each other messages, which keep their order between two actors.
  A `wakeupAfter` is a message to oneself. A handler that raises an exception
  gets its message a second time; when it raises again the sender receives a
  PoisonMessage. An actor that exits is reported to its parent by Thespian, in
  addition to the `ChildActorExited` some actors send themselves.
- Every actor subscribes to the Registrar and answers its keep-alive messages.
  The Registrar alone decides which of several device actors of one instrument
  stays, and tells frontends by `UpdateActorDictMsg`.
- A listener, COM actor, host actor or MQTT client creates device actors; its
  own `child_actors` and the Registrar's `actor_dict` are two views of them.
- Threads of an actor (detection, ping, scan, inner thread, buy-ahead, paho
  callbacks) read and write the attributes of the actor without its mailbox.

## 2. Modules

| Module | What it is |
|---|---|
| `DeviceActor` | the device actor, its redirector, its backend and its clients; one action per handled message |
| `DeviceService` | what clients may rely on: answers, exclusiveness, one request at a time; extends `DeviceActor` |
| `ReservationLease` | abstract specification of the reservation, implemented by `DeviceActor` (refinement mapping in `DeviceService`) |
| `BuyAheadCache` | the binary channel of the MQTT frontend: paho thread, actor thread, cache threads, the application behind the broker |
| `DirectLine` | abstract specification of that channel, implemented by `BuyAheadCache` |
| `Registrar` | the Registrar composed with the life cycle of the actors that subscribe to it (`BaseActor`) |
| `SerialPorts` | cluster actor, COM actors with their detection threads, device actors that come and go, the USB listener |
| `Monitoring` | the monitoring mode of a USB device actor: inner thread, timers, reservation |
| `LanHost` | host creator and host actor of a remote server, with ping, scan and information threads |
| `MqttLink` | MQTT frontends of several servers, the broker, and the MQTT client with its device actors |
| `DeviceActor_proofs`, `DeviceService_proofs`, `Registrar_proofs`, `SerialPorts_proofs`, `Monitoring_proofs`, `LanHost_proofs`, `BuyAheadCache_proofs`, `MqttLink_proofs` | TLAPS proofs |
| `MC…` | values of the constants for TLC |

Common to all: one action per handler, or, where threads share attributes,
per stretch of a handler or a thread between two accesses to what is shared.
A handler that has ended leaves its messages and timers in variables from which
later actions take them. Operators next to an action whose comment says "mutant"
are plausible errors in that action; no specification uses them, they
show that the properties would notice.

### DeviceActor

`dev` is one record with the attributes of the actor (the comment at each
field names the Python attribute) and of the messages it has under way. Each
Python method that is called from several handlers is an operator from `dev` to
`dev`, so a handler is one action that applies those operators in the order of
the code, including the trailing `_fifo(None)` and the nested effects of a
backend that answers synchronously.

| Model | Code |
|---|---|
| `ReceiveReserve` … `ReceiveSetRtc` | `receiveMsg_…Msg`, up to the return of the handler |
| `Enqueue`, `Fifo`, `Worker`, `TakeLock`, `Blocked` | `_fifo`, `…_worker`, `_lock_request` |
| `BackendReply`, `ReserveReply`, `FreeReply`, `SimpleReply` | `_handle_…_reply_from_is` |
| `SendReservationStatus`, `SendFreeStatus` | `_send_reservation_status_msg`, `_send_free_status_msg` |
| `RetryWakeup`, `TimeoutWakeup` | `receiveMsg_WakeupMessage` with an `ActionRequest` or a `TimeoutMsg("timeout")` |
| `KillMyself`, `Kill`, `ActorExit` | `_kill_myself`, `KillMsg`, `ActorExitRequest` |
| `RedirectorSetup`, `SocketClosed`, `RedirectorKilled` | `RedirectorActor` |
| `ReceiveSocketMsg`, `ReceiveChildActorExited(Again)` | `receiveMsg_SocketMsg`, `receiveMsg_ChildActorExited` |
| `SetDeviceStatus` | `receiveMsg_SetDeviceStatusMsg`, the Reservation section |

Requests are numbered in the order in which they reach the actor. Time is the
counter `aged`: requests `1 .. aged` are 20 s old or older (requests age in the
order of arrival, which is the only thing the code asks of the clock). A client
asks from a private address and takes the first answer (`Answer`). A handler
that raises an exception has its message delivered a second time and, when it
raises again, returns a PoisonMessage to the sender: that is Thespian's
behaviour, modelled in `Raises`, `FifoFirst` and `Poisoned`. Thespian also sends
its own `ChildActorExited` in addition to the one the redirector sends
(`ReceiveChildActorExitedAgain`).

Four constants switch on what the promises of the actor depend on. `LateReplies`:
a backend may answer a request that is 20 s old. `LateTimers`: the actor may be so busy
that it handles a timer when younger requests are 20 s old, too; otherwise the clock
(`Tick`) waits for the timers. `ExternalUpdates`: `SetDeviceStatusMsg` may
change the reservation. `Renewals`: an owner may reserve again while a request to
reserve, of its own or of another, is being served (`MeetsAnother`).

Abstractions: the backend is any backend. It may answer each request once with
any of `Outcomes`, or lose it; `SyncKinds` are answered inside the worker, as by
the base class for the device status and by the USB backend. Bytes, values,
timestamps and the publication of status changes are left out. In the threaded
backends (USB, LAN) the reply handlers run concurrently with the actor's thread;
here a handler is atomic.

### BuyAheadCache

In `DeviceActor` a step is a whole handler; here it is the code between two
accesses to what the threads share, since the hazards lie between the lines of
`on_cmd`, `receiveMsg_RxBinaryMsg`, `_fill_cache` and `_publish_function`.

| Model | Code (`MqttSchedulerActor`) |
|---|---|
| `OnControl`, `ReplaceCache` | `on_control`, `_process_reserve`, `_process_free` |
| `OnFirstGetNext`, `RememberGetNext`, `MarkFirst` | `on_cmd`, first GetNext: forward, `buy_ahead`, `first_get_next` |
| `OnGetNext` | `on_cmd`, later GetNext: start of `empty_cache_thread` |
| `OnOtherCmd`, `ForgetGetNext`, `ClearCache` | `on_cmd`, any other command |
| `ReceiveReservationStatus`, `UnsetControl`, `WakeFiller`, `WakePublisher` | `receiveMsg_ReservationStatusMsg` |
| `ReceiveReply`, `ReceiveFirstReply`, `StartBuyAhead`, `ReceiveBoughtReply` | `receiveMsg_RxBinaryMsg` |
| `FillCheck`, `FillStore`, `FillSend`, `FillNotify` | `_fill_cache` |
| `PublishSpin`, `PublishCheck`, `PublishCached`, `PublishClear` | `_publish_function` |
| `AppSend`, `AppReceiveReservation`, `AppReceiveMsg` | `MqttDeviceActor` at the other end |
| `Device` | the device actor with its instrument |

`cache[i].lease` numbers the `CachedReply` objects of an instrument; a thread is
identified by instrument and lease, because a reservation that ends leaves its
threads running while the next one's object says that none is alive. The lock of
a `Condition` is held only within one step (test and wait; clear and notify), so
locks need no state of their own; the queues `emptyQ` and `filledQ` of waiting
threads do, and are shared by all instruments as the class attributes are.

`Slow` names outside parties that act only when the server's threads have come
to rest. A serial line needs some ten milliseconds per reply and a broker a
network round trip, the threads need microseconds, so `Slow` is what normally
happens; the code does nothing to guarantee it, and the runs without it show
what depends on it.

Abstractions: a command is forwarded and answered by one frame; every
reservation is granted; the device actor keeps the order of commands; a session
is shorter than the 256 values of `cmd_id`; applications wait for an answer
before they send the next command; the instrument stays connected.

### Registrar

An actor is an address of `Addr`; `Casts` says which id each may take: the same
instrument over several transport technologies, twice over one, frontends. An
address is used once, so a restarted actor is a new address with the old id.

| Model | Code |
|---|---|
| `Subscribe`, `Rivals`, `NewWins`, `FirstComeFirstServed` | `receiveMsg_SubscribeMsg`, `_handle_existing_actor`, `_handle_device_actor` |
| `IsAlive`, `KeepAliveRound`, `Check` | `_is_alive`, `receiveMsg_WakeupMessage` ("keep alive", "check") |
| `UpdateDeviceStatus` | `receiveMsg_UpdateDeviceStatusMsg` |
| `SubscribeToActorDict`, `UnSubscribeFromActorDict` | the handlers of these names |
| `Forget`, `Unsubscribe`, `UnsubscribeDead` | `receiveMsg_UnsubscribeMsg` from the actor itself, from a dead letter |
| `DeadEnvelope`, `Harmless` | `BaseActor.receiveMsg_DeadEnvelope` |
| `ControlOn`, `ControlOff` | `receiveMsg_ControlFunctionalityMsg` |
| `GetDeviceStatuses`, `Integrity` | `receiveMsg_GetDeviceStatusesMsg`, `_check_integrity` |
| `Create…`, `ReceiveFromReg`, `Dies`, `LastChildExited` | `BaseActor`: setup, `KillMsg`, `KeepAliveMsg`, `_kill_myself`, `ChildActorExited` |
| `Remove`, `Hang` | a parent that sends a KillMsg; a process that hangs or dies (`FaultyCasts`) |

`device_statuses[id]` is the actor whose status is stored, since it only matters
whose it is. `stop` is the reason for which `system_shutdown` was called first.

### SerialPorts

| Model | Code |
|---|---|
| `Rescan`, `InstrAddedOrRemoved`, `RescanMsg`, `ComActorExited` | `ClusterActor._rescan`, `_update` and the handlers that call them |
| `AddPortToLoop`, `RemovePortFromLoop` | the handlers of these names |
| `ReceiveSetup`, `ReceiveKill`, `Wakeup`, `DeviceActorExited` | `ComActor`, with `_do_loop` and `_start_polling` |
| `Detect`, `Found`, `NotFound`, `NotAccessible`, `StopPolling` | the detection thread: `_detect_instr`, `_get_instrument`, `_stop_polling` |
| `Plug`, `Unplug`, `Attach`, `DeviceFails`, `DeviceLost` | the listener, the world, the device actor of the port |

`SlowChildren` says that a device actor does not exit before the few statements
by which its creator returns (`StopPolling`); a device actor needs seconds to
talk to its instrument. Without it the loop may be stopped right after it was
started, and `InstrumentIsFound` fails. `stopped` is the flag file that
`system_shutdown` removes: `_start_polling` does nothing without it, and the main program
ends everything some time later, which is left out; `InstrumentIsFound` asks for nothing then.

### Monitoring

`actor` is a record, and the methods of the actor are operators from a state to the
state they leave, because they call each other: every reply runs `_fifo(None)`, which may
serve the next request in the middle of a handler. `lock` is the Reserve lock, the only
one that outlives its handler here; `msg` is `reserve_device_msg`, which a reply reads
that may come much later. `thread` is the one inner thread that may talk to the
instrument, `waiting` those that try again in half a second (`_start_thread`), `starts`,
`resumes` and `fetches` the timers of the monitoring mode. `Reserve`, `Freed`, `Begin`,
`Start`, `Stop` and `Other` are the `_request_…_at_is` methods, `Granted` the rest of
`_handle_reserve_reply_from_is` after its `_fifo`. A thread is atomic, except where it
reads or writes the state of the mode before and after a dialogue with the instrument:
`_setup` is `SetupReads` and `SetupEnds` (thread "setup2"), `_start_monitoring_function` is
`StartMonitoring`, which sets `monitoring_active` (l. 648), and `StartMonitoringEnds`, which
tests it (l. 664) after the serial reads ("reading"). One value with an interval is
monitored (the chains of several are independent). Applications reserve without a
redirector, as over MQTT; module `DeviceActor` has the one that reports later. Not in
the model: requests for values, which hold their lock while the handler runs, and the few
instructions of `_setup` before `self.instrument` is set, in which a request shuts the
server down. `cut` and `crossed` are history variables; see "Known behaviours".

### LanHost

One host and its instruments. `SetupLanDevice`, `Announce`, `Wakeup`, `CreateHost`
and `HostSubscribed` are the host creator with its `pending` list; `Announce` is
the mDNS listener. In the host actor `Ping`, `PingAnswered`, `PingFails`,
`ScanTimer`, `ScanAnswered`, `ScanCreates`, `ScanPrunes`, `Prune`, `ScanEnds`,
`KillNext`, `KillEnds`, `InfoEnds` and `Order` are steps of its threads.
`FindMissing` and `CreateDevice` are two steps, as in the code, for the actor and
for each scan thread (`making`). `Broken` is Python's "dictionary changed size
during iteration", which ends the thread. `Order` is a rescan or shutdown order that
fails, because the server is off line or refuses it with an HTTP error. A scan that is due
waits for one of `Scans` to be idle, so that their number is a bound: the code starts another
thread whatever the others do (l. 289). With two of them the run of `LanHost.cfg` takes
too long with two instruments; with one, `Scans = {scan1, scan2}` and `Instruments = {i1}`,
TLC finds its four properties to hold (2 minutes 42 s). The theorems, but for
`NobodyCollides`, are about any number. `down` is the shutdown by the
Registrar when one instrument gets two device actors of the same id.

### MqttLink

`Comes`, `IsLost`, `IsStopped`, `Sees`, `Forgets`, `Update`, `ObeysUpdate`,
`ObeysScan`, `ObeysShutdown`, `Answers`, `Second` are a server with its
`MqttSchedulerActor`; `retained`, `cmd` and `queue` the broker; `Connect`,
`Disconnect`, `ServerOnLine`, `ServerOffLine`, `InstrumentThere`,
`InstrumentGone`, `GivesUp`, `Exits`, `ReportedAgain`, `Order`, `Timeout` the
`MqttClientActor` and its device actors.
`child_host` is the server the client thinks an instrument belongs to, `prepared`
the one whose topics its device actor uses: the code changes only the former when
an instrument moves. A device actor that gives up leaves the name of its server in
`resurrect`, the one `resurrect_msg` of the client, and is in `leaving` until it has
exited; whichever exit is reported next has that server asked and clears the attribute
(`AskToResurrect`, in `End` and `ReportedAgain`). `unheard` is a history variable: the
instruments that were asked for in vain, when the server did not listen, or when at
the exit of their own device actor another server or none was asked, until a message
speaks of them. A message whose `Since` is older than that of the last one is refused
(`mqtt_client_actor.py:291`); it is the start time of the server, whose messages come in
order, so that this does not happen in the model.

## 3. Runs

| Run (cfg, module) | Bounds | Question | Result |
|---|---|---|---|
| device_live (DeviceLive, MCDeviceActor) | 2 requests of 6 kinds (all but GetRecentValue), redirector, late answers, synchronous status, updates from outside, fair | type, one mutex, every request has its timer, locks are released | holds |
| device_local (DeviceLocal, MCDeviceService) | 3 requests of 3 kinds, 2 owners, no redirector, answers in time or never, timers in time, no renewal that meets another request, fair | order, retries, ids; no client is forgotten; a kill answers all; timed out requests are not executed; everybody is answered in the end; implements `ReservationLease` | holds |
| buy_ahead_download (BuyAheadDownload, MCBuyAheadCache) | 1 instrument, 7 or 9 commands, up to 3 control requests, slow line and broker, fair | implements `DirectLine`: each command gets its own answer, in the end | holds |
| buy_ahead_two (BuyAheadTwo) | 2 instruments, 4 commands each, slow line, fast broker | no wrong answer, no bought reply overwritten | holds |
| buy_ahead_races (BuyAheadRaces) | 1 instrument, 4 kinds of session, nobody slow | cache threads do not miss a signal | holds |
| registrar (Registrar, MCRegistrar) | 3 addresses, 5 casts, watchdog and dying processes in two of them, fair | dictionaries agree; one reachable actor per instrument; frontends see what there is; no false alarm; who has gone is forgotten | holds |
| serial_ports (SerialPorts, MCSerialPorts) | a USB port and a polled interface, 3 changes from outside, fair | ports and COM actors agree; the loop keeps its timer; an instrument that stays is found; a port that has gone keeps nothing | holds |
| monitoring (Monitoring, MCMonitoring) | 4 requests of 6 kinds, 4 configurations, fair | a mode that is wanted and has a cycle starts, resumes and fetches values | holds |
| lan_host (LanHost, MCLanHost) | 2 instruments, 2 changes, one scan thread, white list or mDNS, fair | one host actor; device actors follow the list of the server; off line is shown | holds |
| mqtt_link (MqttLink, MCMqttLink) | 2 servers, 2 changes, fair; 1 instrument, or 2 with 4 messages under way and without orders | nothing of a server that has gone stays; an instrument that was asked for properly is seen | holds |
| regular_pings (RegularPings, MCLanHost) | as lan_host | pings are regular | violated |
| late_client (LateClient, MCMqttLink) | no changes, another client | a client that connects sees the instruments | violated |

**Bounds.** Every `Max…` bounds what comes from outside (requests, changes,
commands); timers, retries, threads and messages are bounded by it and not
otherwise. Three requests are one in the lock, one in the queue and one
arriving. Three addresses are an actor, its rival and a third that meets their
conflict, or an instrument with two frontends. Three changes at the ports are a
port that goes and comes back while something fails; two changes of a host or of
a server, going and coming back, or coming and failing. Four requests to the
monitoring mode are one to start, one to take the instrument away, one to give
it back and one to stop or start again. For the sessions of `MCBuyAheadCache`:
three GetNext in a row fill the cache and the filling thread behind it, the
fourth finds both in the steady state; two reservations let the threads of the
first meet the cache of the second.

**Symmetry.** No SYMMETRY is declared, since most runs check liveness. In
`MCDeviceService` the first owner to reserve is called `a` (`MCInit`), and in
`MCMqttLink` the instruments are at `First`, or one of them at `Elsewhere`, which is no
server that is ever on line: nothing tells the owners or the servers apart. That only `First` is on line at the start is a bound; the other
server may be a ghost in the broker, or come later.

**Fairness.** Actors handle their messages, timers run down, threads that can run
do and come to an end, the broker delivers to whoever is connected: the
operating system's scheduler, Thespian and the HTTP timeouts see to that. In
`LanHost` that includes the answer of a server that is asked: each call ends with
an answer or an exception. Nothing is assumed of instruments (a backend may be
silent for ever, a port may always fail), of clients and applications, of
servers, or of whoever sends KillMsg. The clock of `DeviceActor` ticks.

**Types.** The values each variable may take stand next to its declaration. Type
invariants are checked where they say more than that: that no answer is sent
from an empty `return_message` (`DeviceActor`), that a status is filed for an
instrument of the dictionary and never a mere address (`Registrar`), that timers
and waiting threads are not taken back (`Monitoring`, `BuyAheadCache`).

**Stopping.** `CHECK_DEADLOCK FALSE` where the system comes to rest: when all requests are
served, all sessions over, all changes made, or after the Registrar has shut
the server down.

**Conditions in the properties.** `DeviceLocal` states the conditions under which
the promises of a device actor hold: no redirector, no update from outside,
answers within 20 s or not at all, timers that are handled before younger requests
are 20 s old, and no owner that renews its reservation while another request to
reserve is being served. The device actor under "Known behaviours" shows
why the last two are needed, and `Steady`. With or without them a wakeup is never early
(`Old` in `TimeoutWakeup`): `wakeupAfter` is called some instructions before the time of the
request is taken (l. 252-260), and a wakeup less than these instructions after the 20 s would
find a request that is not old enough (l. 176), and no other would come. `InstrumentGetsActor` and `UnreachableIsEmptied`
are about hosts of the white list, which are scanned again and again; a host that
is only announced has no such repair. `OfflineIsShown` asks that pings go on, which
the code does not guarantee (regular_pings). `InstrumentIsSeenAgain` leaves out
instruments that were asked for in vain (`unheard`; late_client shows one way, the
others are under "Known behaviours"). TLC shows it violated when only the first of two
requests overwritten or sent too early is left out, and, with the second server on line
at the start, when those of moved instruments are not. `StartIsPending` and `MonitoringResumes` leave out a configuration
without a cycle, `ValuesKeepComing` a start that was suspended before its end (`cut`),
`MonitoringResumes` a reservation of the mode that overtook one of an application
(`crossed`): TLC shows each of them violated without its exception, for the reasons under
"Known behaviours". `ViewsAgree` leaves out a frontend with a second actor of the
same id.

### Known behaviours

The models show these, too; they contradict what one would expect of the code
but have no run of their own.

Device actor
- `last_request_id` starts again at 0 when the queue runs empty (l. 1097), so the timer
  of a request that was served may carry the id of a younger one. An actor that is
  busy handles it when the younger one is 20 s old, too; the handler lets the head of
  the queue take the lock, then answers the younger one and releases that lock: the
  request in between is neither in the queue nor in a lock. TLC shows it against
  `SteadyQueueOrLock` with `DeviceLocal.cfg`, five SetRtc requests and
  `LateTimers = TRUE`.
- The answer OK_SKIPPED to a stop request (l. 526) releases the lock of another stop
  request, which was queued while the device was reserved and is at the backend; that
  one, too, is in neither place. StopMonitoring is therefore not among the `Steady` kinds.
- A reserve request overwrites the sender of the request in the Reserve lock
  (`device_actor.py:225`), so a renewal may leave its own client without an answer.
- The redirector of a reservation reports its socket when `reserve_device_msg`
  already is another request's (l. 338): the active reservation changes hands.
- The OK_UPDATED answer to a renewal releases the Reserve lock (l. 923) although
  another request holds it and is at the backend. A third request may then take the
  lock and overwrite `reserve_device_msg` (l. 268), by which the answer to the second is
  judged, so that a client is told OK though another owner has the reservation. TLC
  shows it against `GrantedHasReservation` with `DeviceLocal.cfg`, five requests to
  reserve and `Renewals = TRUE`.
- A free request granted before the redirector has reported its socket leaves
  its answer in `return_message`; `SocketMsg` sends it to the requester of the
  Reserve lock (l. 346), and the client that freed the instrument hears nothing.
- A value request that the reply handler of another kind finds in its lock raises
  an exception for the missing attribute `client` (l. 812).
- The LAN device actor answers a stop request to the sender of the last start request
  (`mdns/device_actor.py:268`); its own sender hears nothing. `BackendReply` has the
  sender of the stop request, as the other backends do.
- With late answers the lease is broken: the answer of a timed out reserve
  request reserves the instrument for nobody who listens.

MQTT frontend
- Two instruments share the conditions of the cache (`mqtt_scheduler.py:67`): a
  signal may wake the thread of the other one, and both wait.
- After a second command within a session a reply bought ahead for the first
  may be published as its answer (l. 463).
- Two instruments reserved at the same time share `pending_control_action`; the
  second reservation is never published (l. 182).
- With a broker faster than the publishing thread a GetNext may find that thread
  alive and be dropped (l. 459).
- Any command but GetNext clears the cache (l. 465), and with it a frame that was bought
  and not yet published. An application that selects something else does not want it any
  more; `NoFrameOverwritten` is only about frames written over each other.
- `_instruments_connected` is never stored, so every update publishes the
  server's meta data again, which makes clients ask for an update; only the limit of one
  update per second ends that. Updates of the actor dictionary are dropped while the
  broker is not connected (l. 152).

Registrar
- With three ways to one instrument, the LOCAL actor may remove an MQTT actor that is
  just replacing a third; no actor is left until the next rescan.

Serial ports
- A port added by the REST API is polled from the next rescan on only
  (`cluster_actor.py:104`): `_rescan` sets up new ports, not known ones.
- A rescan order tells every COM actor of the dictionary, also one that has exited and
  whose ChildActorExited is under way. The dead letter, a SetupComActorMsg, is none of those
  that are expected (`base_actor.py:209-240`) and shuts the server down (`RescanMsg`, `stopped`).

Monitoring
- Without `cycle` in the configuration, which `_check_monitoring_config` does not look
  for, `_start_monitoring_function` frees the instrument and returns (l. 643-647):
  `monitoring_shall_be_active` stays True, and no timer is set.
- The mode is active from l. 648 on, but the timer of the first value is set only
  at l. 665, after serial reads, and only if it still is active. An application that frees
  the instrument in between suspends the mode; ten seconds later it is resumed, active
  and without values for ever (`cut`).
- The reply by which the mode resumes releases the Reserve lock of an application whose
  instrument is being checked, and overwrites its `reserve_device_msg`. The application is
  told OK though the mode has the instrument; if the mode has been suspended again by
  then, the reply reserves in the name of "monitoring", and the timer finds the instrument
  reserved until somebody frees it (`crossed`). The same reply serves the queue: a request
  to stop that is served by it is answered and has no effect, since the mode is active afterwards.
- A free request for an instrument nobody has serves the queue before it writes
  `Active = False` (l. 756): what the queue has just reserved is free again.
- Starting the mode while an application has reserved the instrument starts it all
  the same, when the request had to wait in the queue. Timers to resume and chains of value
  requests accumulate when the mode is stopped and started again. A stop request
  that comes before a delayed start does not cancel the timer. While the clock of
  the instrument waits to be set, reserve requests wait for their timeout.

LAN
- A delayed announcement is lost, because the wakeup handler of the creator tests the
  wakeup instead of its payload (`lan_host_creator.py:76`).
- The host actor and its scan thread may both create the device actor of an instrument
  (`host_actor.py:165`); the Registrar then shuts the server down (`down`).
- A thread that iterates over `child_actors` while it changes dies (l. 337); without
  a white list nothing repeats its work. The information thread may show "functional"
  without instruments until the next one.

MQTT client
- The timeout of a shutdown order looks at `rescan_lock`
  (`mqtt_client_actor.py:556`), and no timeout knows which order set the lock; a second order within
  seven seconds may remove a server that lives.
- When an instrument moves between servers its device actor keeps the topics of the
  first and, when it gives up, is asked for there.
- The client keeps one `resurrect_msg` (`mqtt_client_actor.py:535`). When two device actors
  give up, the second request overwrites the first, and the next exit that is reported,
  of either or of a third, or of one that had been reported before (by itself, then by
  Thespian), has the server asked and clears the attribute (l. 540-547): an instrument is
  asked for when its old device actor still takes the answer, at another server, or not at
  all. It is seen again when its server or somebody else asks for or causes an update.

## 4. Proofs

All theorems hold for every value of the constants that satisfies the named
assumptions of the modules, which TLC evaluates in the runs.

| Module | Theorem | States |
|---|---|---|
| `DeviceActor_proofs` | `Discipline` | the inductive invariant `IInv` |
| | `TypeCorrect` | `TypeOK` |
| | `OneMutex` | `AtMostOneLocked` |
| | `ServedInOrder` | `QueueInOrder` |
| | `RetriesAtHead` | `RetryMeetsHead` |
| | `IdsAscend` | `IdsInOrder` |
| | `NoRequestStuck` | `TimerGuardsRequest` |
| `DeviceService_proofs` | `QueueIsUnanswered` | the inductive invariant `Handed` |
| | `BackendServesWaiting` | `OnlyWaitingGoToBackend` (an action property) |
| | `NobodyForgotten` | `SteadyQueueOrLock` |
| | `NobodyLeftOnKill` | `KillAnswersEverybody` |
| | `ReservationKept` | `ReservationIsLease` (the refinement of `ReservationLease`) |
| | `GrantsHold` | `GrantedHasReservation` (an action property) |
| `Registrar_proofs` | `TypeCorrect` | `TypeOK` |
| | `DictionariesAgree` | `DictsAgree` |
| | `WatchdogIsRight` | `NoFalseAlarm` |
| | `IntegrityNeverFails` | `_check_integrity` never shuts the server down |
| | `EverybodyPresent` | the inductive invariant `AllPresent` |
| | `NobodyOrphaned` | `NoOrphan` |
| | `SingleWay` | `OnePerInstrument` |
| | `DictionaryIsComplete` | with no message under way, the dictionary has exactly the actors that run |
| | `FrontendsSeeAll` | `ViewsAgree` |
| `SerialPorts_proofs` | `LoopHasTimer` | `PollingHasTimer` |
| | `EveryPortServed` | `PortsServed` |
| `Monitoring_proofs` | `TypeCorrect` | `TypeOK` |
| | `WantedIsPending` | `StartIsPending` |
| | `ChainUnbroken` | `ValuesKeepComing` |
| `LanHost_proofs` | `TypeCorrect` | types of the creator, the host actor and its threads |
| | `CreatedOnce` | `HostIsCreatedOnce` |
| | `PingsFollowOneAnother` | one ping at a time, and what the Registrar shows between two of them |
| | `PingsEndInTwoWays` | pings end in the two ways the code has, and in no other (an action property) |
| | `ScansGoOn` | a host of the white list is scanned for ever |
| | `NobodyCollides` | no two device actors for an instrument of the white list while scans do not overlap |
| `BuyAheadCache_proofs` | `TypeCorrect` | `TypeOK` |
| | `DownloadsMatch` | `AnswersMatch` |
| | `NoFrameLost` | `NoFrameOverwritten` (an action property) |
| | `NobodyOversleepsAlone` | `NobodyOversleeps` |
| | `DownloadsOnDirectLine` | every step is one of `DirectLine` or none (the safety part of the refinement) |
| `MqttLink_proofs` | `TypeCorrect` | types of servers, broker and client |
| | `NobodyLeftOver` | `NoOrphan` |
| | `GoneIsForgottenAtRest` | with no message under way, a server that has gone is forgotten |
| | `OnLineIsShownAtRest` | with no message under way, a server on line is known and shown as the broker retains it |
| | `InstrumentIsSeenAtRest` | with nothing under way, a published instrument has its device actor |

*Device actor*, for any number of requests, owners and kinds, any `SyncKinds`,
with late answers and outside updates or without. None of the properties is
inductive alone: that a retry meets the head of the queue depends on the order
of the queue, that on the locks' requests being older than the queue, and the
timers on all of these. `IInv` joins them (`Sound`: attributes typed,
`LocksSound`, `QueueSound`, `RetriesSound`). The argument goes bottom-up: reply
handlers only release locks (`Releases`), a worker then keeps the discipline
(`Advances`), receiving a request keeps it, a timeout keeps it, hence every
action does.

*Device service.* `Handed` adds to `IInv` that nobody in the queue is the sender of
a lock, that the backend works on requests older than the queue, and that nobody in
the queue has been answered unless the device is being killed. It is proved without
conditions, and `OnlyWaitingGoToBackend` follows from it together with what a step
adds to the jobs (`Starts`). That nobody is forgotten needs `RedirectOwners = {}`, no
`LateReplies` and no `LateTimers`: its invariant is `Attentive`, where `Tended` says that a
request of a steady kind without an answer is in the queue or in the lock, and a job
younger than 20 s in the lock; and `Punctual` that the timers are handled in
time, so that a timeout hits the oldest request of all. `Tended` carries the set of the
requests whose handlers have ended, since a request is neither in the queue nor in
the lock in the middle of its own handler.

*Lease.* `LInv` joins `IInv`, `Handed` and `Leased`: the request to reserve that the
backend works on holds the lock and is the one `reserve_device_msg` names, and whoever
would be told its answer is that request or has been answered (`Serves`). Every
handler is then followed method by method as a `LeaseStep`: it `Returns` (the
reservation stays, is given back or is kept by its owner, and nobody is told OK),
`Grants` it to one client, or `Refuses` one; `LeaseStepRefines` maps these to the
actions of `ReservationLease`, and `UNCHANGED` to a stutter. The hypotheses: no
redirector, no update from outside, no late answers, no renewal that meets another
request, and `Free` is not answered inside the worker. The last one is about
granularity: after a KillMsg one reply handler may run the worker of a free request,
which frees at once, and then reserve for another owner, which is two steps of the
lease in one. The USB actor answers that way, so for it the lease is neither run nor
proved. `GrantsHold` does not hold with renewals (see Known behaviours).

*Registrar*, for any set of addresses, any ids and casts. `DictsAgree` is inductive
with the types of the three dictionaries: the proof follows `Subscribe`, which
touches both dictionaries for two ids at once, and `Forget`, which must not
remove the entry of a successor. That the integrity check never fails is a
consequence. `TypeOK` needs the types of mailboxes, hence a lemma for each
combination of messages a handler sends. `NoFalseAlarm` speaks of the moment of the
check; the induction needs `SilentIsExcused` for the time since the round: an actor
of the dictionary that has not answered is mute, or its answer, its UnsubscribeMsg,
the question to it or the dead letter is still under way. `DictsAgree` is
needed as well, since answers are booked by id and departures by address. That
nothing is under way at the check (`Answered`) is the assumption on
`WAIT_BEFORE_CHECK`.

The other three speak of the moment when the messages are handled, and each needs an
invariant of what holds before. `AllPresent`: an actor that runs is in the dictionary,
or its subscription is under way, or it is doomed (told to go, on its way out, or
mute); with it, that an actor subscribes once and first, that who is refused is not
in the dictionary, and that who has gone has said so or its dead letters will.
`DictionaryIsComplete`, the safety core of `GoneIsForgotten`, needs nothing else.
`OneIsDoomed`: of two actors of the dictionary that are ways to one instrument one is
doomed; whoever enters was compared with all that were there, and who is doomed
stays so. `UpToDate`: a frontend that runs has its SubscribeToActorDictMsg under way
or is subscribed, and then the last dictionary in its mailbox, or what it has seen
when there is none, is that of the Registrar. The hypothesis `Alone` of `ViewsAgree`,
that no second actor has the id of the frontend, is needed there, since
`get_updates` belongs to the id.

*Serial ports*, for any set of ports. `PollingHasTimer` is inductive with the types
of the polling attributes. `PortsServed` speaks of the moment when all messages are
handled; its strengthening `Served` says what is under way before: a COM actor
without a port has a KillMsg in its inbox or the cluster actor has news, a
port without a COM actor waits for news (`Attended`). `RescanServes` shows that
`_rescan` establishes it from any state of the ports.

*Monitoring*, for any number of requests. `Sound` says of the actor that its state has its
type and is `Good`: `Pending`, as in `StartIsPending`, and `Kept`, which asks for the chain
of fetches also while a timer is to resume the mode; a suspension leaves the chain
and sets that timer in the same step, so `Kept` is inductive and `ValuesKeepComing` alone
is not. There is a lemma for each method, that it `Leaves` a good state, the thread that is
alive in its place and a timer to resume if there was one; the steps compose them.

*LAN host*, for any instruments, scans and changes; `ThreadAssumption` says that scan
threads are not the ping thread. `OneHost` adds that a host that has been created is in
`pending` until it is in the actor dictionary, where it stays. `Pinged` adds to it that
a due ping and a ping under way exclude each other; the steps of all others leave the
ping alone (`PingUntouched`), so that `PingsEndInTwoWays` has only the ping's own steps to
look at: `PingsGoOn`, which is violated, fails in these two ways only. `ScansGoOn` is what
repairs the device actors afterwards, the part of `InstrumentGetsActor` and
`UnreachableIsEmptied` that needs no fairness. `NobodyCollides` follows from `Apart`: whoever
is about to create a device actor is the scan, and the actor is not there. It has two
hypotheses, the white list and one scan at a time; with mDNS the actor's own thread
creates device actors too and `down` can be reached.

*Buy-ahead cache*, for any number of instruments and sessions of any length. `TypeOK`
is proved without conditions; its core is that the queue of either Condition lists
exactly the threads that wait (`Lists`), so that a notify wakes one of them. The other
theorems make up two groups, each with its inductive invariant.

`DownloadsMatch` and `DownloadsOnDirectLine` have two hypotheses: the instrument is slow
(`"instrument" \in Slow`), and a session holds one download (`OneDownload`: a
reservation, commands that select, then nothing but GetNext). The broker may be fast, the
instruments share the two Conditions, and `buy_ahead_two` is an instance. Neither can
be dropped: TLC finds a wrong answer with a fast instrument (`Slow = {}`), and one in a
session with a second download, where the command that selects it meets the frames
bought in excess, even with a slow instrument and a slow broker. `Sound` says of each
instrument how far the last command has come (`Reserving`, `Selecting`, `Done`,
`Downloading`). In a download there is one buy-ahead at a time (`BuysOnce`: its command,
its reply, or the thread that stores the reply), and the frames given are those
published and those in hand: before the next frame is published
`pos + 1 = Position + InHand` (`Asked`), afterwards `pos = Position + InHand` (`Served`),
where `InHand` counts the frame on its way to the cache and the one in it. What keeps
the answers apart is that the publisher is past its message when the application can
ask again. A notify may wake a thread of another instrument; all that this does to
the other one is that a waiting thread checks again (`Alike`, `Woken`).

`NoFrameLost` and `NobodyOversleepsAlone` assume nothing of anybody's speed or of the
commands after the first, but one reservation per session (`OneReservation`). Their
invariant `Single` follows the control command to its CachedReply (`Leased`: while the
reservation is under way the lease is 0 and no cache thread runs, afterwards it is 1,
so there is one thread of either kind), and says that between the check and the store
of the filler the cache stays empty (`Watched`). With a second reservation and nobody
slow the threads of the first still write into the cache of the second, and TLC finds
a frame overwritten. `NobodyOversleepsAlone` further needs `OneInstrument`: a notify may
wake the thread of another instrument, and with two instruments TLC finds a publisher
asleep over a filled cache. The run `buy_ahead_races` goes beyond the theorem, with
sessions of two reservations.

*MQTT link*, for any finite number of servers and instruments (`FiniteAssumption`: a
server goes through its instruments in some order, which is a sequence only of a
finite set) and any number of changes. What a server publishes is a sequence of
messages about its instruments that ends with one about itself; `ServerStep` sums up
all its actions in this form, and the client's part of the proof uses nothing else of
them. `NoOrphan` follows from `Known`: a client knows the servers it has subscribed to, and
only their device actors exist. It is inductive with the types alone, since each
handler removes the server, its subscription and its device actors in one step.

The three theorems *at rest* need what is under way. `Agreed` compares the last message of a
server about itself with what the broker retains and with what the client shows: as
long as the client is connected, the last message says what is retained, and when
there is none the client shows it already (`InStep`); of a server that has gone the
last message says so (`Farewell`). `Unspoiled`: a message that would take the device
actor of a published instrument from its server, since it says that the
instrument has gone or is at another server, is followed by a message of the server
itself, at which the client asks for an "update". `Tended`: a published
instrument has its device actor, or the server is about to answer, has an "update" in
its mailbox, or has a message about itself under way. `Linked` joins all of them. The
condition of `InstrumentIsSeenAtRest`, that the instrument is not `unheard`, is that of the
liveness property `InstrumentIsSeenAgain`, whose safety core it is: what is left to
TLC is that the messages do arrive, the device actors exit and the requests are obeyed. A
device actor that gives up does not spoil `Tended`: as long as it has not exited, the
client has it, and at its exit its server is asked (`Ending`) or the instrument becomes
`unheard`; the requests of other instruments take nothing back. `OnLineIsShownAtRest` and
`InstrumentIsSeenAtRest` are about servers of which the broker retains something. In the same way
`GoneIsForgottenAtRest` is the core of `GoneIsForgotten`.

**Model-checked only.** All liveness properties, and the fairness in
`BehavesLikeDirectLine`: TLAPS does not prove them. Every safety property of the runs is
stated by a theorem; some theorems cover less than the run: `NobodyOversleeps` for
sessions with several reservations, and `AnswersMatch` where a reservation ends with
`free`, for which no inductive invariant has been worked out.

## 5. What could come next

1. Interleavings within the handlers of the device actor in USB and LAN backends,
   whose reply handlers run in threads (`usb_actor.py:410`).
2. The binary channel of the device actor with its 256 locks.
3. The lease of a device actor whose backend answers inside the worker, with an
   abstract lease that may change hands by way of nobody in one step.
4. Instruments on an RS-485 bus in `SerialPorts`; the value, monitoring and RTC
   requests of the MQTT control topic.

## 6. Not modelled

Configuration and logging, string conversions, the SARAD wire protocol (a
separate library), HTTP endpoints and formatting, Modbus registers and LED
states, zeroconf itself, start and stop of the processes (`main.py`), the
firmware of coordinators (`net_usb_actor.py`, `zigbee_device_actor.py`), the IS1
protocol. Of the modelled components: the binary channel of the device actor, the
relay of host and monitoring messages through the Registrar, RS-485, the LAN
device actor's HTTP calls (their outcomes are the backend of `DeviceActor`), trees
of actors deeper than two levels, persistent sessions of the MQTT client and its
clean-up after another server with the same id, the exceptions of paho's
callbacks when a dictionary changes under them. In `MqttLink` a device actor that
the client tells to go is gone before the next message of the broker is handled; a
message that meets one on its way out is lost there. One that gives up takes its time. `PROJECT.json` gives the
reason for each component.
