# WL-hosted: a TLA+ verification development

WL-hosted joins a *host* (an MCU or a POSIX system) to a *coprocessor* that
owns the radios.  Two portable C cores, `host-core` and `coproc-core`, talk
over a packet transport (SDIO, USB, SPI) in frames that carry RPC messages or
raw records (Ethernet frames, HCI packets, OTA chunks).  This directory models
the logic of the two cores, model-checks it with TLC and proves its central
invariants with TLAPS.  Everything is translated from the C code; the
documents under `doc/` and `protocol/spec/` are used only to say what the code
is expected to do.

## 1. The system

### Components, their state and their operations

| Component (source) | State | Operations | What makes it correct |
|---|---|---|---|
| Host control plane (`host-core/src/host.c, host_rpc.c, host_link.c, host_frame.c, host_wire.c`) | link state, session id, credit per channel, table of pending RPCs, job queue, core task, transport requests | `wlh_host_start/stop`, `wlh_host_rpc_request`, sends, transport completions, `wlh_host_on_frame`, deadlines | every accepted call ends once; nothing outlives its link or session; stop and recovery end |
| Host Ethernet transmit (`host_ethernet.c, host.c, host_wire.c`) | slot semaphore, records queued per channel, credit, the frame being filled, the deferred job | `ethernet_send`, `aggregate_ethernet_jobs`, frame send, `tx_complete` | slots conserved; what is admitted is covered by credit; order kept |
| Host Ethernet receive (`host_frame.c`) | units consumed and not returned | delivery, flush at the heartbeat or at half a window | the coprocessor's window is returned exactly |
| Host Bluetooth HCI and OTA stream (`host_bluetooth.c, host_ota.c`) | records admitted and not handed on, the latch that stops HCI | sends, HCI frames, faults | an admitted record finds credit; a refused application is told when there is some; the window is returned |
| Host service facades (`host_wifi.c`, `host_io.c`, ...) and completions | buffers lent from call to callback | encode arguments, call `wlh_host_rpc_request`, decode the answer, run the callback | each buffer has one owner and is freed once; a callback runs once |
| Coprocessor control plane (`coproc-core/src/coproc.c, coproc_link.c, coproc_rpc.c, coproc_wire.c, coproc_frame.c`) | state, session and id counters, credit, job queue, heartbeat clock | `wlh_coproc_start/stop`, events, `wlh_coproc_on_frame`, Hello, credit, heartbeat | a session is opened once; answers belong to their request and session; heartbeats flow |
| Coprocessor Wi-Fi and ETH services (`coproc_wifi.c, coproc_eth.c`) | one slot per asynchronous operation | INITIALIZE, GET_INFO and their completions | an operation answers its request only, and its slot is freed |
| Coprocessor Ethernet receive (`coproc_frame.c`) | units gathered, the mark of a queued wake | `wlh_coproc_ethernet_rx_complete`, flush, retry, reset | units conserved per session; a full batch wakes the task |
| Coprocessor Ethernet transmit (`coproc_ethernet.c, coproc.c`) | slots, deferred job | as on the host, without admission by credit | slots conserved |
| Coprocessor Bluetooth (`coproc_bluetooth.c`) | controller state, the latch that stops HCI, reserved units, the pending operation | INITIALIZE, ENABLE, DISABLE, DEINITIALIZE, GET_INFO and their completions, fatal errors, HCI in both directions | the state is the controller's; reserved units match the packets that wait; a backend without credit is told when there is some |
| Coprocessor OTA (`coproc_ota.c`) | update state, transfer id, bytes accepted and durable, the pending operation | BEGIN, FINALIZE, ABORT, ACTIVATE, chunks, completions of operations and writes | the chunks cover the image once; only a verified image is activated; the window is returned |
| Immediate services (`coproc_io.c, coproc_adc.c, coproc_kv.c, ...`) | none kept between requests | one answer per request | - |
| Codecs (`protocol/src/wire.c, raw_record.c`) | none | encode, decode, iterate | decoding inverts encoding; iteration stays in bounds |
| OSAL (`common/osal/src`) | queues, semaphores, events, tasks | POSIX, FreeRTOS and RT-Thread versions | bounded FIFO, counting semaphore, event bits; nobody sleeps beside what it waits for |

### How they interact

Each core has one *core task* that serves one bounded FIFO *job queue*.  API
calls, transport callbacks and backends, all on threads of their own, put jobs
in the queue; the task handles one at a time under `state_mutex`.  A few paths
by-pass the queue: `ethernet_send` reads credit and counters under the mutex
on the caller's thread; `tx_complete` gives slots back on the transport's
thread without it; `wlh_coproc_ethernet_rx_complete` gathers units under the
mutex on a backend's thread and queues a wake after releasing it.

Across the link, the host says Hello; the coprocessor opens a session, grants
credit per channel and answers.  Every frame but those of LINK_CONTROL costs
its sender credit, which the receiver gives back with CREDIT_UPDATE.  The
coprocessor sends heartbeats; the host restarts the transport when it is
silent for too long in READY.

### What is hard here

* A job is handled in a state other than the one it was queued in: the link
  may have been lost, the session changed, the host stopped and started.
* Response, deadline, cancellation and refusal race for one call; a backend's
  completion races a Hello, a restart and the next operation.
* Bounded resources are taken and returned on different threads: queue slots,
  transmit slots, credit, pending entries, one-slot operations.
* Several failures are silent: a full queue drops a frame or the report of a
  lost transport; a send without credit changes the state and drops the frame.
* Sleep and wake: the task sleeps without a deadline in most states, and relies
  on somebody to queue a job.
* Two ends decide on their own: a Hello or its answer may be old, a frame may
  be of the session before, a lost frame takes credit with it, and a rebooted
  coprocessor hands out the same session ids again.

`PROJECT.json` lists each hazard at its line with the properties that guard it.

## 2. The modules

| Module | Models | Proofs |
|---|---|---|
| `HostCore` | the host control plane | `HostCoreProofs` |
| `RpcClient` | what `wlh_host_rpc_request` promises its caller (abstract) | implemented by `HostCore`, proved |
| `HostEthernetTx` | the host's Ethernet transmit path | `HostServicesProofs` |
| `HostStreams` | the host's HCI and OTA records | `HostStreamsProofs` |
| `HostCalls` | the host's service facades, their buffers and callbacks | `HostServicesProofs` |
| `CoprocCore` | the coprocessor control plane and its asynchronous operations | `CoprocCoreProofs` |
| `CoprocEthernetRx` | how the coprocessor returns Ethernet credit | `SharedProofs` |
| `CoprocOta` | the coprocessor's firmware update service | `CoprocOtaProofs` |
| `CoprocBluetooth` | the coprocessor's Bluetooth service and its HCI packets | `CoprocBluetoothProofs` |
| `LinkSession` | both cores' session layers and one Ethernet channel, over links that lose frames | `SharedProofs` |
| `OsalContract` | what queues, semaphores and events promise (abstract) | implemented by `PosixObjects`, proved |
| `PosixObjects` | those objects of the POSIX OSAL; implements `OsalContract` | `SharedProofs` |
| `OsalCalls` | the calls both of them speak of | |
| `QueueCounts` | counting the jobs of a queue (helper) | `QueueCountsProofs` |
| `MC...` | instances for TLC | |

`HostServicesProofs` and `SharedProofs` hold the proofs of two and three modules,
one part for each: what an application calls of the host, and what both ends
rest on.

Definitions named `...Always`, `Keeps...`, `...IfReady` and the like, placed
just before a definition of the model and called a *slip* in its comment, are
plausible mistakes in that code.  No specification uses them; they show
that each property notices the mistake (`mutants` in `PROJECT.json`).

`HostCore` and `CoprocCore` each have all jobs of one core and a free
environment in place of the other; `LinkSession` composes what of the two
decides on sessions and credit.  The service modules each have one service in
full and the core only as far as it disturbs that service.  All of them take
the queue for a bounded FIFO and the semaphore for a counter: that is
`OsalContract`.

### HostCore

One action is one critical section.  `state`, `session`, `credit`, `pending`,
`queue` and `started` are the fields of `wlh_host_t`; `worker` and `stopper`
are the core task and the thread inside `wlh_host_stop`; `startOps`, `stopOps`
and `up` are the transport; `granted`, `arrived`, `sent` and `peerAlive` are
the coprocessor and the link.  `accepted`, `outcome` and `dropped` are history:
the calls the API accepted, the results their callbacks were given, the calls
destroyed with the queue.

| Code | Action |
|---|---|
| `wlh_host_start`, `wlh_host_stop` | `Start`; `StopCall`, then `StopReturns` or `StopTimesOut` |
| `wlh_host_rpc_request`; a raw-record send | `RpcRequest`; `DataSend` |
| `host_process_deadlines` | `RpcDeadlines`, `HeartbeatTimeout` |
| one job in `host_worker` | `HandleStop`, `HandleRpcRequest`, `HandleDataTx`, `HandleTransport...`, `HandleFrame` |
| `process_frame` and what it calls | `HandleSessionMismatch`, `HandleHello`, `HandleHelloReject`, `HandleResponse`, `HandleCreditUpdate`, `HandleSessionChanged`, `HandleOtherFrame` |
| `transport_start_complete`, `..._stop_complete`, `wlh_host_transport_lost` | `TransportStartCompletes`, `TransportStopCompletes`, `TransportLost` |

The coprocessor of this module is external: it opens sessions with growing
ids, the link keeps order and loses what it likes.  Sequence numbers and
diagnostics are left out, since no decision of the host depends on them; the
executors for events and completions are left out too, so a callback runs
inside the action that decides it, which is the code's behaviour without an
executor.  Assumed of the application: it starts the core once, and not while a
stop is under way.  `wlh_host_start` looks at the state only, which would not
refuse it in every such case.

`RpcClient` is the contract: a request is accepted, perhaps sent, and then
either finishes once or is dropped; only a sent request can finish with OK.
`HostCore!ClientSpec` is its `Spec` under the identity mapping of
`accepted`, `sent`, `outcome`, `dropped`.

### HostEthernetTx

Combining records is one action per record (`Merge`, `Defer`), because threads
use the semaphore and the queue meanwhile.  Taking a slot (`TakeSlot`) and the
rest of `ethernet_send` (`Admit`, `Refuse`) are separate steps of a thread.
Popping a job and taking the mutex are one step: nothing reads the queue from
outside.  `stale` is history: how many of the waiting records were admitted
before the credit was last replaced; so is `orphaned`, the records destroyed
with the queue by a stop and still counted in `queued`.  Assumed: no thread is inside
`ethernet_send` when `wlh_host_stop` returns, and the adapter has completed
every frame before its stop completes (`doc/lifecycle.md` leaves the second
open; it is listed as a hazard).

### HostStreams

A sending thread is admitted under the mutex and queues its record after it;
the two are separate steps, and everything below may happen between them.

| Code | Action |
|---|---|
| `wlh_host_start`; the STOP job and `wlh_host_stop` | `Start`; `Stop` |
| `process_transport_lost`, `handle_session_changed`; a mismatch in `process_frame` | `LoseSession`; `HandleOtherSession` |
| `handle_hello_response` | `OpenSession` |
| `wlh_host_bluetooth_hci_send`, `wlh_host_ota_stream_send` | `Admit` or `RefuseForCredit`, then `Enqueue` or `GiveUp` |
| the BLUETOOTH_TX and OTA_TX jobs; CREDIT_UPDATE | `HandleRecord`; `CreditUpdate` |
| `wlh_host_on_frame`; `process_hci_frame` | `OnFrame`; `HandleFrame`, `HandleMalformed`, `HandleFrameStopped` |
| STATE_CHANGED | `HandleStateChanged` |

`inflight` counts promises: units of credit set aside for records admitted and
not yet handed to the transport.  History: `crossed`, the records that were
admitted in an earlier session and handled in this one; `abandoned`, the
promises of records destroyed with the queue; `waiting` and `freed`, a refused
application and whether credit came free without a call of it; `gone`, the
units of the receive window that are not coming back.  The coprocessor never
has more HCI frames under way than its window.  Left out: OTA frames to the
host, which change none of its state.  Assumed: no application thread is
inside a send when `wlh_host_stop` returns.

### HostCalls

The facades differ in four ways only: whether a session's service guards
them, whether they keep the callback in a request buffer, whether they build
the message in a buffer, and whether they decode the answer into one.
`Shapes` are the combinations that occur, by method.

| Code | Action |
|---|---|
| a facade; its allocations; its early returns | `Call`, `Allocate`, `RefuseCall` |
| the end of `wlh_host_rpc_request`; what the caller frees after it | `QueueJob`, `Release`, `Return` |
| the RPC_REQUEST job; response, deadline, loss | `ProcessRpcRequest`; `Settle` |
| `dispatch_completion`; the task in the executor | `Dispatch`; `RunTask`, `TaskReturns` |
| start, stop, sessions | `HostStarts`, `BeginStop`, `HostStopReturns`; `SessionChanges` |

A buffer has an owner (the call's thread, the queue, the core task, the
executor) and a role.  A request buffer changes hands when the job is queued:
from there on the caller must not free it, and the callback must.  `holding` are
the buffers a caller has; `accepted`, `called` and `lostJobs` are history.

### LinkSession

A channel is the frames on the wire and in the receiver's job queue, in order.

| Code | Action |
|---|---|
| host: an Ethernet send; its job | `Admit`; `HandleEthernetTx` |
| host: `process_frame` and what it calls | `HandleSessionMismatch`, `HandleHelloResponse`, `HandleCreditUpdate`, `HandleHeartbeat` |
| host: deadline and transport | `HeartbeatTimeout`, `HandleTransportStopped`, `HandleTransportStarted` |
| coprocessor: `handle_hello_request`, `send_hello_response` | `HandleHelloRequest`, with the three ends of `SendHelloResponse` |
| coprocessor: `process_frame`, Ethernet | `HandleData` |
| coprocessor: credit; heartbeat | `ReturnUnits`, `CoprocCreditUpdate`; `EmitHeartbeat` |
| faults | `LoseToCoproc`, `LoseToHost`, `TransportLost`, `Reboot`, `CoprocCongested` |

Sessions are numbered as they are opened, so that the model can tell them
apart; `wireId` is the id each has on the wire, which starts again after a
`Reboot`, and every comparison the code makes is a comparison of wire ids. A
lost frame leaves a gap in the sequence, and the coprocessor returns one unit
per number skipped, at once or with the next return (`Skipped`). `lost`,
`foreign`, `refunded`, `dropped` and `epoch` are history.  `epoch` counts how
often the host began its sequence again, so that a frame has a number of its
own, its epoch with its place in the sequence; `refunded` and `dropped` are the
numbers of frames a unit was returned for and of frames that were lost.  At
most one heartbeat is under way.  A congested coprocessor may send one, as a
wake for something else makes it do, and `CoprocCreditUpdate` makes it READY
again: an update of the credit of its own sends, which is not in the module
itself.  Left out: `wlh_host_stop` and `wlh_host_start`, the coprocessor's own
data, malformed frames, and the wrap of the sequence at 2^32.

### OsalContract and PosixObjects

`OsalContract` is the atomic view: every call takes effect at once or fails.
`PosixObjects` has the mutex and the condition variables: `Begin`, `Lock` or
`LockFails`; `Wait`, then `TimesOut` or a wake, `WakesSpuriously` included;
`Send`, `Receive`, `Take`, `Give`, `AwaitBits`, `SetBits` take effect and
signal; `GiveUp` and `Leave` end the call.  The queue is the ring buffer of
the code (`head`, `count`, `storage`), and `Value` maps it to a sequence.
`swallowed` is history: a wait that timed out took a signal.

### CoprocCore

The top of the loop and the handling of a job are one action each.  Requests
are model values, sent once; a response records the session of its frame and
whose result it carries.  `ops` are the operations the backends are working
on; after a Hello, a stop or a restart they still complete, which is the point
of `AnsweredOnce`.  A Hello that is malformed or finds no buffer is
`HandleHelloIgnored`; `SendHelloResponse` has the three ends of
`send_hello_response`.  A frame's session is any the coprocessor has opened so
far.  Left out: sequence numbers and the refunds that ride on the free
LINK_CONTROL channel, Bluetooth and OTA completions, and the test hook
`wlh_coproc_test_reset_session`.  Assumed, as in `HostCore`: the application
starts the core once, and not while a stop is under way.  The Ethernet retry appears as the wait
"retry"; `CoprocEthernetRx` has its detail.

### CoprocEthernetRx

Threads inside `wlh_coproc_ethernet_rx_complete` are seen at their two steps:
`RxComplete` (under the mutex) and `EnqueueWake` (after it, counted by
`wakers`).  A Hello always resets what is gathered, and then has two outcomes:
without a buffer for its response the session goes on (`HelloKeepsSession`),
with one it is over (`HelloEndsSession`).  `held`, `owed` and `discarded` are
history: records the backend holds by channel and session, units of the present
session taken and not returned, and those of them a Hello has thrown away while
the session went on.  A host never has more than its window outstanding
(`Arrives`), so the saturation at `UINT32_MAX` is out of reach.  (Records of an
old session can add to that in the code; `LinkSession` counts them in
`foreign`.)  An immediate update that fails is lost, as in the code, and leaves
`owed` alone.  Assumed: no backend thread is inside the function when
`wlh_coproc_stop` returns.

### CoprocOta

The service runs in the core task; a frame or completion that waits in the job
queue is one that arrives later, so the queue is left out.  A request that is
answered with BUSY, NOT_READY or NOT_FOUND changes nothing and is no action;
neither are QUERY and PROGRESS.

| Code | Action |
|---|---|
| `handle_ota_begin`, `_finalize`, `_abort`, `_activate` | `Begin`, `Finalize`, `Abort`, `Activate`, each with the backend accepting or refusing (`Submit`) |
| `process_ota_frame` | `ChunkTaken`, `ChunkRefused` (by the backend), `ChunkRejected` (its own check) |
| a frame that is lost or finds the wrong state | `ChunkDropped` |
| `ota_operation_completed`, `ota_write_completed` | `OperationCompletes`, `WriteCompletes` |
| `ota_reset` inside `handle_hello_request`; the STOP job | `Hello`, `Stop` |

`size`, `accepted`, `received`, `pending` are the fields `ota_image_size`,
`ota_bytes_accepted`, `ota_bytes_received`, `ota_pending`; `ops` and `chunks`
are what the backend holds, which goes on after a Hello, an abort or a stop.
History: `images`, `verified`, `activated`, and the transfer and session in an
operation or a chunk.  `credit` is what the host may still send, `lost` the
units whose update was not sent or whose chunk never arrived, `extra` the units
that came from chunks of an earlier session.  The backend is external: it
completes each operation and each chunk at most once, in any order, and reports
a number of durable bytes that is not above the truth.

### CoprocBluetooth

The service's handlers run in the core task; a backend's threads run
`wlh_coproc_bluetooth_hci_send`, which reserves a unit under the mutex and
queues the packet after it.  The job queue is kept only as far as it holds
packets, whose order and age matter; other jobs may take the rest of it, so a
packet finds it full at any time (`GiveUp`).

| Code | Action |
|---|---|
| `handle_bluetooth`, where it reaches the backend | `Request`, accepted or refused; requests answered at once change nothing |
| `bluetooth_operation_completed`, `bluetooth_info_completed` | `OperationCompletes` |
| `bluetooth_enter_error`, from a fatal error or a malformed frame | `EnterError` |
| `wlh_coproc_bluetooth_hci_send` | `Reserve` or `RefuseForCredit`, then `Enqueue` or `GiveUp` |
| the BLUETOOTH_TX job; CREDIT_UPDATE | `HandleTx`; `CreditUpdate` |
| `handle_hello_request`; start and stop | `Hello`, `HelloRefused`; `Start`, `Stop` |

`ops` are the operations at the backend, which go on over Hellos and stops.
History: `epoch` counts Hellos; `controller` is where the operations of this
epoch have brought the controller; `overtaken` says that the latch was set
while an operation was pending; `crossed` counts the packets reserved before
the last Hello and done with after it; `waiting` and `freed` follow a backend
that was refused for credit; only units of HCI count as freed.  A report that
finds no credit on its own channel is dropped and changes nothing.  Left out:
well-formed frames from the host and the unit they return, the contents of
answers and events, CONGESTED (see `CoprocCore`).  Assumed: no backend thread
is inside `hci_send` when `wlh_coproc_stop` returns; the backend completes an
operation once, by the function of its method; the host returns units it was
sent.

## 3. What TLC checks

| Run | Instance | Shows |
|---|---|---|
| `host_core` | 2 calls, queue 2, table 2, 2 sessions, credit 1 | `TypeOK`; `CallsAccounted`: every accepted call is in exactly one place and no callback runs twice; `NoCallOutlivesLink`; `SessionGivenUpFirst`; `ClientSpec`: the core implements `RpcClient` |
| `host_settles` | 2 calls, table 1, 1 session, a coprocessor that may die | `AcceptedCallSettles`: no accepted call hangs while the core task runs |
| `host_tx` | 2 threads, 2 channels, 2 slots, queue 2, 2 records per frame | `TypeOK`, `SlotsConserved`, `CountersExact`: the admission counters are the records that wait, but for those destroyed with an earlier queue; `AdmittedIsCovered`, `ServedInOrder`, and `SlotsComeBack` under fairness |
| `host_streams` | 2 threads, queue 2, credit 2, receive window 1, 2 sessions | `PromisesCounted`: a promise outlives its record only when the queue was destroyed, and a record of the session has its promise unless one of an earlier session took it; `AdmittedFindsCredit`; `RefusedIsTold`; `WindowAccounted` |
| `host_calls` | 2 calls of every shape, 4 buffers, queue 2, table 1 | `CallsTypeOK`; `BuffersHeld`: every buffer that is taken has an owner who will free it; `CalledBackOnce` |
| `coproc_core` | 2 requests, 1 service, queue 1, 2 Hellos, credit 1 | `TypeOK`; `AnsweredOnce`: a request is answered at most once, in its session, with its own result; `OperationEnds`: a service does not stay BUSY for ever |
| `coproc_rx` | 2 channels, window 2, queue 1, 2 sessions, 1 waker | `TypeOK`; `UnitsConserved`: no unit is returned twice or in another session, and one way only loses units the backend took in a session that goes on (`discarded`); `BatchWakes`, and `UnitsReturned` under fairness |
| `coproc_ota` | images of 3 bytes, chunks up to 2, alignment 2, window 2, 2 sessions, 2 transfers, 4 operations | `TypeOK`, `ActivatesVerified`, `ChunksTile`, `ReportedIsDurable` in every state that names a transfer, `CreditAccounted` |
| `coproc_bluetooth` | 2 threads, windows 2 and 1, 2 packets queued, 2 Hellos, 2 operations | `StateFollowsBackend`: in a session the core takes the controller to be where its operations have brought it; `EnabledCarriesHci`; `ReservationsCounted`; `AcceptedFindsCredit`; `WaiterIsTold` |
| `link_session` | window 2, 2 records per frame, 2 waiting, 3 frames per channel, 2 faults | `CreditConserved`: while the ends agree on a session, every unit of the window is at the host, on the way, at the backend, or lost in a way the module names; `SessionsAgree`: a host that is READY in a session ends in the coprocessor's |
| `posix_objects` | 3 threads, 2 items, capacity 2, count up to 2, 2 bits | `NoLostWakeup`: nobody sleeps on a condition that holds, unless a timed-out wait took its signal; `ContractSpec`: the objects implement `OsalContract` |

The bounds are small because the races are: two calls (requests, threads) are
enough for one to take the place of another; one unit of credit makes every
second send find none; a queue of one or two is full in the middle of every
scenario; two sessions (transfers) are an old one and a new one; an image of
three bytes has a full chunk and a last one that is not aligned, and a window
of two has both under way at once.  Each is a constant
of its module, and the proved properties hold for every value.  In
`link_session` two faults are one and another that hits the recovery from it.  Bounds on
the environment alone are `MaxSession`, `MaxOps`, `MaxHellos`,
`MaxWakers`, `MaxTransfer` and `MaxOp`, in `CoprocBluetooth` the `Depth` of
the queue of packets, and in `LinkSession` `MaxWaiting`, `MaxSequence`,
`MaxWire` and `MaxFaults`.
Deadlock is checked in every run but `link_session`: a host whose Hello was
lost waits in NEGOTIATING for ever, with no timer, and nothing else need happen.
Symmetry is used in runs without liveness only.

### Where the code and its documents disagree

The run `host_stop` expects a violation, and TLC's trace is a legal run of the
code: `doc/lifecycle.md:30` has STOPPING end with the transport's completion,
but a record queued before the stop and handled after it finds no credit and
sets CONGESTED (`host_wire.c:64`); the completion is then ignored
(`host.c:446`), the core task goes on and `wlh_host_stop` times out
(`StopCompletes`).

The others below came up in modelling.  Where a property has to allow for one,
the name in brackets is the term that does.

**Host, calls and states.**
* `doc/api_sync_async.md:14`: the final result is reported by the callback.
  Calls still queued when the task leaves its loop are destroyed with the queue
  (`host.c:318, 585`), and their callbacks never run (`dropped` in `HostCore`,
  `lostJobs` in `HostCalls`).
* `doc/lifecycle.md:45`: no valid frame in NEGOTIATING triggers recovery.  The
  timer runs in READY only (`host_rpc.c:97`), so a silent coprocessor goes
  unnoticed in NEGOTIATING and in CONGESTED.
* `doc/lifecycle.md:147-154`, the table of recovery triggers: the code has no
  recovery for a sequence gap or checksum errors, and a coprocessor takes no
  notice of a session mismatch; a host's mismatch leads to a new Hello without
  restarting the transport.
* `doc/host_core_integration.md:307` has callbacks run in the executor's
  context.  When there is no buffer for the task, or the executor refuses, the
  callback runs on the core task with `state_mutex` held (`host.c:139`); a
  callback that calls back into the core then waits for itself.
* A record queued before a transport loss turns RECOVERING into CONGESTED, so
  the transport is not restarted.  A credit update makes a host without a
  session READY.

**Host, streams.**
* `bluetooth_hci_tx_ready` is to tell an application refused with NO_CREDIT
  when to try again (`host-core/include/wlh/host.h:470-472`,
  `doc/host_core_integration.md:122, 274`).  It is called by credit updates
  only; a unit that comes free because a record was dropped or found the queue
  full is not reported (`freed` in `RefusedIsTold`).
* Neither stop, start nor `handle_hello_response` resets
  `bluetooth_tx_inflight` and `ota_tx_inflight`: after a stop that destroyed
  queued records their promises stay, and later sends are refused with
  NO_CREDIT although credit is free, until the link is lost
  (`abandoned` in `PromisesCounted`).
* STATE_CHANGED with ENABLED sets `bluetooth_state` while
  `bluetooth_hci_stopped` is set, though `protocol/spec/services/bluetooth.md:22`
  says that in ENABLED the channel is usable.
* `wlh_host_start` does not reset `ethernet_tx_queued` (`host.c:508`), so after
  a restart the counters are above the records waiting, though the comment at
  `host.c:225` calls them exact: above by the records that were destroyed with
  the queue, and by nothing else (`orphaned` in `CountersExact`).

**Sessions and credit, both ends.**
* `protocol/spec/services/link.md:11`: a session change clears credit and
  resets the sequence.  The session mismatch path keeps both
  (`host_frame.c:104-113`).
* `protocol/spec/security.md:9`: frames of an old session are discarded.  The
  coprocessor takes Ethernet frames without looking at their session
  (`coproc_frame.c:230`) and returns their units in the present one, which puts
  the host's credit above the window (`foreign` in `CreditConserved`).
* The comment at `coproc_frame.c:165` says that the refund keeps lost frames
  from leaking the window.  A gap is refunded with one unit per frame, so all
  but one unit of a lost frame of several records stay lost; so do frames lost
  before the first one after a Hello, the last frames sent, a whole window of
  frames, and credit updates (`lost` against `refunded` in `CreditConserved`).
* `credit_epoch`, which `protocol/spec/services/link.md:116` says rejects late
  updates, is not looked at.
* A host that becomes CONGESTED in NEGOTIATING ignores its Hello response; a
  later credit update makes it READY with session 0, and heartbeats, which pass
  because it has no session, keep it there.  `SessionsAgree` is therefore about
  hosts that are READY in a session.
* Session ids start again after a reboot of the coprocessor, so an old session
  and a new one may have the same id and neither end can tell
  (`SameId` in `SessionsAgree`).

**Coprocessor.**
* A Hello throws away the gathered units (`coproc_link.c:253`) before
  `send_hello_response` finds no buffer for its answer and leaves the session
  as it was (`coproc_link.c:34`).  The session goes on, short of these units
  (`discarded` in `UnitsConserved`, `lost` in `CreditConserved`).
* The comment at `coproc_frame.c:296` has the credit of records that are not
  taken returned so that the host cannot be stranded.  An update that cannot be
  sent is not tried again (`coproc_frame.c:304`), and its units are lost; they
  were never among the units of `UnitsConserved`, which the backend took.
* An event before the first Hello makes it CONGESTED; a FAILED coprocessor
  leaves FAILED by a Hello (`doc/lifecycle.md:116` says by a stop only).
* The comment at `coproc_link.c:268` says that heartbeats keep flowing in
  CONGESTED, but `coproc_next_wait_ms` waits for ever outside READY
  (`coproc_link.c:312`), so a congested core without jobs sends none.
* An operation's slot is freed before its answer is sent (`coproc_eth.c:110`),
  and an answer that finds no credit is never sent, though the comment above
  says that every accepted submission produces exactly one.

**Update service.**
* `protocol/spec/services/ota.md:11`: a FAILED transfer cannot continue.  A
  stray chunk fails a transfer in VERIFYING (`coproc_ota.c:526`), and the
  FINALIZE that then completes makes it READY_TO_ACTIVATE (`coproc_ota.c:579`).
* A chunk of an earlier session whose write completes after a Hello gives the
  new session a unit beyond its window (`extra` in `CreditAccounted`), which
  `coproc-core/include/wlh/coproc.h:36` says equals the backend's queue; a
  credit update that cannot be sent is not tried again (`lost`).
* An ABORT whose backend has no `abort` sets the transfer id to 0 and leaves
  `ota_bytes_received` (`coproc_ota.c:303-304`), so QUERY then reports bytes of
  no transfer (`transfer # 0` in `ReportedIsDurable`).
* `transfer_id` is not 0 in IDLE while a BEGIN is pending or refused; a BEGIN
  that is pending at a Hello is not aborted at the backend; a transfer begun
  after FAILED takes the place of one the backend was never told to abort.

**Bluetooth service.**
* An error that comes while ENABLE is pending is overwritten by its completion
  (`coproc_bluetooth.c:281`), and the state is ENABLED with HCI stopped
  (`overtaken` in `EnabledCarriesHci`).
* A Hello zeroes the counters under packets that wait, so a packet accepted
  afterwards may find its unit taken and be dropped, which the reservation is
  there to prevent (comment at `coproc_bluetooth.c:524`; `crossed` in
  `AcceptedFindsCredit`).
* `hci_tx_ready` is called by a credit update only (`coproc_rpc.c:53`), though
  `doc/coproc_core_integration.md:106` names no such limit (`freed` in
  `WaiterIsTold`).  Line 105 there says that a packet the backend rejects stops
  HCI and sets ERROR, but the code withholds the unit and goes on, dropping the
  rest of the frame (`coproc_bluetooth.c:411-415`); line 251 says that a report
  without credit returns NO_CREDIT, but it is dropped with OK
  (`coproc_bluetooth.c:547`).
* A Hello that is refused for its version has already changed
  `bluetooth_adv_channel` (`coproc_link.c:215`).

**POSIX OSAL.**
* A wait that times out does not look at its condition again
  (`posix_osal.c:569`), and POSIX allows it to have taken a signal; another
  thread may then sleep beside a free place (`swallowed` in `NoLostWakeup`).
* A call with NO_WAIT fails when the mutex is merely contended
  (`posix_osal.c:177`), so the cores may see a full queue that is not full.

### Fairness

| Assumed fair | Why the code justifies it |
|---|---|
| the core task's steps, threads inside an API call (weak) | the OSAL schedules tasks; the mutex is held for bounded sections |
| `RpcTimeout`, `Tick`, the silence of a dead coprocessor (weak) | time passes; `host_next_wait_ms` and `coproc_next_wait_ms` bound the wait where they do |
| transport completions on the host (strong) | the contract of exactly one completion (`doc/lifecycle.md:141-144`, `doc/porting_guide.md:96-98`); the callback waits for room in the queue and other senders may take it first |
| `TxComplete` (weak) | the adapter returns every buffer it accepted |
| `BackendCompletes` (strong) | a backend whose completion is refused by a full queue calls again |
| in `LinkSession`, both core tasks' handling of frames, `HeartbeatTimeout`, `EmitHeartbeat` in READY, the transport's completions (weak) | as above, and `coproc_next_wait_ms` has a deadline for heartbeats in READY only; nothing is assumed of frames not being lost, which `MaxFaults` bounds |
| `LoopTop(Ethernet)` in a session (strong) | the transport does not refuse credit updates for ever |

Nothing is assumed of applications, of frames arriving, or of the coprocessor
answering.

## 4. What TLAPS proves

All theorems hold for every value of the constants allowed by the modules'
assumptions (`HostCoreAssumption`, ...), each only as strong as the
configuration checks in `wlh_host_init` and `wlh_coproc_init` make it.

**HostCoreProofs.** `TypeCorrect`; then three inductive invariants.
`LinkInv` adds to `NoCallOutlivesLink` that a core task that is not looping
has no pending calls, which is what makes a restart keep it.
`HelloCarriesNoSession` says that every queued Hello response has header
session 0, so that `process_frame` lets it through only when the host has no
session; `SessionsNeverReplaced` follows.  `CallInv` is `CallsAccounted`
with `PendingWereSent`; each step either leaves the queue's calls alone
(`QueueSteady`), takes the head call or appends a new one, and lemmas on
`CallsIn` over `Tail` and `Append` give the rest.  `ImplementsRpcClient`
shows that each step is a step of `RpcClient` or a stutter.

**HostServicesProofs, Ethernet.** `SlotsAreConserved` needs `StopInv` (a stopped host
has nothing waiting or in flight, and a frame is being filled only while the
task runs) and lemmas on counting over sequences.  `CountersAreExact`
and `AdmissionIsSafe` rest on one `CreditInv` per channel; the records a stop
destroys move from `Owed` to `orphaned`, and the counter stays.  `JobsServedInOrder` is
an action property from the type invariant.

**HostServicesProofs, calls.** `CallsTypeInv` is `CallsTypeOK`, with the sets
finite, and `CallerKnows`: a call that is not queued yet has not been accepted,
and it needs a buffer for the job.  `CallbacksRunOnce` follows from `OnlyOnce`,
the number of times a call's callback has run plus its places in the queue, the
table, the executor's tasks and the lost jobs, which is one for an accepted call
and none for another: each step takes a call from one term to another.
`BuffersAreHeldOnce` says that no buffer is leaked and none is freed or used
twice.  Its invariant `BuffersInv` turns the sum into `CallApart` (a call that
is in one place is in no other), and adds `HandsOver` (the caller of an accepted
call has neither its job nor its request buffer) and `Kept` (a buffer is in use
for a role and a call exactly when somebody holds it for them).  That nobody
else holds it follows: another holder for the same role would have the same
call, which is in one place.

**HostStreamsProofs.** `TypeCorrect`.  `PromiseInv` is `CreditCovers` (no
stream has more promises than credit) with
`PromisesCounted`: a step of a thread, of the queue's head or of the session
moves each promise from one term of the count to another, by the lemmas of
`QueueCounts`.  `PromisesAreCounted` and `AdmittedFindsItsCredit` follow.
`RefusedApplicationIsTold` is inductive with the type invariant.
`WindowIsAccounted` needs `Known`: frames in the queue are of sessions opened
so far, and the present session is the last one opened, so that a new session
finds no frame of its own.

**SharedProofs, gathered credit.** `TypeInv` of `CoprocEthernetRx` is `TypeOK` with `HellosBounded`:
the session ids handed out and the Hellos in the queue stay within the bound.
`UnitsAreConserved`
adds that an ended task has no session (`EndedHasNone`) and that the backend
holds nothing of a session not handed out yet (`FreshSessions`), so that a new
session begins with nothing held, gathered or owed.  Its history never forgets
a loss: `owed` changes by records taken and units returned only, until the
session is over, and what a Hello throws away moves from `gathered` to
`discarded`.  `FullBatchWakes` needs two
more facts about a task that waits without a retry: a full batch has set the
mark, and the mark means that a job is in the queue or a thread is about to
queue the wake.

**SharedProofs, sessions.** `LinkInv` is `LinkTypeOK` with `Ledger` and `Gaps`,
and gives `CreditIsConserved`.  `Ledger` has the first half, the sum of the
units.  While both ends are in a session the sum is the window (`InAgreement`).
Before, the answer that opened the session may be on its way:
`BeforeAgreement` says that what the coprocessor has had and not given back is
made up of units beyond the window, that only frames of the session follow the
answer, that none goes before it, and that no data of the session is under way.
A host that takes the answer therefore starts with the sum right, one that
takes any other answer is not in the coprocessor's session, and
`SessionsKnown` keeps a new session from being named already.  `Gaps` has the
second half: a unit is refunded only for a frame that was lost.  The data frames
under way are numbered in their order, and there is a number (`Accounted`) such
that everything refunded is before it, everything under way after it, and each
number missing behind a frame under way is of a frame that was lost; the next
frame moves it.  A restart of the host's sequence needs the epoch in that
number: the coprocessor then sees a sequence number from the past, and refunds
nothing.

**SharedProofs, OSAL.** `PosixCorrect`: types, the mutex belongs to one thread
that holds it (`MutexHeld`), and a thread's step fits its call (`InCall`).
`ContractIsKept`: every step of `PosixObjects` is a step of `OsalContract` or a
stutter; for the queue this is a lemma about the ring buffer, that sending adds
at the end of `Value` and receiving takes its head, whether the ring wraps or not.
`WakeupsAreNotLost`: `NoLostWakeup`, with `PosixInv`, is inductive as it stands,
because it counts: while somebody waits, as many threads have been woken or
hold the mutex as there are places or items to be had (`AllCovered`), and
nobody waits for bits that are set (`NoneOverlooked`).  That there is one such
thread would not be inductive: with two items and one woken thread, the one that
goes away would leave an item and a sleeper.

**CoprocCoreProofs.** `TypeInv` is `TypeOK` with the same count of Hellos.
`RequestsAnsweredOnce` rests on `AnswerInv`: a request is in one place only
(not sent, in the queue, in a slot, or answered), slots and the backends'
operations belong to the request and session they name, and answers are as
`AnsweredOnce` has them.  `OperationsAreCurrent` is inductive with the type
invariant.

**CoprocOtaProofs.** `ActivateInv`: a READY_TO_ACTIVATE transfer is verified,
and the operation a completion finishes is about the present transfer and of
the pending method, as ids are never used twice.  `ChunkInv`: the chunks of
the present transfer end at `ota_bytes_accepted`, earlier ones tile their own
image.  `CreditIsAccounted` counts the chunks held in the present session, one
step per way a chunk can end.  `ReportsAreDurable`: `ReportedIsDurable` is
inductive with the type and chunk invariants, since the durable bytes of a
transfer only grow (`DurableGrows`) and a write counts for its own transfer
only.

**CoprocBluetoothProofs.** `StateIsKnown` rests on `OnePending`: in a session
the backend works on at most one operation of it, and that one is pending.
`EnabledMeansUsable` needs `StoppedInError`: when the error that stopped HCI
overtook no operation, the state is still ERROR, and no operation is pending
that could leave it without letting HCI flow again.
`UnitsAreCounted` and `AcceptedHasCredit` share `ReserveInv`: no packet is of
a Hello to come, and no counter is above its credit; `Waiting` is followed
through the queue and the threads by one lemma per kind of step.
`BackendIsTold` is inductive with the type invariant.

Every safety property the passing runs check, both refinements and the action
properties are stated by a theorem.  What stays with TLC is liveness
(`AcceptedCallSettles`, `SlotsComeBack`, `OperationEnds`, `UnitsReturned`,
`SessionsAgree`), which needs fairness and ENABLED and is outside the prover's
reach, and the violation run.  No model uses a recursive operator.

## 5. Not modelled

* **Host Ethernet receive**: the units consumed and their return are touched by
  the core task alone, so no step can come between; the interesting half, what
  a return does to the other end's window, is in `HostStreams` for HCI and in
  `LinkSession` for the other direction.
* **Coprocessor Ethernet transmit**: its jobs and credit are in `CoprocCore`;
  its slots and the combining of records are those of `HostEthernetTx` without
  admission by credit.
* **Codecs**: pure functions on bytes.  The models take a frame as decoded or as
  malformed, and count its records.
* **Contents**: arguments, encodings and answers of the facades and of the
  immediate services; OTA frames to the host; diagnostics counters.
* **OSAL**: tasks, timers and plain mutexes of the POSIX backend; the FreeRTOS
  and RT-Thread backends, which hand each call to an object of their kernel.
* **The event executor**, logging, generated protobuf code, nanopb, build files.

## 6. Plan

Done: all modules of section 2, with proofs of their safety properties.

Left, in this order:

1. `CoprocEthernetTx`: slots and combining as on the host.
2. The host's Ethernet receive credits, added to `LinkSession` as a second
   channel in the other direction.
3. `RawRecords`: the iterator of `raw_record.c` against a reference definition
   over bounded inputs.
