------------------------------ MODULE HostCore ------------------------------
(***************************************************************************)
(* The control plane of the Host Core (host-core/src): the link state      *)
(* machine, the core task with its FIFO job queue, the table of pending    *)
(* RPCs, the transport lifecycle and the start/stop interface.             *)
(*                                                                         *)
(* One action stands for one critical section of the code: an API call     *)
(* enqueues a job, a transport callback enqueues a job, and the core task  *)
(* handles one job under state_mutex.  The transport and the coprocessor   *)
(* are external: they may refuse, fail, delay or lose whatever their       *)
(* contract lets them.                                                     *)
(***************************************************************************)
EXTENDS Integers, Sequences, FiniteSets

CONSTANTS
    Calls,          \* RPC requests the application makes, one request_id each
    Depth,          \* core_queue_depth
    MaxPending,     \* max_pending_rpc
    InitialCredit,  \* units the coprocessor grants each channel in its Hello
    MaxCredit,      \* where a credit counter saturates (UINT32_MAX)
    MaxSession,     \* bound: sessions the coprocessor ever opens
    MaxOps,         \* start (stop) requests the transport holds at a time
    FrameTypes,     \* the frames the coprocessor sends in this instance
    PeerMayDie      \* whether the coprocessor may fall silent for good

ASSUME HostCoreAssumption ==
    /\ Depth \in Nat \ {0}
    /\ MaxPending \in Nat \ {0}
    /\ MaxCredit \in Nat \ {0}
    /\ InitialCredit \in 0 .. MaxCredit
    /\ MaxSession \in Nat \ {0}
    /\ MaxOps \in Nat \ {0}
    /\ FrameTypes \subseteq {"HELLO", "HELLO_REJECT", "SESSION_CHANGED",
                              "RESPONSE", "CREDIT", "OTHER"}
    /\ PeerMayDie \in BOOLEAN

VARIABLES
    state,      \* host->state
    session,    \* host->session_id, 0 when there is none
    credit,     \* host->tx_credit
    pending,    \* the active slots of host->pending
    queue,      \* host->core_queue
    worker,     \* the core task: "none", "created", "looping" or "exited"
    started,    \* host->worker_started
    stopper,    \* the thread in wlh_host_stop: "idle" or "joining"
    up,         \* the transport carries frames
    startOps,   \* accepted transport.start() calls not completed yet
    stopOps,    \* accepted transport.stop() calls not completed yet
    granted,    \* the last session id the coprocessor handed out
    arrived,    \* the last one whose Hello response has come in, or is lost
    sent,       \* calls whose request the transport took
    peerAlive,  \* the coprocessor still sends frames
    accepted,   \* calls for which wlh_host_rpc_request returned OK
    outcome,    \* results passed to the completion callback of each call
    dropped     \* calls destroyed with the queue

linkVars  == <<session, credit, pending>>
transVars == <<up, startOps, stopOps>>
peerVars  == <<granted, arrived, sent, peerAlive>>
apiVars   == <<worker, started, stopper>>
vars == <<state, linkVars, queue, apiVars, transVars, peerVars,
          accepted, outcome, dropped>>

-----------------------------------------------------------------------------
States == {"UNINITIALIZED", "TRANSPORT_STARTING", "NEGOTIATING",
           "READY", "CONGESTED", "RECOVERING", "FAILED", "STOPPING"}
Channels == {"rpc", "data"}     \* CONTROL_RPC and one raw-record channel
Sessions == 0 .. MaxSession
Results  == {"OK", "TIMEOUT", "SESSION_CHANGED", "REFUSED"}

(* What the coprocessor may send: hdr is the session of the frame header.  *)
(* "OTHER" is any frame that changes nothing here once its header is       *)
(* accepted (heartbeat, service event, raw record).                        *)
Frames ==
    [type : {"HELLO", "SESSION_CHANGED"}, hdr : Sessions, sid : Sessions \ {0}]
        \cup [type : {"RESPONSE"}, hdr : Sessions, call : Calls]
        \cup [type : {"CREDIT"}, hdr : Sessions, ch : Channels]
        \cup [type : {"HELLO_REJECT", "OTHER"}, hdr : Sessions]

PlainJobs == {"STOP", "DATA_TX", "TRANSPORT_LOST", "TRANSPORT_STARTED",
              "TRANSPORT_START_FAILED", "TRANSPORT_STOPPED",
              "TRANSPORT_STOP_FAILED"}

Jobs == [kind : PlainJobs]
            \cup [kind : {"RPC_REQUEST"}, call : Calls]
            \cup [kind : {"RX_FRAME"}, frame : Frames]

Slots == [call : Calls, session : Sessions]

CallsOf(slots) == {slot.call : slot \in slots}

(* The calls whose requests wait in a job queue.                           *)
CallsIn(q) == {c \in Calls : \E i \in 1 .. Len(q) :
                  q[i].kind = "RPC_REQUEST" /\ q[i].call = c}

Queued == CallsIn(queue)

-----------------------------------------------------------------------------
Init ==
    /\ state = "UNINITIALIZED" /\ session = 0
    /\ credit = [ch \in Channels |-> 0]
    /\ pending = {}
    /\ queue = <<>>
    /\ worker = "none" /\ started = FALSE /\ stopper = "idle"
    /\ up = FALSE /\ startOps = 0 /\ stopOps = 0
    /\ granted = 0 /\ arrived = 0 /\ sent = {} /\ peerAlive = TRUE
    /\ accepted = {} /\ outcome = [c \in Calls |-> <<>>] /\ dropped = {}

-----------------------------------------------------------------------------
(* Helpers shared by the handlers.                                         *)

CanEnqueue == started /\ Len(queue) < Depth
Enqueue(job) == queue' = Append(queue, job)

(* The core task takes the next job; it runs until finish_shutdown.        *)
Takes(kind) ==
    /\ worker = "looping"
    /\ queue # <<>> /\ Head(queue).kind = kind
    /\ queue' = Tail(queue)

(* dispatch_completion: each call of cs has its callback run once.         *)
Complete(cs, r) ==
    outcome' = [c \in Calls |-> IF c \in cs THEN Append(outcome[c], r)
                                            ELSE outcome[c]]

(* cancel_pending; the two forms before it are slips: callbacks without    *)
(* clearing the slots, slots cleared without callbacks.                    *)
CancelPendingKeepsSlots(r) == Complete(CallsOf(pending), r) /\ UNCHANGED pending
CancelPendingSilently(r)   == UNCHANGED outcome /\ pending' = {}
CancelPending(r) == Complete(CallsOf(pending), r) /\ pending' = {}

(* The memset of a slot whose call is over, and the slip of omitting it.   *)
KeepSlots(slots)  == slots \subseteq pending /\ pending' = pending
ClearSlots(slots) == pending' = pending \ slots

(* tx_credit plus one unit, saturating, and the slip of not saturating.    *)
PlusOne(n)       == n + 1
AddOneCredit(n)  == IF n = MaxCredit THEN n ELSE n + 1

(* A Hello of session 0 the transport took opens the coprocessor's next    *)
(* session; one the link loses is one whose response never comes.          *)
HelloSent(s) == granted' = IF s = 0 /\ granted < MaxSession THEN granted + 1
                                                             ELSE granted

(* send_hello once the session is given up: the request goes out, or the   *)
(* transport refuses it, or there is no buffer for it and the state stays  *)
(* what the caller made it.                                                *)
SendHello(base) ==
    \/ state' = "NEGOTIATING" /\ HelloSent(0)
    \/ state' \in {"NEGOTIATING", base} /\ UNCHANGED granted

(* request_transport_start                                                 *)
RequestTransportStart ==
    \/ /\ startOps < MaxOps
       /\ startOps' = startOps + 1 /\ state' = "TRANSPORT_STARTING"
    \/ startOps' = startOps /\ state' = "FAILED"

(* transport.stop: accepted, its completion will follow, or refused.       *)
StopAccepted == stopOps < MaxOps /\ stopOps' = stopOps + 1
StopRefused  == stopOps' = stopOps

(* finish_shutdown                                                         *)
FinishShutdown == session' = 0 /\ state' = "UNINITIALIZED" /\ worker' = "exited"

(* process_transport_lost, and the slip of leaving the calls to time out.  *)
ProcessTransportLostKeepsCalls(r) ==
    /\ r \in Results /\ UNCHANGED <<pending, outcome>>
    /\ session' = 0 /\ credit' = [ch \in Channels |-> 0]
    /\ \/ StopAccepted /\ state' = "RECOVERING"
       \/ StopRefused /\ state' = "FAILED"

ProcessTransportLost(r) ==
    /\ CancelPending(r)
    /\ session' = 0 /\ credit' = [ch \in Channels |-> 0]
    /\ \/ StopAccepted /\ state' = "RECOVERING"
       \/ StopRefused /\ state' = "FAILED"

-----------------------------------------------------------------------------
(* The application's calls.                                                *)

(* wlh_host_start looks at the state only, so it also succeeds after a     *)
(* wlh_host_stop that timed out before the task had finished.  What the    *)
(* state does not show is left to the application: here it does not call   *)
(* start again before the task has begun, nor while a stop is under way.   *)
Start ==
    /\ state = "UNINITIALIZED" /\ worker \in {"none", "exited"}
    /\ stopper = "idle"
    /\ worker' = "created" /\ started' = TRUE
    /\ queue' = <<>> /\ dropped' = dropped \cup Queued
    /\ UNCHANGED <<state, linkVars, stopper, transVars, peerVars,
                   accepted, outcome>>

StopCall ==
    /\ stopper = "idle" /\ CanEnqueue
    /\ Enqueue([kind |-> "STOP"]) /\ stopper' = "joining"
    /\ UNCHANGED <<state, linkVars, worker, started, transVars, peerVars,
                   accepted, outcome, dropped>>

(* task_join returned: the queue is destroyed with whatever is in it.      *)
StopReturns ==
    /\ stopper = "joining" /\ worker = "exited"
    /\ stopper' = "idle" /\ started' = FALSE
    /\ queue' = <<>> /\ dropped' = dropped \cup Queued
    /\ UNCHANGED <<state, linkVars, worker, transVars, peerVars,
                   accepted, outcome>>

(* stop_timeout_ms passed first: WLH_HOST_TIMEOUT, nothing is released.    *)
StopTimesOut ==
    /\ stopper = "joining" /\ stopper' = "idle"
    /\ UNCHANGED <<state, linkVars, queue, worker, started, transVars,
                   peerVars, accepted, outcome, dropped>>

RpcRequest(c) ==
    /\ c \notin accepted /\ CanEnqueue
    /\ Enqueue([kind |-> "RPC_REQUEST", call |-> c])
    /\ accepted' = accepted \cup {c}
    /\ UNCHANGED <<state, linkVars, apiVars, transVars, peerVars,
                   outcome, dropped>>

(* wlh_host_ethernet_*_send, _bluetooth_hci_send, _ota_stream_send: a unit *)
(* of credit is left for the record after those already queued.            *)
DataSend ==
    /\ CanEnqueue
    /\ credit["data"] > Cardinality({i \in DOMAIN queue :
                                        queue[i].kind = "DATA_TX"})
    /\ Enqueue([kind |-> "DATA_TX"])
    /\ UNCHANGED <<state, linkVars, apiVars, transVars, peerVars,
                   accepted, outcome, dropped>>

-----------------------------------------------------------------------------
(* The core task.                                                          *)

WorkerBegins ==
    /\ worker = "created" /\ worker' = "looping"
    /\ RequestTransportStart
    /\ UNCHANGED <<linkVars, queue, started, stopper, up, stopOps, peerVars, accepted, outcome, dropped>>

(* host_process_deadlines: the deadlines of these slots have passed.       *)
RpcDeadlines(slots) ==
    /\ worker = "looping" /\ slots # {}
    /\ Complete(CallsOf(slots), "TIMEOUT") /\ ClearSlots(slots)
    /\ UNCHANGED <<state, session, credit, queue, apiVars, transVars,
                   peerVars, accepted, dropped>>

(* host_process_deadlines: no frame for heartbeat_timeout_ms.              *)
HeartbeatTimeout ==
    /\ worker = "looping" /\ state = "READY"
    /\ ProcessTransportLost("TIMEOUT")
    /\ UNCHANGED <<queue, apiVars, up, startOps, peerVars,
                   accepted, dropped>>

HandleStop ==
    /\ Takes("STOP")
    /\ CancelPending("SESSION_CHANGED")
    /\ \/ StopAccepted /\ state' = "STOPPING" /\ UNCHANGED <<session, worker>>
       \/ StopRefused /\ FinishShutdown
    /\ UNCHANGED <<credit, started, stopper, up, startOps,
                   peerVars, accepted, dropped>>

(* A request that cannot be sent is completed at once: not READY, no slot, *)
(* no credit (which also makes the host CONGESTED), no buffer or transport.*)
HandleRpcRequest ==
    /\ Takes("RPC_REQUEST")
    /\ LET c == Head(queue).call
           ready == state = "READY" /\ Cardinality(pending) < MaxPending
       IN \/ /\ ready /\ credit["rpc"] > 0
             /\ credit' = [credit EXCEPT !["rpc"] = @ - 1]
             /\ pending' = pending \cup {[call |-> c, session |-> session]}
             /\ sent' = sent \cup {c}
             /\ UNCHANGED <<state, outcome>>
          \/ /\ Complete({c}, "REFUSED")
             /\ \/ UNCHANGED state
                \/ ready /\ credit["rpc"] = 0 /\ state' = "CONGESTED"
             /\ UNCHANGED <<credit, pending, sent>>
    /\ UNCHANGED <<session, apiVars, transVars, granted, arrived, peerAlive,
                   accepted, dropped>>

(* ETHERNET_TX, BLUETOOTH_TX and OTA_TX jobs: without credit the state     *)
(* becomes CONGESTED whatever it was.                                      *)
HandleDataTx ==
    /\ Takes("DATA_TX")
    /\ \/ /\ credit["data"] > 0
          /\ credit' = [credit EXCEPT !["data"] = @ - 1]
          /\ UNCHANGED state
       \/ /\ state' = IF credit["data"] = 0 THEN "CONGESTED" ELSE state
          /\ UNCHANGED credit
    /\ UNCHANGED <<session, pending, apiVars, transVars, peerVars,
                   accepted, outcome, dropped>>

HandleTransportLost ==
    /\ Takes("TRANSPORT_LOST")
    /\ IF state \in {"STOPPING", "UNINITIALIZED"}
       THEN UNCHANGED <<state, linkVars, stopOps, outcome>>
       ELSE ProcessTransportLost("SESSION_CHANGED")
    /\ UNCHANGED <<apiVars, up, startOps, peerVars, accepted, dropped>>

HandleTransportStarted ==
    /\ Takes("TRANSPORT_STARTED")
    /\ IF state = "STOPPING"
       THEN UNCHANGED <<state, granted>>
       ELSE \/ state' = "NEGOTIATING" /\ HelloSent(session)
            \/ state' = "FAILED" /\ UNCHANGED granted
    /\ UNCHANGED <<linkVars, apiVars, transVars, arrived, sent, peerAlive,
                   accepted, outcome, dropped>>

HandleTransportStartFailed ==
    /\ Takes("TRANSPORT_START_FAILED")
    /\ state' = IF state = "STOPPING" THEN state ELSE "FAILED"
    /\ UNCHANGED <<linkVars, apiVars, transVars, peerVars,
                   accepted, outcome, dropped>>

HandleTransportStopped ==
    /\ Takes("TRANSPORT_STOPPED")
    /\ \/ state = "STOPPING" /\ FinishShutdown /\ UNCHANGED startOps
       \/ /\ state = "RECOVERING" /\ RequestTransportStart
          /\ UNCHANGED <<session, worker>>
       \/ /\ state \notin {"STOPPING", "RECOVERING"}
          /\ UNCHANGED <<state, session, worker, startOps>>
    /\ UNCHANGED <<credit, pending, started, stopper, up, stopOps,
                   peerVars, accepted, outcome, dropped>>

HandleTransportStopFailed ==
    /\ Takes("TRANSPORT_STOP_FAILED")
    /\ IF state = "STOPPING"
       THEN FinishShutdown
       ELSE state' = "FAILED" /\ UNCHANGED <<session, worker>>
    /\ UNCHANGED <<credit, pending, started, stopper, transVars,
                   peerVars, accepted, outcome, dropped>>

-----------------------------------------------------------------------------
(* process_frame, once the frame has been decoded.                         *)

Rx == Head(queue).frame
TakesFrame(type) == Takes("RX_FRAME") /\ Rx.type = type

(* With no session any header passes; otherwise it must carry ours.  The   *)
(* slip lets a Hello response, whose header carries none, pass as well.    *)
HeaderAcceptedOrNone == session = 0 \/ Rx.hdr \in {session, 0}
HeaderAccepted == session = 0 \/ Rx.hdr = session

(* A frame of another session: the session is given up and a new Hello is  *)
(* sent; credit and sequence numbers are left as they are.                 *)
HandleSessionMismatch ==
    /\ Takes("RX_FRAME") /\ ~HeaderAccepted
    /\ CancelPending("SESSION_CHANGED") /\ session' = 0
    /\ SendHello("RECOVERING")
    /\ UNCHANGED <<credit, apiVars, transVars, arrived, sent, peerAlive,
                   accepted, dropped>>

(* A Hello response is looked at while NEGOTIATING only; its request_id is *)
(* not compared with the request's.  Without a buffer it is dropped.       *)
HandleHello ==
    /\ TakesFrame("HELLO") /\ HeaderAccepted
    /\ \/ /\ state = "NEGOTIATING"
          /\ state' = "READY" /\ session' = Rx.sid
          /\ credit' = [ch \in Channels |-> InitialCredit]
       \/ UNCHANGED <<state, session, credit>>
    /\ UNCHANGED <<pending, apiVars, transVars, peerVars,
                   accepted, outcome, dropped>>

HandleHelloReject ==
    /\ TakesFrame("HELLO_REJECT") /\ HeaderAccepted
    /\ state' = IF state = "NEGOTIATING" THEN "FAILED" ELSE state
    /\ UNCHANGED <<linkVars, apiVars, transVars, peerVars,
                   accepted, outcome, dropped>>

(* find_pending: the slot of that request in the current session, if any.  *)
HandleResponse ==
    /\ TakesFrame("RESPONSE") /\ HeaderAccepted
    /\ LET found == pending \cap {[call |-> Rx.call, session |-> session]}
       IN Complete(CallsOf(found), "OK") /\ ClearSlots(found)
    /\ UNCHANGED <<state, session, credit, apiVars, transVars, peerVars,
                   accepted, dropped>>

HandleCreditUpdate ==
    /\ TakesFrame("CREDIT") /\ HeaderAccepted
    /\ credit' = [credit EXCEPT ![Rx.ch] = AddOneCredit(@)]
    /\ state' = IF state = "CONGESTED" THEN "READY" ELSE state
    /\ UNCHANGED <<session, pending, apiVars, transVars, peerVars,
                   accepted, outcome, dropped>>

(* handle_session_changed; the event is lost when there is no buffer.      *)
HandleSessionChanged ==
    /\ TakesFrame("SESSION_CHANGED") /\ HeaderAccepted
    /\ \/ /\ Rx.sid # session
          /\ CancelPending("SESSION_CHANGED") /\ session' = 0
          /\ credit' = [ch \in Channels |-> 0]
          /\ SendHello(state)
       \/ UNCHANGED <<state, session, credit, pending, granted, outcome>>
    /\ UNCHANGED <<apiVars, transVars, arrived, sent, peerAlive, accepted, dropped>>

(* Events and raw records.                                                 *)
HandleOtherFrame ==
    /\ TakesFrame("OTHER") /\ HeaderAccepted
    /\ UNCHANGED <<state, linkVars, apiVars, transVars, peerVars,
                   accepted, outcome, dropped>>

HandleFrame ==
    \/ HandleSessionMismatch \/ HandleHello \/ HandleHelloReject
    \/ HandleResponse \/ HandleCreditUpdate \/ HandleSessionChanged
    \/ HandleOtherFrame

HandleJob ==
    \/ HandleStop \/ HandleRpcRequest \/ HandleDataTx \/ HandleTransportLost
    \/ HandleTransportStarted \/ HandleTransportStartFailed
    \/ HandleTransportStopped \/ HandleTransportStopFailed \/ HandleFrame

-----------------------------------------------------------------------------
(* The transport (external).                                               *)

(* A lifecycle completion waits for room in the queue; when the host is    *)
(* not started enqueue_job refuses it and it is lost.                      *)
Report(kind) ==
    IF started THEN Len(queue) < Depth /\ Enqueue([kind |-> kind])
               ELSE UNCHANGED queue

TransportStartCompletes ==
    /\ startOps > 0 /\ startOps' = startOps - 1
    /\ \/ up' = TRUE /\ Report("TRANSPORT_STARTED")
       \/ up' = up /\ Report("TRANSPORT_START_FAILED")
    /\ UNCHANGED <<state, linkVars, apiVars, stopOps, peerVars,
                   accepted, outcome, dropped>>

TransportStopCompletes ==
    /\ stopOps > 0 /\ stopOps' = stopOps - 1
    /\ \/ up' = FALSE /\ Report("TRANSPORT_STOPPED")
       \/ up' = up /\ Report("TRANSPORT_STOP_FAILED")
    /\ UNCHANGED <<state, linkVars, apiVars, startOps, peerVars,
                   accepted, outcome, dropped>>

(* tx_complete with an error, or the adapter's wlh_host_transport_lost:    *)
(* reported without waiting, so a full queue loses the report.             *)
TransportLost ==
    /\ up /\ CanEnqueue /\ Enqueue([kind |-> "TRANSPORT_LOST"])
    /\ UNCHANGED <<state, linkVars, apiVars, transVars, peerVars,
                   accepted, outcome, dropped>>

-----------------------------------------------------------------------------
(* The coprocessor (external here) and the link, which loses frames but    *)
(* keeps their order: after the Hello response of session arrived, the     *)
(* frames coming in carry that session until the next Hello response,      *)
(* which itself carries none.                                              *)
PeerFrames ==
    {f \in Frames : f.type \in FrameTypes /\
        IF f.type \in {"HELLO", "HELLO_REJECT"}
        THEN /\ f.hdr = 0 /\ arrived < granted
             /\ f.type = "HELLO" => f.sid = arrived + 1
        ELSE /\ f.hdr = arrived /\ arrived > 0
             /\ f.type = "SESSION_CHANGED" => f.sid = arrived + 1
             /\ f.type = "RESPONSE" => f.call \in sent}

(* wlh_host_on_frame                                                       *)
OnFrame(f) ==
    /\ up /\ peerAlive /\ CanEnqueue
    /\ Enqueue([kind |-> "RX_FRAME", frame |-> f])
    /\ arrived' = IF f.hdr = 0 THEN arrived + 1 ELSE arrived
    /\ UNCHANGED <<state, linkVars, apiVars, transVars, granted, sent,
                   peerAlive, accepted, outcome, dropped>>

(* A Hello response lost on the link, or dropped because the queue was     *)
(* full; losing any other frame is the same as its not being sent.         *)
HelloLost ==
    /\ arrived < granted /\ arrived' = arrived + 1
    /\ UNCHANGED <<state, linkVars, queue, apiVars, transVars, granted, sent,
                   peerAlive, accepted, outcome, dropped>>

PeerDies ==
    /\ PeerMayDie /\ peerAlive /\ peerAlive' = FALSE
    /\ UNCHANGED <<state, linkVars, queue, apiVars, transVars, granted, arrived, sent,
                   accepted, outcome, dropped>>

-----------------------------------------------------------------------------
Api == Start \/ StopCall \/ StopReturns \/ StopTimesOut \/ DataSend
          \/ \E c \in Calls : RpcRequest(c)

RpcTimeout == \E slots \in SUBSET pending : RpcDeadlines(slots)

Worker == WorkerBegins \/ RpcTimeout \/ HeartbeatTimeout \/ HandleJob

Transport == TransportStartCompletes \/ TransportStopCompletes
                \/ TransportLost

Peer == PeerDies \/ HelloLost \/ \E f \in PeerFrames : OnFrame(f)

Next == Api \/ Worker \/ Transport \/ Peer

Spec == Init /\ [][Next]_vars

(* The core task is scheduled, deadlines pass, task_join returns once the  *)
(* task is gone, silence from a dead coprocessor is noticed when it is     *)
(* looked for, and the adapter keeps its contract of exactly one           *)
(* completion: a sender blocked on the queue is served however often other *)
(* senders fill it again, hence strong fairness.                           *)
Fairness ==
    /\ WF_vars(WorkerBegins) /\ WF_vars(HandleJob)
    /\ WF_vars(RpcTimeout)
    /\ WF_vars(~peerAlive /\ HeartbeatTimeout)
    /\ SF_vars(TransportStartCompletes) /\ SF_vars(TransportStopCompletes)
    /\ WF_vars(StopReturns)

FairSpec == Spec /\ Fairness

-----------------------------------------------------------------------------
TypeOK ==
    /\ state \in States /\ session \in Sessions
    /\ credit \in [Channels -> 0 .. MaxCredit]
    /\ pending \in SUBSET Slots
    /\ queue \in Seq(Jobs) /\ Len(queue) <= Depth
    /\ worker \in {"none", "created", "looping", "exited"}
    /\ started \in BOOLEAN /\ stopper \in {"idle", "joining"}
    /\ up \in BOOLEAN /\ startOps \in 0 .. MaxOps /\ stopOps \in 0 .. MaxOps
    /\ granted \in Sessions /\ arrived \in Sessions /\ sent \in SUBSET Calls
    /\ peerAlive \in BOOLEAN
    /\ accepted \in SUBSET Calls /\ dropped \in SUBSET Calls
    /\ outcome \in [Calls -> Seq(Results)]

-----------------------------------------------------------------------------
(* The life of a call.                                                     *)

Completed == {c \in Calls : outcome[c] # <<>>}

(* A call has one place in the queue and one slot.                         *)
OnceIn(q) ==
    \A i, j \in 1 .. Len(q) :
        /\ q[i].kind = "RPC_REQUEST" /\ q[j].kind = "RPC_REQUEST"
        /\ q[i].call = q[j].call
        => i = j

OneSlotPerCall == \A s, t \in pending : s.call = t.call => s = t

Partition(whole, q, p, c, d) ==
    /\ whole = q \cup p \cup c \cup d
    /\ q \cap (p \cup c \cup d) = {} /\ p \cap (c \cup d) = {} /\ c \cap d = {}

(* Every call wlh_host_rpc_request accepted is in exactly one place: still *)
(* in the job queue, in a slot of host->pending, completed, or destroyed   *)
(* with the queue; and no callback has run twice.  Responses, deadlines,   *)
(* cancellations and refusals race for the same call (host_rpc.c:14, 66,   *)
(* 260, host_frame.c:260), and whichever comes first must be the only one. *)
CallsAccounted ==
    /\ Partition(accepted, Queued, CallsOf(pending), Completed, dropped)
    /\ OnceIn(queue) /\ OneSlotPerCall
    /\ \A c \in Calls : Len(outcome[c]) <= 1

(* No call survives a recovery or a stop: whatever sequence of jobs led    *)
(* there, a host that is restarting its transport, stopping or stopped has *)
(* an empty pending table (cancel_pending in host_link.c:373, host.c:339). *)
NoCallOutlivesLink ==
    state \in {"RECOVERING", "TRANSPORT_STARTING", "STOPPING", "UNINITIALIZED"}
        => pending = {}

(* A finished core task leaves no session behind, so that the next start   *)
(* begins with a Hello of session 0 (finish_shutdown, host_link.c:362).    *)
ExitedIsClean == worker = "exited" => session = 0 /\ state = "UNINITIALIZED"

(* A session is never replaced by another: it is given up first, and the   *)
(* calls made in it with it (host_frame.c:96, host_link.c:137, 304, 374).  *)
SessionGivenUpFirst ==
    [][session' # session => session = 0 \/ session' = 0]_vars

-----------------------------------------------------------------------------
Client == INSTANCE RpcClient

(* The whole core, seen by its callers, is an RpcClient: requests, session *)
(* changes, deadlines, stops and restarts in any order never end a call    *)
(* twice nor answer one that was not sent.                                 *)
ClientSpec == Client!Spec

-----------------------------------------------------------------------------
(* What must eventually happen.                                            *)

(* An accepted call does not hang while the core task runs: a response, a  *)
(* deadline, a refusal or a cancellation completes it (host_rpc.c:66), or  *)
(* the stop of the host drops it.                                          *)
AcceptedCallSettles ==
    \A c \in Calls : c \in accepted ~>
        (outcome[c] # <<>> \/ c \in dropped \/ worker = "exited")

(* Once the stop has been taken up, the transport's completion ends it     *)
(* (doc/lifecycle.md, STOPPING --> UNINITIALIZED; host.c:446).             *)
StopCompletes == state = "STOPPING" ~> state = "UNINITIALIZED"

=============================================================================
