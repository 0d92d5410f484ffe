----------------------------- MODULE CoprocCore -----------------------------
(***************************************************************************)
(* The Coprocessor Core (coproc-core/src): its lifecycle, the negotiation  *)
(* of sessions, the credit it sends with, its heartbeat, and the requests  *)
(* it passes to an asynchronous backend and answers later.                 *)
(*                                                                         *)
(* The core task runs a loop: the top of the loop (returning credit,       *)
(* heartbeat, choice of how long to wait) and the handling of one job are  *)
(* each one critical section of state_mutex and one action here.  The      *)
(* host, the backends and the transport are external.                      *)
(***************************************************************************)
EXTENDS Integers, Sequences, FiniteSets

CONSTANTS
    Requests,       \* the requests the host sends, one request_id each
    Services,       \* services whose requests have an asynchronous operation
    Immediate,      \* stands for the services answered at once
    Channels,       \* CONTROL_RPC ("rpc") and the raw-record channels in use
    Depth,          \* core_queue_depth
    InitialCredit,  \* initial_credit
    MaxCredit,      \* where adding credit would overflow (UINT32_MAX)
    MaxHellos       \* bound: Hello requests the host ever sends

ASSUME CoprocCoreAssumption ==
    /\ Immediate \notin Services
    /\ "rpc" \in Channels
    /\ Depth \in Nat \ {0}
    /\ MaxCredit \in Nat \ {0} /\ InitialCredit \in 0 .. MaxCredit
    /\ MaxHellos \in Nat \ {0}

VARIABLES
    state,      \* coproc->state
    session,    \* coproc->session_id, 0 when there is none
    opened,     \* the last session id handed out (next_session_id - 1)
    credit,     \* tx_credit
    pending,    \* the active wifi_initialize_pending, eth_pending
    nextOp,     \* next_backend_operation_id
    queue,      \* core_queue
    worker,     \* the core task: "none", "created", "top" of its loop,
                \* "waiting" for a job or "exited"
    wait,       \* how long it waits: "forever", "heartbeat" or "retry"
    due,        \* heartbeat_interval_ms have passed since the last heartbeat
    started,    \* worker_started
    stopper,    \* the thread in wlh_coproc_stop: "idle" or "joining"
    hellos,     \* Hello requests the host has sent
    asked,      \* the session in which the host sent each request, or -1
    ops,        \* operations the backends have accepted and not completed
    answers     \* the responses to each request the transport took

taskVars == <<worker, wait, due>>
apiVars  == <<started, stopper>>
envVars  == <<hellos, asked, ops>>
vars == <<state, session, opened, credit, pending, nextOp, queue, taskVars,
          apiVars, envVars, answers>>

-----------------------------------------------------------------------------
States == {"STOPPED", "WAITING_FOR_HELLO", "READY", "CONGESTED", "FAILED"}
Sessions == 0 .. MaxHellos

(* An operation, with the request it was submitted for.                    *)
Operations == [svc : Services, op : Nat, req : Requests]
Slots == [svc : Services, op : Nat, req : Requests, session : Sessions]

(* A response: the session of its frame and the request whose result it    *)
(* carries.                                                                *)
Answers == [session : Sessions, of : Requests]

(* hdr is the session of the frame header.                                 *)
Frames ==
    [type : {"HELLO"}, hdr : {0}]
        \cup [type : {"REQUEST"}, hdr : Sessions, req : Requests,
              svc : Services \cup {Immediate}]
        \cup [type : {"CREDIT"}, hdr : Sessions, ch : Channels]

Jobs ==
    [kind : {"STOP", "TRANSPORT_FAILED"}]
        \cup [kind : {"TX"}, ch : Channels]
        \cup [kind : {"DONE"}, done : Operations]
        \cup [kind : {"RX_FRAME"}, frame : Frames]

Init ==
    /\ state = "STOPPED" /\ session = 0 /\ opened = 0
    /\ credit = [ch \in Channels |-> 0]
    /\ pending = {} /\ nextOp = 1 /\ queue = <<>>
    /\ worker = "none" /\ wait = "forever" /\ due = FALSE
    /\ started = FALSE /\ stopper = "idle"
    /\ hellos = 0 /\ asked = [r \in Requests |-> -1] /\ ops = {}
    /\ answers = [r \in Requests |-> <<>>]

-----------------------------------------------------------------------------
(* Helpers shared by the handlers.                                         *)

CanEnqueue == started /\ Len(queue) < Depth
Enqueue(job) == queue' = Append(queue, job)

(* The core task receives the next job and, having handled it, is back at  *)
(* the top of its loop.                                                    *)
Takes(kind) ==
    /\ worker = "waiting" /\ queue # <<>> /\ Head(queue).kind = kind
    /\ queue' = Tail(queue)

Continues == worker' = "top" /\ UNCHANGED <<wait, due>>

Slot(svc) == {p \in pending : p.svc = svc}

(* send_payload on a channel that is charged: Sent charges one unit; a     *)
(* frame that is not sent leaves the credit alone, and makes the state     *)
(* CONGESTED, whatever it was, when the credit is what it lacks.           *)
Sent(ch) == credit[ch] > 0 /\ credit' = [credit EXCEPT ![ch] = @ - 1]
                /\ UNCHANGED state
NotSent(ch) == /\ UNCHANGED credit
               /\ \/ UNCHANGED state
                  \/ credit[ch] = 0 /\ state' = "CONGESTED"

(* send_rpc of a response to request r that carries the result of request  *)
(* "of".                                                                   *)
Respond(r, of) ==
    \/ /\ Sent("rpc")
       /\ answers' = [answers EXCEPT ![r] =
                         Append(@, [session |-> session, of |-> of])]
    \/ NotSent("rpc") /\ UNCHANGED answers

(* tx_credit plus one unit; an update that would overflow is refused.  The *)
(* slip adds it all the same.                                              *)
MayAddCreditAlways(ch) == TRUE
MayAddCredit(ch)       == credit[ch] < MaxCredit

(* The slot a completed operation belongs to: the operation ids are equal  *)
(* and the session is still the one of the request.  The slips leave out   *)
(* the id, or take completions in READY only.                              *)
FinishesAnyOperation(done) == {p \in Slot(done.svc) : p.session = session}
FinishesIfReady(done) ==
    {p \in Slot(done.svc) : state = "READY" /\ p.op = done.op /\ p.session = session}
Finishes(done) == {p \in Slot(done.svc) : p.op = done.op /\ p.session = session}

-----------------------------------------------------------------------------
(* The application's calls.                                                *)

(* wlh_coproc_start looks at the state only: tx_credit, the pending slots  *)
(* and the id counters are those of the last run.  As in HostCore, the     *)
(* application does not start a core twice, nor while it is being stopped, *)
(* which the state alone would not refuse.                                 *)
Start ==
    /\ state = "STOPPED" /\ worker \in {"none", "exited"} /\ stopper = "idle"
    /\ worker' = "created" /\ started' = TRUE /\ queue' = <<>>
    /\ UNCHANGED <<state, session, opened, credit, pending, nextOp, wait, due,
                   stopper, envVars, answers>>

StopCall ==
    /\ stopper = "idle" /\ CanEnqueue
    /\ Enqueue([kind |-> "STOP"]) /\ stopper' = "joining"
    /\ UNCHANGED <<state, session, opened, credit, pending, nextOp, taskVars,
                   started, envVars, answers>>

StopReturns ==
    /\ stopper = "joining" /\ worker = "exited"
    /\ stopper' = "idle" /\ started' = FALSE /\ queue' = <<>>
    /\ UNCHANGED <<state, session, opened, credit, pending, nextOp, taskVars,
                   envVars, answers>>

StopTimesOut ==
    /\ stopper = "joining" /\ stopper' = "idle"
    /\ UNCHANGED <<state, session, opened, credit, pending, nextOp, queue,
                   taskVars, started, envVars, answers>>

(* ethernet_send, send_event_message, Bluetooth and OTA records: no credit *)
(* is asked for.                                                           *)
SendCall(ch) ==
    /\ CanEnqueue /\ Enqueue([kind |-> "TX", ch |-> ch])
    /\ UNCHANGED <<state, session, opened, credit, pending, nextOp, taskVars,
                   apiVars, envVars, answers>>

-----------------------------------------------------------------------------
(* The core task.                                                          *)

WorkerBegins ==
    /\ worker = "created" /\ worker' = "top"
    /\ state' = "WAITING_FOR_HELLO" /\ due' = FALSE
    /\ UNCHANGED <<session, opened, credit, pending, nextOp, queue, wait,
                   apiVars, envVars, answers>>

(* The top of the loop: Ethernet credit that could not be returned is      *)
(* tried again after 1 ms (see CoprocEthernetRx); a heartbeat that is due  *)
(* is sent; coproc_next_wait_ms has a deadline in READY only.              *)
LoopTop ==
    /\ worker = "top" /\ worker' = "waiting"
    /\ due' = (due /\ state \notin {"READY", "CONGESTED"})
    /\ wait' \in {"retry", IF state = "READY" THEN "heartbeat" ELSE "forever"}
    /\ UNCHANGED <<state, session, opened, credit, pending, nextOp, queue,
                   apiVars, envVars, answers>>

(* queue_receive times out.                                                *)
WaitEnds ==
    /\ worker = "waiting" /\ queue = <<>>
    /\ wait = "retry" \/ (wait = "heartbeat" /\ due)
    /\ worker' = "top"
    /\ UNCHANGED <<state, session, opened, credit, pending, nextOp, queue,
                   wait, due, apiVars, envVars, answers>>

(* COPROC_JOB_STOP ends the loop.                                          *)
HandleStop ==
    /\ Takes("STOP") /\ worker' = "exited"
    /\ state' = "STOPPED" /\ session' = 0
    /\ UNCHANGED <<opened, credit, pending, nextOp, wait, due, apiVars,
                   envVars, answers>>

HandleTransportFailed ==
    /\ Takes("TRANSPORT_FAILED") /\ Continues
    /\ state' = "FAILED"
    /\ UNCHANGED <<session, opened, credit, pending, nextOp, apiVars, envVars,
                   answers>>

(* RPC_EVENT, ETHERNET_TX, BLUETOOTH_TX and OTA credit jobs.               *)
HandleTx ==
    /\ Takes("TX") /\ Continues
    /\ Sent(Head(queue).ch) \/ NotSent(Head(queue).ch)
    /\ UNCHANGED <<session, opened, pending, nextOp, apiVars, envVars, answers>>

(* WIFI_INITIALIZED and ETH_INFO jobs: the slot is freed before the answer *)
(* is sent; a completion without a slot is dropped.                        *)
HandleDone ==
    /\ Takes("DONE") /\ Continues
    /\ LET done == Head(queue).done IN
         \/ /\ Finishes(done) = {}
            /\ UNCHANGED <<state, credit, pending, answers>>
         \/ \E p \in Finishes(done) :
              pending' = pending \ {p} /\ Respond(p.req, done.req)
    /\ UNCHANGED <<session, opened, nextOp, apiVars, envVars>>

-----------------------------------------------------------------------------
(* process_frame and handle_rpc.                                           *)

Rx == Head(queue).frame
TakesFrame(type) == Takes("RX_FRAME") /\ Rx.type = type /\ Continues

(* handle_hello_request, in any state.  A Hello that is malformed, has no  *)
(* common version, or finds no buffer changes nothing.                     *)
HandleHelloIgnored ==
    /\ TakesFrame("HELLO")
    /\ UNCHANGED <<state, session, opened, credit, pending, nextOp, apiVars,
                   envVars, answers>>

(* send_hello_response.  No buffer: the old session goes on with its slots *)
(* emptied.  Otherwise the id is used up and the credit granted; a refused *)
(* response leaves no session, in whatever state.                          *)
SendHelloResponse ==
    \/ UNCHANGED <<state, session, opened, credit>>
    \/ /\ opened' = opened + 1
       /\ credit' = [ch \in Channels |-> InitialCredit]
       /\ \/ session' = 0 /\ UNCHANGED state
          \/ session' = opened' /\ state' = "READY"

HandleHello ==
    /\ TakesFrame("HELLO")
    /\ pending' = {} /\ SendHelloResponse
    /\ UNCHANGED <<nextOp, apiVars, envVars, answers>>

(* CREDIT_UPDATE of the present session.                                   *)
HandleCreditUpdate ==
    /\ TakesFrame("CREDIT")
    /\ IF Rx.hdr = session /\ MayAddCredit(Rx.ch)
       THEN /\ credit' = [credit EXCEPT ![Rx.ch] = @ + 1]
            /\ state' = IF state = "CONGESTED" THEN "READY" ELSE state
       ELSE UNCHANGED <<state, credit>>
    /\ UNCHANGED <<session, opened, pending, nextOp, apiVars, envVars, answers>>

(* A request is looked at in READY and in its session only; otherwise, or  *)
(* when it is malformed, it is dropped without a response.                 *)
Accepts == state = "READY" /\ Rx.hdr = session

HandleRequestDropped ==
    /\ TakesFrame("REQUEST")
    /\ UNCHANGED <<state, session, opened, credit, pending, nextOp, apiVars,
                   envVars, answers>>

(* Services answered at once, the ones not supported, and those whose slot *)
(* is taken (BUSY).                                                        *)
HandleRequestAtOnce ==
    /\ TakesFrame("REQUEST") /\ Accepts
    /\ Rx.svc = Immediate \/ Slot(Rx.svc) # {}
    /\ Respond(Rx.req, Rx.req)
    /\ UNCHANGED <<session, opened, pending, nextOp, apiVars, envVars>>

(* INITIALIZE and GET_INFO: the slot is taken before the backend is called.*)
(* When the backend refuses, it is freed and the refusal answered.         *)
HandleSubmit ==
    /\ TakesFrame("REQUEST") /\ Accepts
    /\ Rx.svc \in Services /\ Slot(Rx.svc) = {}
    /\ nextOp' = nextOp + 1
    /\ \/ /\ pending' = pending \cup
                {[svc |-> Rx.svc, op |-> nextOp, req |-> Rx.req, session |-> session]}
          /\ ops' = ops \cup {[svc |-> Rx.svc, op |-> nextOp, req |-> Rx.req]}
          /\ UNCHANGED <<state, credit, answers>>
       \/ Respond(Rx.req, Rx.req) /\ UNCHANGED <<pending, ops>>
    /\ UNCHANGED <<session, opened, apiVars, hellos, asked>>

HandleJob ==
    \/ HandleStop \/ HandleTransportFailed \/ HandleTx \/ HandleDone
    \/ HandleHelloIgnored \/ HandleHello \/ HandleCreditUpdate
    \/ HandleRequestDropped \/ HandleRequestAtOnce \/ HandleSubmit

-----------------------------------------------------------------------------
(* The environment.                                                        *)

Tick ==
    /\ worker \in {"top", "waiting"} /\ ~due /\ due' = TRUE
    /\ UNCHANGED <<state, session, opened, credit, pending, nextOp, queue,
                   worker, wait, apiVars, envVars, answers>>

(* wlh_coproc_wifi_initialized, wlh_coproc_eth_info_ready.  A full queue   *)
(* refuses, and the backend calls again; a core that is not started        *)
(* refuses for good.                                                       *)
BackendCompletes(done) ==
    /\ done \in ops /\ ops' = ops \ {done}
    /\ \/ CanEnqueue /\ Enqueue([kind |-> "DONE", done |-> done])
       \/ ~started /\ UNCHANGED queue
    /\ UNCHANGED <<state, session, opened, credit, pending, nextOp, taskVars,
                   apiVars, hellos, asked, answers>>

(* tx_complete with an error.                                              *)
TransportFails ==
    /\ CanEnqueue /\ Enqueue([kind |-> "TRANSPORT_FAILED"])
    /\ UNCHANGED <<state, session, opened, credit, pending, nextOp, taskVars,
                   apiVars, envVars, answers>>

(* wlh_coproc_on_frame: the host sends in any session it has heard of, and *)
(* each request once.  A frame lost on the way is one that is not sent.    *)
OnFrame(f) ==
    /\ CanEnqueue /\ f.hdr <= opened
    /\ Enqueue([kind |-> "RX_FRAME", frame |-> f])
    /\ IF f.type = "HELLO"
       THEN hellos < MaxHellos /\ hellos' = hellos + 1
       ELSE UNCHANGED hellos
    /\ IF f.type = "REQUEST"
       THEN asked[f.req] = -1 /\ asked' = [asked EXCEPT ![f.req] = f.hdr]
       ELSE UNCHANGED asked
    /\ UNCHANGED <<state, session, opened, credit, pending, nextOp, taskVars,
                   apiVars, ops, answers>>

-----------------------------------------------------------------------------
Api == Start \/ StopCall \/ StopReturns \/ StopTimesOut
          \/ \E ch \in Channels : SendCall(ch)

Worker == WorkerBegins \/ LoopTop \/ WaitEnds \/ HandleJob

Environment == Tick \/ TransportFails
                  \/ (\E done \in ops : BackendCompletes(done))
                  \/ (\E f \in Frames : OnFrame(f))

Next == Api \/ Worker \/ Environment

Spec == Init /\ [][Next]_vars

(* The core task is scheduled, time passes, task_join returns, and every   *)
(* operation a backend accepted is completed: it calls again as long as    *)
(* the queue is full, which others may fill between its calls, hence       *)
(* strong fairness.                                                        *)
Fairness ==
    /\ WF_vars(Worker) /\ WF_vars(Tick) /\ WF_vars(StopReturns)
    /\ SF_vars(\E done \in ops : BackendCompletes(done))

FairSpec == Spec /\ Fairness

-----------------------------------------------------------------------------
TypeOK ==
    /\ state \in States /\ session \in Sessions /\ opened \in Sessions
    /\ credit \in [Channels -> 0 .. MaxCredit]
    /\ pending \in SUBSET Slots /\ nextOp \in Nat
    /\ queue \in Seq(Jobs) /\ Len(queue) <= Depth
    /\ worker \in {"none", "created", "top", "waiting", "exited"}
    /\ wait \in {"forever", "heartbeat", "retry"} /\ due \in BOOLEAN
    /\ started \in BOOLEAN /\ stopper \in {"idle", "joining"}
    /\ hellos \in 0 .. MaxHellos
    /\ asked \in [Requests -> Sessions \cup {-1}]
    /\ ops \in SUBSET Operations
    /\ answers \in [Requests -> Seq(Answers)]

(* A request is answered at most once, in the session it was asked in, and *)
(* with the result of its own operation: completions that come late, after *)
(* another Hello or another start, answer nothing and nobody else          *)
(* (coproc.c:250, coproc_eth.c:110, coproc_link.c:241-247).                *)
AnsweredOnce ==
    \A r \in Requests :
        /\ Len(answers[r]) <= 1
        /\ \A i \in 1 .. Len(answers[r]) :
               answers[r][i] = [session |-> asked[r], of |-> r]

(* In a session, the operations under way are operations of that session:  *)
(* none a former session left behind keeps a service BUSY                  *)
(* (coproc_link.c:241-247, coproc_wifi.c:49, coproc_eth.c:61).             *)
SlotsAreCurrent == session # 0 => \A p \in pending : p.session = session

(* An operation submitted in a session ends in it: it is answered or       *)
(* dropped, or the session or the core is over; its slot is not BUSY for   *)
(* ever (coproc.c:250, coproc_eth.c:110).                                  *)
OperationEnds ==
    \A svc \in Services : \A s \in Sessions \ {0} :
        (session = s /\ Slot(svc) # {}) ~> (session # s \/ Slot(svc) = {})

=============================================================================
