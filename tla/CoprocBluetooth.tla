---------------------------- MODULE CoprocBluetooth ----------------------------
(***************************************************************************)
(* The Bluetooth controller service of the Coprocessor Core                *)
(* (coproc_bluetooth.c): the controller's state, driven by the host's      *)
(* requests through an asynchronous backend, and the HCI packets the       *)
(* backend's threads send, each with a reserved unit of credit.            *)
(*                                                                         *)
(* The job queue is seen as far as it holds packets.  Requests, Hellos and *)
(* completions in it come between the packets at any place, and take room  *)
(* in it, so that a packet may find it full at any time.                   *)
(***************************************************************************)
EXTENDS Integers, Sequences, FiniteSets, QueueCounts

CONSTANTS
    Threads,    \* threads of the backend inside wlh_coproc_bluetooth_hci_send
    HciCredit,  \* WLH_COPROC_BLUETOOTH_INITIAL_CREDIT
    AdvCredit,  \* WLH_COPROC_BLUETOOTH_ADV_INITIAL_CREDIT
    Depth,      \* bound: packets in the job queue
    MaxHellos,  \* bound: Hellos handled
    MaxOp       \* bound: operations submitted to the backend

ASSUME CoprocBluetoothAssumption ==
    /\ IsFiniteSet(Threads)
    /\ HciCredit \in Nat \ {0} /\ AdvCredit \in Nat \ {0} /\ Depth \in Nat \ {0}
    /\ MaxHellos \in Nat /\ MaxOp \in Nat

VARIABLES
    running,    \* worker_started
    session,    \* coproc->session_id, named by the Hello that opened it
    epoch,      \* Hellos handled so far
    adv,        \* bluetooth_adv_channel
    state,      \* bluetooth_state
    stopped,    \* bluetooth_hci_stopped
    pending,    \* bluetooth_pending; NoOp when not active
    submitted,  \* operations submitted so far: the last operation id
    ops,        \* operations the backend works on, with the epoch they are of
    controller, \* what the operations of this epoch have made of the controller
    overtaken,  \* an error that still stops HCI came during an operation
    credit,     \* tx_credit of the two HCI channels
    inflight,   \* bluetooth_tx_inflight, bluetooth_adv_tx_inflight
    queue,      \* packets in the job queue
    at,         \* the packet a thread has reserved a unit for
    crossed,    \* packets reserved before the last Hello and done with after it
    waiting,    \* the backend was refused for credit and not told since
    freed       \* since it was refused, a unit became free without a credit update

serviceVars == <<state, stopped, pending, submitted, ops, controller, overtaken>>
packetVars  == <<credit, inflight, queue, at, crossed>>
waitVars    == <<waiting, freed>>
linkVars    == <<running, session, epoch, adv>>
vars == <<linkVars, serviceVars, packetVars, waitVars>>

-----------------------------------------------------------------------------
States   == {"UNSPECIFIED", "DISABLED", "ENABLED", "ERROR"}
Methods  == {"INITIALIZE", "ENABLE", "DISABLE", "DEINITIALIZE", "GET_INFO"}
Channels == {"hci", "adv"}
Epochs   == 0 .. MaxHellos

NoOp       == [op |-> 0]
Pending    == {NoOp} \cup [op : 1 .. MaxOp, session : Epochs, method : Methods]
Operations == [op : 1 .. MaxOp, epoch : Epochs, method : Methods]
Packets    == [ch : Channels, epoch : Epochs]
NoPacket   == [ch |-> "none"]

(* What send_hello_response grants.                                        *)
Window(ch, withAdv) == CASE ch = "hci" -> HciCredit
                         [] ch = "adv" -> IF withAdv THEN AdvCredit ELSE 0

Init ==
    /\ running = FALSE /\ session = 0 /\ epoch = 0 /\ adv = FALSE
    /\ state = "UNSPECIFIED" /\ stopped = FALSE /\ pending = NoOp
    /\ submitted = 0 /\ ops = {} /\ controller = "UNSPECIFIED" /\ overtaken = FALSE
    /\ credit = [ch \in Channels |-> 0] /\ inflight = [ch \in Channels |-> 0]
    /\ queue = <<>> /\ at = [t \in Threads |-> NoPacket]
    /\ crossed = [ch \in Channels |-> 0]
    /\ waiting = FALSE /\ freed = FALSE

-----------------------------------------------------------------------------
Start ==
    /\ ~running /\ running' = TRUE
    /\ UNCHANGED <<session, epoch, adv, serviceVars, packetVars, waitVars>>

(* The queue is destroyed with the packets in it; neither the counters nor *)
(* the pending operation are reset, by this or by the next start.          *)
Stop ==
    /\ running /\ running' = FALSE
    /\ \A t \in Threads : at[t] = NoPacket
    /\ session' = 0 /\ queue' = <<>>
    /\ UNCHANGED <<epoch, adv, serviceVars, credit, inflight, at, crossed, waitVars>>

(* handle_hello_request: everything is reset, then the response is made.   *)
(* Without a buffer for it the session and the credit stay; when it is not *)
(* sent there is no session.                                               *)
Hello ==
    /\ running /\ epoch < MaxHellos /\ epoch' = epoch + 1 /\ adv' \in BOOLEAN
    /\ pending' = NoOp /\ state' = "UNSPECIFIED" /\ stopped' = FALSE
    /\ inflight' = [ch \in Channels |-> 0]
    /\ \/ UNCHANGED <<session, credit>>
       \/ /\ session' \in {0, epoch'}
          /\ credit' = [ch \in Channels |-> Window(ch, adv')]
    /\ controller' = "UNSPECIFIED" /\ overtaken' = FALSE
    /\ crossed' = [ch \in Channels |-> 0] /\ freed' = TRUE
    /\ UNCHANGED <<running, submitted, ops, queue, at, waiting>>

(* A Hello for another version is refused after its channels were looked   *)
(* at.                                                                     *)
HelloRefused ==
    /\ running /\ adv' \in BOOLEAN
    /\ UNCHANGED <<running, session, epoch, serviceVars, packetVars, waitVars>>

-----------------------------------------------------------------------------
(* The states in which a request reaches the backend; in the others it is  *)
(* answered at once, and so is any request while an operation is pending.  *)
Submits(method) ==
    CASE method = "INITIALIZE"   -> state = "UNSPECIFIED"
      [] method = "ENABLE"       -> state = "DISABLED"
      [] method = "DISABLE"      -> state \in {"ENABLED", "ERROR"}
      [] method = "DEINITIALIZE" -> state # "UNSPECIFIED"
      [] method = "GET_INFO"     -> TRUE

(* The backend accepts the operation, or refuses and nothing is pending.   *)
Request(method) ==
    /\ running /\ session # 0 /\ pending = NoOp /\ Submits(method)
    /\ submitted < MaxOp /\ submitted' = submitted + 1
    /\ \/ /\ pending' = [op |-> submitted', session |-> session, method |-> method]
          /\ ops' = ops \cup {[op |-> submitted', epoch |-> epoch, method |-> method]}
       \/ UNCHANGED <<pending, ops>>
    /\ UNCHANGED <<linkVars, state, stopped, controller, overtaken, packetVars, waitVars>>

(* What a method makes of a controller in state s.                         *)
After(method, s) ==
    CASE method \in {"INITIALIZE", "DISABLE"} -> "DISABLED"
      [] method = "ENABLE"                    -> "ENABLED"
      [] method = "DEINITIALIZE"              -> "UNSPECIFIED"
      [] method = "GET_INFO"                  -> s

(* The methods that let HCI flow again.  The slip forgets DISABLE.         *)
ClearsOnlyDeinitialize(method) == method = "DEINITIALIZE"
Clears(method) == method \in {"DISABLE", "DEINITIALIZE"}

(* The completed operation is the pending one, and its session goes on.    *)
(* The slip takes any completion.                                          *)
FinishesAny(o) == pending # NoOp /\ pending.session = session
Finishes(o) == pending # NoOp /\ pending.op = o.op /\ pending.session = session

(* bluetooth_operation_completed, bluetooth_info_completed.  They do not   *)
(* look at what became of the state meanwhile.                             *)
OperationCompletes(o, ok) ==
    /\ running /\ ops' = ops \ {o}
    /\ controller' = IF ok /\ o.epoch = epoch THEN After(o.method, controller)
                                              ELSE controller
    /\ IF Finishes(o)
       THEN /\ pending' = NoOp
            /\ state' = IF ok THEN After(pending.method, state) ELSE state
            /\ stopped' = (stopped /\ ~(ok /\ Clears(pending.method)))
            /\ overtaken' = (overtaken /\ ~(ok /\ pending.method \in {"DISABLE", "DEINITIALIZE"}))
       ELSE UNCHANGED <<pending, state, stopped, overtaken>>
    /\ UNCHANGED <<linkVars, submitted, packetVars, waitVars>>

(* bluetooth_enter_error: the backend reports a fatal error, or a frame    *)
(* from the host is malformed.  Other frames from the host change nothing  *)
(* here.                                                                   *)
EnterError ==
    /\ running /\ state' = "ERROR" /\ stopped' = TRUE
    /\ overtaken' = (overtaken \/ pending # NoOp)
    /\ UNCHANGED <<linkVars, pending, submitted, ops, controller, packetVars, waitVars>>

-----------------------------------------------------------------------------
(* wlh_coproc_bluetooth_hci_send.                                          *)

(* There is a unit that no other packet has reserved.  The slip has one    *)
(* more.                                                                   *)
HasUnitOrNone(ch) == credit[ch] >= inflight[ch]
HasUnit(ch) == credit[ch] > inflight[ch]

(* A unit is reserved under the mutex ...                                  *)
Reserve(t, report) ==
    LET ch == IF report /\ adv THEN "adv" ELSE "hci" IN
    /\ running /\ at[t] = NoPacket /\ ~stopped
    /\ HasUnit(ch)
    /\ inflight' = [inflight EXCEPT ![ch] = @ + 1]
    /\ at' = [at EXCEPT ![t] = [ch |-> ch, epoch |-> epoch]]
    /\ waiting' = (waiting /\ ch = "adv")
    /\ UNCHANGED <<linkVars, serviceVars, credit, queue, crossed, freed>>

(* ... or there is none: the backend keeps the packet until it is told.    *)
(* A report for its own channel is dropped, which changes nothing.         *)
RefuseForCredit ==
    /\ running /\ ~stopped /\ ~HasUnit("hci")
    /\ \E t \in Threads : at[t] = NoPacket
    /\ waiting' = TRUE /\ freed' = FALSE
    /\ UNCHANGED <<linkVars, serviceVars, packetVars>>

(* The packet is queued after the mutex is released.                       *)
Enqueue(t) ==
    /\ running /\ at[t] # NoPacket /\ Len(queue) < Depth
    /\ queue' = Append(queue, at[t]) /\ at' = [at EXCEPT ![t] = NoPacket]
    /\ UNCHANGED <<linkVars, serviceVars, credit, inflight, crossed, waitVars>>

(* A reservation is given back, if the counter still has one.              *)
OneLess(n) == IF n > 0 THEN n - 1 ELSE 0
GivesBack(p) ==
    /\ inflight' = [inflight EXCEPT ![p.ch] = OneLess(@)]
    /\ crossed' = IF p.epoch = epoch THEN crossed
                                     ELSE [crossed EXCEPT ![p.ch] = @ + 1]

(* A unit of HCI that comes free in another way than by a credit update.   *)
Frees(p) == freed' = (freed \/ p.ch = "hci")

(* No buffer, or no room in the queue.  The slip keeps the reservation.    *)
GiveUpKeepsReservation(t) ==
    /\ running /\ at[t] # NoPacket
    /\ at' = [at EXCEPT ![t] = NoPacket] /\ Frees(at[t])
    /\ UNCHANGED <<linkVars, serviceVars, credit, inflight, queue, crossed, waiting>>

GiveUp(t) ==
    /\ running /\ at[t] # NoPacket /\ GivesBack(at[t])
    /\ at' = [at EXCEPT ![t] = NoPacket] /\ Frees(at[t])
    /\ UNCHANGED <<linkVars, serviceVars, credit, queue, waiting>>

(* COPROC_JOB_BLUETOOTH_TX: the reservation is given back, and the packet  *)
(* is sent, or dropped because HCI is stopped, because there is no credit  *)
(* after all, or because the transport or the buffers fail.                *)
HandleTx ==
    /\ running /\ queue # <<>> /\ queue' = Tail(queue) /\ GivesBack(Head(queue))
    /\ \/ /\ ~stopped /\ credit[Head(queue).ch] > 0
          /\ credit' = [credit EXCEPT ![Head(queue).ch] = @ - 1] /\ UNCHANGED freed
       \/ Frees(Head(queue)) /\ UNCHANGED credit
    /\ UNCHANGED <<linkVars, serviceVars, at, waiting>>

(* The update that lets the backend go on.  The slip tells it only when    *)
(* there was no credit at all.                                             *)
TellsAtZero(n) == credit["hci"] = 0 /\ n > inflight["hci"]
Tells(n) == credit["hci"] <= inflight["hci"] /\ credit["hci"] + n > inflight["hci"]

(* CREDIT_UPDATE of n units.  The host returns what it was sent.           *)
CreditUpdate(ch, n) ==
    /\ running /\ session # 0 /\ credit[ch] + n <= Window(ch, TRUE)
    /\ credit' = [credit EXCEPT ![ch] = @ + n]
    /\ waiting' = (waiting /\ ~(ch = "hci" /\ Tells(n)))
    /\ UNCHANGED <<linkVars, serviceVars, inflight, queue, at, crossed, freed>>

-----------------------------------------------------------------------------
Link == Start \/ Stop \/ Hello \/ HelloRefused

Service ==
    \/ EnterError
    \/ \E method \in Methods : Request(method)
    \/ \E o \in ops, ok \in BOOLEAN : OperationCompletes(o, ok)

Send ==
    \/ RefuseForCredit
    \/ \E t \in Threads : Enqueue(t) \/ GiveUp(t) \/ \E report \in BOOLEAN : Reserve(t, report)

Worker ==
    \/ HandleTx
    \/ \E n \in 1 .. HciCredit : CreditUpdate("hci", n)
    \/ \E n \in 1 .. AdvCredit : CreditUpdate("adv", n)

Next == Link \/ Service \/ Send \/ Worker

Spec == Init /\ [][Next]_vars

-----------------------------------------------------------------------------
TypeOK ==
    /\ running \in BOOLEAN /\ session \in Epochs /\ epoch \in Epochs /\ adv \in BOOLEAN
    /\ state \in States /\ stopped \in BOOLEAN /\ pending \in Pending
    /\ submitted \in 0 .. MaxOp /\ ops \subseteq Operations
    /\ controller \in States /\ overtaken \in BOOLEAN
    /\ credit \in [Channels -> Nat] /\ inflight \in [Channels -> Nat]
    /\ queue \in Seq(Packets) /\ Len(queue) <= Depth
    /\ at \in [Threads -> Packets \cup {NoPacket}]
    /\ crossed \in [Channels -> Nat]
    /\ waiting \in BOOLEAN /\ freed \in BOOLEAN

(* In a session the core takes the controller to be where the operations   *)
(* of that session have brought it, unless there was an error: whatever    *)
(* completes late, of an earlier session or after the next operation was   *)
(* submitted, is not taken for the pending one (coproc_bluetooth.c:260).   *)
StateFollowsBackend == session # 0 /\ state # "ERROR" => state = controller

(* Where HCI is announced as usable it is not stopped by an error, unless  *)
(* the error came while an operation was under way                         *)
(* (coproc_bluetooth.c:276-291).                                           *)
EnabledCarriesHci == state = "ENABLED" /\ ~overtaken => ~stopped

(* Packets of this epoch that are waiting, in the queue or with a thread.  *)
Waiting(ch) ==
    LET p == [ch |-> ch, epoch |-> epoch]
    IN CountIn(queue, {p}) + Cardinality({t \in Threads : at[t] = p})

(* The counters of reserved units are never above the packets that wait,   *)
(* which would silence the backend for ever, and are below them only by    *)
(* packets of an earlier session, whose reservation the Hello has already  *)
(* taken back (coproc_bluetooth.c:481, coproc.c:329, coproc_link.c:249).   *)
ReservationsCounted ==
    session # 0 => \A ch \in Channels :
        /\ inflight[ch] <= Waiting(ch)
        /\ Waiting(ch) <= inflight[ch] + crossed[ch]

(* A packet that was accepted finds the unit that was reserved for it,     *)
(* unless a packet accepted before the Hello has taken it                  *)
(* (coproc_bluetooth.c:524-526).                                           *)
AcceptedFindsCredit ==
    session # 0 => \A ch \in Channels : crossed[ch] = 0 => Waiting(ch) <= credit[ch]

(* A backend that keeps a packet for want of credit is told when there is  *)
(* some, unless it became free without a credit update: an HCI packet was  *)
(* given up or dropped, or a Hello came (coproc_rpc.c:53-62).  What        *)
(* happens to advertising packets excuses nothing.                         *)
WaiterIsTold == waiting /\ credit["hci"] > inflight["hci"] => freed

=============================================================================
