----------------------------- MODULE HostStreams -----------------------------
(***************************************************************************)
(* The raw record streams of the Host Core: Bluetooth HCI in both          *)
(* directions, and the image data of an update.                            *)
(*                                                                         *)
(* An application thread that sends a record is admitted under state_mutex *)
(* when the session has the service and a unit of credit is not promised   *)
(* to a record already admitted; the promises are counted in               *)
(* bluetooth_tx_inflight and ota_tx_inflight.  The record is queued after  *)
(* the mutex is released, and the core task takes its promise back when it *)
(* hands the record to the transport.                                      *)
(*                                                                         *)
(* In the other direction the coprocessor spends a unit for every HCI      *)
(* frame, which the core task returns when it has delivered it.            *)
(***************************************************************************)
EXTENDS Integers, Sequences, FiniteSets, QueueCounts

CONSTANTS
    Threads,        \* application threads that send records
    Inbound,        \* channels of HCI frames to the Host: ordinary, advertising
    Depth,          \* core_queue_depth
    InitialCredit,  \* what a Hello response grants a stream
    RxWindow,       \* what the coprocessor may have outstanding per channel
    MaxSession      \* bound: sessions ever opened

ASSUME HostStreamsAssumption ==
    /\ IsFiniteSet(Threads) /\ Inbound \cap {"hci", "ota", "none"} = {}
    /\ Depth \in Nat \ {0} /\ InitialCredit \in Nat \ {0}
    /\ RxWindow \in Nat \ {0} /\ MaxSession \in Nat \ {0}

Streams  == {"hci", "ota"}                  \* Host to coprocessor
Sessions == 0 .. MaxSession
BluetoothStates == {"UNSPECIFIED", "DISABLED", "ENABLED", "ERROR"}

Records == [ch : Streams, of : Sessions]    \* of: the session it was admitted in
Frames  == [ch : Inbound, of : Sessions]    \* of: the session in its header
Jobs    == Records \cup Frames
NoRecord == [ch |-> "none"]

VARIABLES
    running,    \* the core task exists
    session,    \* session_id, 0 when there is none
    opened,     \* sessions opened so far
    supported,  \* bluetooth_supported and ota_supported
    bluetooth,  \* bluetooth_state
    stopped,    \* bluetooth_hci_stopped
    credit,     \* tx_credit
    inflight,   \* bluetooth_tx_inflight and ota_tx_inflight
    queue,      \* core_queue, its records and its HCI frames
    at,         \* the record a thread has been admitted with and not yet queued
    crossed,    \* records of an earlier session that took a promise of this one
    abandoned,  \* promises of records that a stop destroyed with the queue
    waiting,    \* an application was refused for credit and not told since
    freed,      \* a unit became free other than by a credit update since then
    window,     \* units the coprocessor has left to send HCI frames with
    gone        \* units of this session that were never returned

linkVars   == <<running, session, opened, supported>>
bluezVars  == <<bluetooth, stopped>>
recordVars == <<credit, inflight, at, crossed, abandoned>>
waitVars   == <<waiting, freed>>
rxVars     == <<window, gone>>
vars == <<linkVars, bluezVars, recordVars, queue, waitVars, rxVars>>

-----------------------------------------------------------------------------
Init ==
    /\ running = FALSE /\ session = 0 /\ opened = 0
    /\ supported = [s \in Streams |-> FALSE]
    /\ bluetooth = "UNSPECIFIED" /\ stopped = FALSE
    /\ credit = [s \in Streams |-> 0] /\ inflight = [s \in Streams |-> 0]
    /\ queue = <<>> /\ at = [t \in Threads |-> NoRecord]
    /\ crossed = [s \in Streams |-> 0] /\ abandoned = [s \in Streams |-> 0]
    /\ waiting = [s \in Streams |-> FALSE] /\ freed = [s \in Streams |-> FALSE]
    /\ window = [ch \in Inbound |-> 0] /\ gone = [ch \in Inbound |-> 0]

RecordsOf(s) == [ch : {s}, of : Sessions]

(* Records on stream s that are admitted and not handed on: all of them,   *)
(* and those admitted in this session.                                     *)
Outstanding(s) ==
    CountIn(queue, RecordsOf(s)) + Cardinality({t \in Threads : at[t].ch = s})
Fresh(s) ==
    LET r == [ch |-> s, of |-> opened]
    IN CountIn(queue, {r}) + Cardinality({t \in Threads : at[t] = r})

-----------------------------------------------------------------------------
(* wlh_host_start                                                          *)
Start ==
    /\ ~running /\ running' = TRUE
    /\ UNCHANGED <<session, opened, supported, bluezVars, recordVars, queue,
                   waitVars, rxVars>>

(* wlh_host_stop, with finish_shutdown: the queue is destroyed with the    *)
(* records in it; of what the streams keep, only the session id is reset.  *)
(* No application thread may be inside a call then: its mutex goes too.    *)
Stop ==
    /\ running /\ running' = FALSE
    /\ \A t \in Threads : at[t] = NoRecord
    /\ session' = 0 /\ queue' = <<>>
    /\ abandoned' = [s \in Streams |-> abandoned[s] + CountIn(queue, RecordsOf(s))]
    /\ waiting' = [s \in Streams |-> FALSE]
    /\ UNCHANGED <<opened, supported, bluezVars, credit, inflight, at,
                   crossed, freed, rxVars>>

(* What every way to lose a session does to the streams.  The slip leaves  *)
(* the promises as they are.                                               *)
ForgetStreamsKeepsPromises ==
    /\ session' = 0 /\ supported' = [s \in Streams |-> FALSE]
    /\ stopped' = FALSE /\ bluetooth' = "UNSPECIFIED"
    /\ UNCHANGED inflight
    /\ abandoned' = [s \in Streams |-> 0]
    /\ crossed' = crossed /\ freed' = [s \in Streams |-> TRUE]

ForgetStreams ==
    /\ session' = 0 /\ supported' = [s \in Streams |-> FALSE]
    /\ stopped' = FALSE /\ bluetooth' = "UNSPECIFIED"
    /\ inflight' = [s \in Streams |-> 0]
    /\ abandoned' = [s \in Streams |-> 0]
    /\ crossed' = crossed /\ freed' = [s \in Streams |-> TRUE]

(* process_transport_lost and handle_session_changed, which also withdraw  *)
(* the credit.                                                             *)
LoseSession ==
    /\ running /\ ForgetStreams
    /\ credit' = [s \in Streams |-> 0]
    /\ UNCHANGED <<running, opened, at, queue, waiting, rxVars>>

(* handle_hello_response, when the host negotiates and so has no session.  *)
(* The counters of promises stay as they are.                              *)
OpenSession ==
    /\ running /\ session = 0 /\ opened < MaxSession
    /\ opened' = opened + 1 /\ session' = opened'
    /\ supported' \in [Streams -> BOOLEAN]
    /\ stopped' = FALSE /\ bluetooth' = "UNSPECIFIED"
    /\ credit' = [s \in Streams |-> InitialCredit]
    /\ crossed' = [s \in Streams |-> 0] /\ freed' = [s \in Streams |-> TRUE]
    /\ window' = [ch \in Inbound |-> RxWindow] /\ gone' = [ch \in Inbound |-> 0]
    /\ UNCHANGED <<running, inflight, at, abandoned, queue, waiting>>

-----------------------------------------------------------------------------
(* wlh_host_bluetooth_hci_send, wlh_host_ota_stream_send.                  *)

MaySend(s) == supported[s] /\ ~(s = "hci" /\ stopped)

(* There is a unit no other record has been promised.  The slip has one    *)
(* more.                                                                   *)
HasUnitOrNone(s) == credit[s] >= inflight[s]
HasUnit(s) == credit[s] > inflight[s]

(* Under the mutex a unit is promised ...                                  *)
Admit(t, s) ==
    /\ running /\ at[t] = NoRecord /\ MaySend(s) /\ HasUnit(s)
    /\ inflight' = [inflight EXCEPT ![s] = @ + 1]
    /\ at' = [at EXCEPT ![t] = [ch |-> s, of |-> opened]]
    /\ waiting' = [waiting EXCEPT ![s] = FALSE]
    /\ UNCHANGED <<linkVars, bluezVars, credit, crossed, abandoned, queue,
                   freed, rxVars>>

(* ... or there is none, and the caller retries when it is told to.        *)
RefuseForCredit(s) ==
    /\ running /\ MaySend(s) /\ ~HasUnit(s)
    /\ \E t \in Threads : at[t] = NoRecord
    /\ waiting' = [waiting EXCEPT ![s] = TRUE]
    /\ freed' = [freed EXCEPT ![s] = FALSE]
    /\ UNCHANGED <<linkVars, bluezVars, recordVars, queue, rxVars>>

(* The record is queued after the mutex is released.                       *)
Enqueue(t) ==
    /\ running /\ at[t] # NoRecord /\ Len(queue) < Depth
    /\ queue' = Append(queue, at[t]) /\ at' = [at EXCEPT ![t] = NoRecord]
    /\ UNCHANGED <<linkVars, bluezVars, credit, inflight, crossed, abandoned,
                   waitVars, rxVars>>

(* A promise is taken back, if the counter has one.                        *)
OneLess(n) == IF n > 0 THEN n - 1 ELSE 0

TakesBack(r) ==
    /\ inflight' = [inflight EXCEPT ![r.ch] = OneLess(@)]
    /\ crossed' = IF r.of = opened THEN crossed
                                   ELSE [crossed EXCEPT ![r.ch] = @ + 1]

(* No buffer for the record, or no room in the queue: the promise is taken *)
(* back under the mutex.  The slip returns without doing so.               *)
GiveUpKeepsPromise(t) ==
    /\ running /\ at[t] # NoRecord /\ at' = [at EXCEPT ![t] = NoRecord]
    /\ freed' = [freed EXCEPT ![at[t].ch] = TRUE]
    /\ UNCHANGED <<linkVars, bluezVars, credit, inflight, crossed, abandoned,
                   queue, waiting, rxVars>>

GiveUp(t) ==
    /\ running /\ at[t] # NoRecord /\ at' = [at EXCEPT ![t] = NoRecord]
    /\ TakesBack(at[t])
    /\ freed' = [freed EXCEPT ![at[t].ch] = TRUE]
    /\ UNCHANGED <<linkVars, bluezVars, credit, abandoned, queue, waiting, rxVars>>

-----------------------------------------------------------------------------
(* The core task.                                                          *)
TakesNext(jobs) == running /\ queue # <<>> /\ Head(queue) \in jobs /\ queue' = Tail(queue)

(* WLH_HOST_JOB_BLUETOOTH_TX, WLH_HOST_JOB_OTA_TX: the promise is taken    *)
(* back, and the record is sent, whatever became of its session, or is     *)
(* lost for want of credit or a buffer, or because the transport refuses.  *)
HandleRecord ==
    /\ TakesNext(Records)
    /\ TakesBack(Head(queue))
    /\ \/ /\ credit[Head(queue).ch] > 0
          /\ credit' = [credit EXCEPT ![Head(queue).ch] = @ - 1]
          /\ UNCHANGED freed
       \/ /\ freed' = [freed EXCEPT ![Head(queue).ch] = TRUE]
          /\ UNCHANGED credit
    /\ UNCHANGED <<linkVars, bluezVars, at, abandoned, waiting, rxVars>>

(* The update after which a refused application is told.  The slip tells   *)
(* it only when there was no credit at all.                                *)
TellsAtZero(s) == credit[s] = 0
Tells(s) == credit[s] <= inflight[s] /\ credit[s] + 1 > inflight[s]

(* handle_credit_update: the coprocessor returns what it was sent.         *)
CreditUpdate(s) ==
    /\ running /\ session # 0 /\ credit[s] < InitialCredit
    /\ credit' = [credit EXCEPT ![s] = @ + 1]
    /\ waiting' = [waiting EXCEPT ![s] = @ /\ ~Tells(s)]
    /\ UNCHANGED <<linkVars, bluezVars, inflight, at, crossed, abandoned,
                   queue, freed, rxVars>>

-----------------------------------------------------------------------------
(* wlh_host_on_frame: a frame of the coprocessor's session is queued, or   *)
(* dropped when there is no room or no memory.                             *)
OnFrame(ch) ==
    /\ running /\ session # 0 /\ window[ch] > 0
    /\ window' = [window EXCEPT ![ch] = @ - 1]
    /\ \/ /\ Len(queue) < Depth
          /\ queue' = Append(queue, [ch |-> ch, of |-> opened])
          /\ UNCHANGED gone
       \/ gone' = [gone EXCEPT ![ch] = @ + 1] /\ UNCHANGED queue
    /\ UNCHANGED <<linkVars, bluezVars, recordVars, waitVars>>

TakesFrame == TakesNext({f \in Frames : session = 0 \/ f.of = session})

(* A frame of another session: the session is given up, with its credit    *)
(* left as it is, and a Hello is sent.                                     *)
HandleOtherSession ==
    /\ TakesNext({f \in Frames : session # 0 /\ f.of # session})
    /\ ForgetStreams
    /\ UNCHANGED <<running, opened, credit, at, waiting, rxVars>>

(* A unit of this session is returned, or never will be.                   *)
Returned(f) == window' = IF f.of = session THEN [window EXCEPT ![f.ch] = @ + 1] ELSE window
Withheld(f) == gone' = IF f.of = session THEN [gone EXCEPT ![f.ch] = @ + 1] ELSE gone

(* process_hci_frame: the frame is well formed, and is delivered.  The     *)
(* unit is returned also when the adapter has no room for the packet,      *)
(* unless the update cannot be sent.  The slip returns it only when the    *)
(* adapter takes the packet.                                               *)
HandleFrameKeepsUnit ==
    /\ ~stopped /\ TakesFrame
    /\ Returned(Head(queue)) \/ UNCHANGED window
    /\ UNCHANGED <<linkVars, bluezVars, recordVars, waitVars, gone>>

HandleFrame ==
    /\ ~stopped /\ TakesFrame
    /\ \/ Returned(Head(queue)) /\ UNCHANGED gone
       \/ Withheld(Head(queue)) /\ UNCHANGED window
    /\ UNCHANGED <<linkVars, bluezVars, recordVars, waitVars>>

(* bluetooth_fault: any record of the frame is malformed.  Nothing of it   *)
(* is delivered and nothing is returned, now or while HCI stays stopped.   *)
HandleMalformed ==
    /\ ~stopped /\ TakesFrame /\ Withheld(Head(queue))
    /\ stopped' = TRUE /\ bluetooth' = "ERROR"
    /\ UNCHANGED <<linkVars, recordVars, waitVars, window>>

HandleFrameStopped ==
    /\ stopped /\ TakesFrame /\ Withheld(Head(queue))
    /\ UNCHANGED <<linkVars, bluezVars, recordVars, waitVars, window>>

(* WLH_BLUETOOTH_EVENT_STATE_CHANGED.                                      *)
HandleStateChanged ==
    /\ running /\ session # 0
    /\ bluetooth' \in BluetoothStates
    /\ UNCHANGED <<linkVars, stopped, recordVars, queue, waitVars, rxVars>>

-----------------------------------------------------------------------------
Link == Start \/ Stop \/ LoseSession \/ OpenSession

Send ==
    \/ \E t \in Threads : Enqueue(t) \/ GiveUp(t) \/ \E s \in Streams : Admit(t, s)
    \/ \E s \in Streams : RefuseForCredit(s)

Worker ==
    \/ HandleRecord \/ HandleOtherSession
    \/ HandleFrame \/ HandleMalformed \/ HandleFrameStopped \/ HandleStateChanged
    \/ \E s \in Streams : CreditUpdate(s)

Next == Link \/ Send \/ Worker \/ \E ch \in Inbound : OnFrame(ch)

Spec == Init /\ [][Next]_vars

-----------------------------------------------------------------------------
TypeOK ==
    /\ running \in BOOLEAN /\ session \in Sessions /\ opened \in Sessions
    /\ supported \in [Streams -> BOOLEAN]
    /\ bluetooth \in BluetoothStates /\ stopped \in BOOLEAN
    /\ credit \in [Streams -> 0 .. InitialCredit] /\ inflight \in [Streams -> Nat]
    /\ queue \in Seq(Jobs) /\ Len(queue) <= Depth
    /\ at \in [Threads -> Records \cup {NoRecord}]
    /\ crossed \in [Streams -> Nat] /\ abandoned \in [Streams -> Nat]
    /\ waiting \in [Streams -> BOOLEAN] /\ freed \in [Streams -> BOOLEAN]
    /\ window \in [Inbound -> Nat] /\ gone \in [Inbound -> Nat]

(* The promises counted are never more than the records that wait, which   *)
(* would silence the stream, but for those a stop destroyed; and never     *)
(* fewer than the records of this session, but for records of an earlier   *)
(* one that took a promise back on their way (host_bluetooth.c:222,        *)
(* host_ota.c:378, host.c:416, host_link.c:309, 380, host_frame.c:108).    *)
PromisesCounted ==
    \A s \in Streams :
        /\ inflight[s] <= Outstanding(s) + abandoned[s]
        /\ session # 0 => Fresh(s) <= inflight[s] + crossed[s]

(* A record that was admitted in this session finds the unit it was        *)
(* promised, whatever lost the session before it, unless a record of an    *)
(* earlier session took it (host_bluetooth.c:257, host_ota.c:329).         *)
AdmittedFindsCredit ==
    session # 0 => \A s \in Streams : crossed[s] = 0 => Fresh(s) <= credit[s]

(* An application that was refused for credit is told when there is some,  *)
(* unless it came free without a credit update (host_link.c:228-245).      *)
RefusedIsTold ==
    \A s \in Streams : waiting[s] /\ credit[s] > inflight[s] => freed[s]

(* Every unit the coprocessor may spend on HCI frames is with it, in the   *)
(* queue, or lost with a frame that was dropped, malformed, came after a   *)
(* fault, or whose update failed: in particular not with a packet the      *)
(* adapter refused (host_bluetooth.c:404-411).                             *)
WindowAccounted ==
    session # 0 => \A ch \in Inbound :
        window[ch] + CountIn(queue, {[ch |-> ch, of |-> opened]}) + gone[ch] = RxWindow

=============================================================================
