--------------------------- MODULE HostEthernetTx ---------------------------
(***************************************************************************)
(* The Ethernet transmit path of the Host Core: application threads in     *)
(* ethernet_send, the core task that combines queued records into frames,  *)
(* and the transport that completes them.  A record is admitted when it    *)
(* gets one of the ethernet_tx_slots, a unit of credit not promised to a   *)
(* record already queued, and room in the job queue.                       *)
(*                                                                         *)
(* Everything the core task does between taking state_mutex and releasing  *)
(* it is one action, except that the combining of records is one action    *)
(* per record: threads use the semaphore and the queue without the mutex,  *)
(* so they run in between.                                                 *)
(***************************************************************************)
EXTENDS Integers, Sequences, FiniteSets, QueueCounts

CONSTANTS
    Ethernet,           \* the Ethernet channels
    NoChannel,          \* a value that is not a channel
    Threads,            \* application threads that send
    SlotDepth,          \* ethernet_tx_depth
    QueueDepth,         \* core_queue_depth
    AggregationLimit,   \* ethernet_tx_aggregation_limit
    MaxCredit           \* where a credit counter saturates (UINT32_MAX)

ASSUME HostEthernetTxAssumption ==
    /\ NoChannel \notin Ethernet
    /\ IsFiniteSet(Threads)
    /\ SlotDepth \in Nat \ {0} /\ QueueDepth \in Nat \ {0}
    /\ AggregationLimit \in Nat /\ MaxCredit \in Nat \ {0}

VARIABLES
    phase,      \* the core task: "running", "exited" or, after the join, "stopped"
    slots,      \* free slots of the ethernet_tx_slots semaphore
    thread,     \* the channel a thread that holds a slot is sending on
    queue,      \* core_queue: the channel of an Ethernet record, or NoChannel
    deferred,   \* the worker's deferred_job, if it has one
    building,   \* the channel of the frame the worker is filling, if any
    units,      \* credit_units: the records in it
    queued,     \* ethernet_tx_queued
    credit,     \* tx_credit
    inflight,   \* frames the transport has not completed
    stale,      \* records admitted before the credit was last replaced
    orphaned    \* history: records destroyed with the queue, still in queued

vars == <<phase, slots, thread, queue, deferred, building, units, queued,
          credit, inflight, stale, orphaned>>

-----------------------------------------------------------------------------
Jobs == Ethernet \cup {NoChannel}

Waiting == deferred \o queue

(* The records on channel ch the worker has not handed to the transport.   *)
Owed(ch) == CountIn(deferred, {ch}) + CountIn(queue, {ch})
                + IF building = ch THEN units ELSE 0

Sending == {t \in Threads : thread[t] # NoChannel}

(* semaphore_give: a full semaphore refuses.                               *)
GiveSlot == slots' = IF slots = SlotDepth THEN slots ELSE slots + 1

(* The unit of credit is not promised to a record already queued.  The     *)
(* slip lets in one record too many.                                       *)
HasCreditOrOwes(ch) == credit[ch] >= queued[ch]
HasCredit(ch)       == credit[ch] > queued[ch]

Uncount(ch) == queued' = [queued EXCEPT ![ch] = IF @ > 0 THEN @ - 1 ELSE @]

AddOneCreditWraps(n) == n + 1
AddOneCredit(n)      == IF n = MaxCredit THEN n ELSE n + 1

Init ==
    /\ phase = "running" /\ slots = SlotDepth
    /\ thread = [t \in Threads |-> NoChannel]
    /\ queue = <<>> /\ deferred = <<>>
    /\ building = NoChannel /\ units = 0
    /\ queued = [ch \in Ethernet |-> 0] /\ credit = [ch \in Ethernet |-> 0]
    /\ inflight = 0 /\ stale = [ch \in Ethernet |-> 0]
    /\ orphaned = [ch \in Ethernet |-> 0]

-----------------------------------------------------------------------------
(* ethernet_send                                                           *)

(* semaphore_take, before anything else and without the mutex.             *)
TakeSlot(t, ch) ==
    /\ phase # "stopped" /\ thread[t] = NoChannel
    /\ slots > 0 /\ slots' = slots - 1
    /\ thread' = [thread EXCEPT ![t] = ch]
    /\ UNCHANGED <<phase, queue, deferred, building, units, queued, credit,
                   inflight, stale, orphaned>>

(* Under state_mutex, so not while the worker fills a frame.               *)
Admit(t) ==
    /\ thread[t] # NoChannel /\ building = NoChannel
    /\ HasCredit(thread[t]) /\ Len(queue) < QueueDepth
    /\ queue' = Append(queue, thread[t])
    /\ queued' = [queued EXCEPT ![thread[t]] = @ + 1]
    /\ thread' = [thread EXCEPT ![t] = NoChannel]
    /\ UNCHANGED <<phase, slots, deferred, building, units, credit,
                   inflight, stale, orphaned>>

(* No memory, no mutex within 20 ms, no credit or no room: the slot goes   *)
(* back.                                                                   *)
Refuse(t) ==
    /\ thread[t] # NoChannel
    /\ thread' = [thread EXCEPT ![t] = NoChannel] /\ GiveSlot
    /\ UNCHANGED <<phase, queue, deferred, building, units, queued, credit,
                   inflight, stale, orphaned>>

(* Any other job: a request, a received frame, a transport event.          *)
OtherJob ==
    /\ phase # "stopped" /\ Len(queue) < QueueDepth
    /\ queue' = Append(queue, NoChannel)
    /\ UNCHANGED <<phase, slots, thread, deferred, building, units, queued,
                   credit, inflight, stale, orphaned>>

-----------------------------------------------------------------------------
(* The core task.                                                          *)

(* It takes the deferred job, or else the first of the queue.              *)
TakesNext(job) ==
    /\ phase = "running" /\ building = NoChannel
    /\ \/ deferred = <<job>> /\ deferred' = <<>> /\ UNCHANGED queue
       \/ /\ deferred = <<>> /\ UNCHANGED deferred
          /\ queue # <<>> /\ Head(queue) = job /\ queue' = Tail(queue)

(* The first record of a frame.                                            *)
BeginFrame(ch) ==
    /\ TakesNext(ch) /\ building' = ch /\ units' = 1
    /\ UNCHANGED <<phase, slots, thread, queued, credit, inflight, stale, orphaned>>

Combines ==
    building # NoChannel /\ deferred = <<>> /\ units < AggregationLimit
        /\ queue # <<>>

(* aggregate_ethernet_jobs adds the next record: its slot and its count    *)
(* are released.  The slip before it forgets the slot.                     *)
MergeKeepsSlot ==
    /\ Combines /\ Head(queue) = building
    /\ queue' = Tail(queue) /\ units' = units + 1
    /\ slots' = slots /\ Uncount(building)
    /\ UNCHANGED <<phase, thread, deferred, building, credit, inflight, stale, orphaned>>

Merge ==
    /\ Combines /\ Head(queue) = building
    /\ queue' = Tail(queue) /\ units' = units + 1
    /\ GiveSlot /\ Uncount(building)
    /\ UNCHANGED <<phase, thread, deferred, building, credit, inflight, stale, orphaned>>

(* The next job is of another kind or channel, does not fit or has no      *)
(* buffer: it is kept for later.  The slip puts it back in the queue.      *)
DeferToTail ==
    /\ Combines /\ queue' = Append(Tail(queue), Head(queue))
    /\ UNCHANGED <<phase, slots, thread, deferred, building, units, queued,
                   credit, inflight, stale, orphaned>>

Defer ==
    /\ Combines
    /\ deferred' = <<Head(queue)>> /\ queue' = Tail(queue)
    /\ UNCHANGED <<phase, slots, thread, building, units, queued,
                   credit, inflight, stale, orphaned>>

(* The frame is complete; its first record is still counted.               *)
FrameDone ==
    /\ building # NoChannel /\ ~Combines
    /\ Uncount(building)
    /\ stale' = [stale EXCEPT ![building] = IF @ > units THEN @ - units ELSE 0]
    /\ building' = NoChannel /\ units' = 0

FrameSent ==
    /\ FrameDone /\ credit[building] >= units
    /\ credit' = [credit EXCEPT ![building] = @ - units]
    /\ inflight' = inflight + 1
    /\ UNCHANGED <<phase, slots, thread, queue, deferred, orphaned>>

(* No credit, no buffer, or the transport refuses: the records are lost    *)
(* and the frame's slot goes back.  The slip forgets the slot.             *)
FrameFailsKeepsSlot ==
    /\ FrameDone
    /\ UNCHANGED <<phase, slots, thread, queue, deferred, credit, inflight, orphaned>>

FrameFails ==
    /\ FrameDone /\ GiveSlot
    /\ UNCHANGED <<phase, thread, queue, deferred, credit, inflight, orphaned>>

(* A session is lost or opened: tx_credit is replaced, but neither the     *)
(* queued records nor their counters are touched.  The slip resets the     *)
(* counters, as process_transport_lost does bluetooth_tx_inflight.         *)
ReplaceCreditAndCounts ==
    /\ credit' \in [Ethernet -> 0 .. MaxCredit]
    /\ queued' = [ch \in Ethernet |-> 0]
    /\ stale' = [ch \in Ethernet |-> Owed(ch)]

ReplaceCredit ==
    /\ credit' \in [Ethernet -> 0 .. MaxCredit]
    /\ stale' = [ch \in Ethernet |-> Owed(ch)]
    /\ UNCHANGED queued

(* handle_credit_update                                                    *)
CreditUpdate ==
    /\ \E ch \in Ethernet : credit' = [credit EXCEPT ![ch] = AddOneCredit(@)]
    /\ UNCHANGED <<queued, stale>>

HandleOther ==
    /\ TakesNext(NoChannel)
    /\ ReplaceCredit \/ CreditUpdate \/ UNCHANGED <<credit, queued, stale>>
    /\ UNCHANGED <<phase, slots, thread, building, units, inflight, orphaned>>

(* The job that ends the task: finish_shutdown after a stop.               *)
HandleStop ==
    /\ TakesNext(NoChannel) /\ phase' = "exited"
    /\ UNCHANGED <<slots, thread, building, units, queued, credit, inflight, stale,
                   orphaned>>

(* The heartbeat timeout of host_process_deadlines loses the session too.  *)
HeartbeatTimeout ==
    /\ phase = "running" /\ building = NoChannel
    /\ ReplaceCredit /\ credit' = [ch \in Ethernet |-> 0]
    /\ UNCHANGED <<phase, slots, thread, queue, deferred, building, units, inflight,
                   orphaned>>

-----------------------------------------------------------------------------
(* tx_complete                                                             *)
TxComplete ==
    /\ inflight > 0 /\ inflight' = inflight - 1 /\ GiveSlot
    /\ UNCHANGED <<phase, thread, queue, deferred, building, units, queued,
                   credit, stale, orphaned>>

(* wlh_host_stop after the join: the queue and the semaphore are gone.  No *)
(* thread may be sending, and the adapter has returned every frame.        *)
(* Nobody uncounts the records that go with the queue.                     *)
StopReturns ==
    /\ phase = "exited" /\ Sending = {} /\ inflight = 0
    /\ phase' = "stopped" /\ queue' = <<>> /\ deferred' = <<>>
    /\ orphaned' = [ch \in Ethernet |-> orphaned[ch] + Owed(ch)]
    /\ UNCHANGED <<slots, thread, building, units, queued, credit, inflight, stale>>

(* wlh_host_start: a new queue and a new semaphore; the counters and the   *)
(* credit are those the last run left.                                     *)
Start ==
    /\ phase = "stopped" /\ phase' = "running" /\ slots' = SlotDepth
    /\ UNCHANGED <<thread, queue, deferred, building, units, queued,
                   credit, inflight, stale, orphaned>>

-----------------------------------------------------------------------------
EthernetSend(t) == Admit(t) \/ Refuse(t)

Worker ==
    \/ \E ch \in Ethernet : BeginFrame(ch)
    \/ Merge \/ Defer \/ FrameSent \/ FrameFails
    \/ HandleOther \/ HandleStop

Next ==
    \/ \E t \in Threads : EthernetSend(t) \/ \E ch \in Ethernet : TakeSlot(t, ch)
    \/ OtherJob \/ Worker \/ HeartbeatTimeout
    \/ TxComplete \/ StopReturns \/ Start

Spec == Init /\ [][Next]_vars

(* The core task and the sending threads are scheduled, and the adapter    *)
(* completes every frame it accepted.                                      *)
Fairness ==
    /\ WF_vars(Worker) /\ WF_vars(TxComplete)
    /\ \A t \in Threads : WF_vars(EthernetSend(t))

FairSpec == Spec /\ Fairness

-----------------------------------------------------------------------------
TypeOK ==
    /\ phase \in {"running", "exited", "stopped"}
    /\ slots \in 0 .. SlotDepth
    /\ thread \in [Threads -> Jobs]
    /\ queue \in Seq(Jobs) /\ Len(queue) <= QueueDepth
    /\ deferred \in Seq(Jobs) /\ Len(deferred) <= 1
    /\ building \in Jobs /\ units \in Nat
    /\ queued \in [Ethernet -> Nat] /\ credit \in [Ethernet -> 0 .. MaxCredit]
    /\ inflight \in Nat /\ stale \in [Ethernet -> Nat]
    /\ orphaned \in [Ethernet -> Nat]

(* Every slot of ethernet_tx_slots is free, held by a thread in            *)
(* ethernet_send, or held for one record waiting, one frame being filled   *)
(* or one frame in the transport.  Slots are given back at six places on   *)
(* five threads' behalf (host_ethernet.c:48, 83, 122, host.c:289, 394,     *)
(* host_wire.c:24); a missing or a second give would break this for good.  *)
SlotsConserved ==
    phase # "stopped" =>
        slots + Cardinality(Sending)
              + CountIn(deferred, Ethernet) + CountIn(queue, Ethernet)
              + (IF building = NoChannel THEN 0 ELSE 1) + inflight = SlotDepth

(* The counter the admission test relies on is the number of records       *)
(* really waiting, whatever is lost, deferred or combined (host.c:225,     *)
(* 294, 383, host_ethernet.c:88): too low it would promise a unit twice,   *)
(* too high it would refuse records there is credit for.  It is too high   *)
(* by the records that were destroyed with the queue of an earlier run,    *)
(* which neither stop nor start uncounts (host.c:508, 585), and by nothing *)
(* else.                                                                   *)
CountersExact ==
    \A ch \in Ethernet :
        queued[ch] = CountIn(deferred, {ch}) + CountIn(queue, {ch})
                         + (IF building = ch THEN 1 ELSE 0) + orphaned[ch]

(* ethernet_send reports success only when there is credit for the queued  *)
(* frame (host.h:317): as long as one record admitted under the present    *)
(* credit waits, the credit covers every record that waits, so only        *)
(* records older than the present session can find none.                   *)
AdmittedIsCovered ==
    \A ch \in Ethernet : Owed(ch) > stale[ch] => Owed(ch) <= credit[ch]

(* Records and other jobs are served in the order they were queued:        *)
(* combining and deferring never lets a later one pass (host.c:215).       *)
ServedInOrder ==
    [][\/ \E n \in 0 .. Len(Waiting) : Waiting' = SubSeq(Waiting, n + 1, Len(Waiting))
       \/ \E job \in Jobs : Waiting' = Append(Waiting, job)]_vars

(* Threads do not find the slots exhausted for ever: the worker and the    *)
(* transport give back one, whatever fails on the way.                     *)
SlotsComeBack == slots = 0 /\ phase = "running" ~> slots > 0 \/ phase # "running"

=============================================================================
