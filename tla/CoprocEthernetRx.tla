-------------------------- MODULE CoprocEthernetRx --------------------------
(***************************************************************************)
(* How the Coprocessor Core returns the credit of received Ethernet        *)
(* records (coproc_frame.c).  A record the backend takes for later is      *)
(* completed from the backend's own thread; the units are gathered under   *)
(* state_mutex and the core task returns them at the top of its loop.  A   *)
(* full batch wakes the core task, through the job queue and after the     *)
(* mutex has been released; smaller amounts wait for its next turn.        *)
(***************************************************************************)
EXTENDS Integers, Sequences, FiniteSets, QueueCounts

CONSTANTS
    Ethernet,       \* the Ethernet channels
    Depth,          \* core_queue_depth
    InitialCredit,  \* initial_credit: the window of the host on a channel
    BatchUnits,     \* WLH_ETHERNET_CREDIT_BATCH_UNITS
    MaxSession,     \* bound: session ids handed out
    MaxWakers       \* bound: backend threads about to enqueue a wake

ASSUME CoprocEthernetRxAssumption ==
    /\ Depth \in Nat \ {0} /\ InitialCredit \in Nat
    /\ BatchUnits \in Nat \ {0}
    /\ MaxSession \in Nat \ {0} /\ MaxWakers \in Nat \ {0}

VARIABLES
    session,    \* session_id
    opened,     \* the last session id handed out
    ready,      \* state = READY
    queue,      \* core_queue
    worker,     \* "top" of the loop, "waiting", "exited" or, after the join, "stopped"
    wait,       \* "forever", "heartbeat" or "retry"
    gathered,   \* ethernet_rx_pending_credit
    wakeQueued, \* ethernet_rx_wake_queued
    wakers,     \* threads that have left the mutex and will enqueue a wake
    held,       \* records the backend holds, by channel and the session it was given
    owed,       \* history: units of the session taken by the backend, not returned
    discarded   \* history: those of them a Hello threw away while the session went on

rxVars == <<gathered, wakeQueued>>
unitVars == <<held, owed, discarded>>
vars == <<session, opened, ready, queue, worker, wait, rxVars, wakers, unitVars>>

-----------------------------------------------------------------------------
Sessions == 0 .. MaxSession

Jobs == [kind : {"STOP", "HELLO", "WAKE", "OTHER"}]
            \cup [kind : {"RECORDS"}, ch : Ethernet, units : 1 .. InitialCredit]

Hello == [kind |-> "HELLO"]

(* The batch must not exceed the window of the host.                       *)
Batch == IF InitialCredit \in 1 .. BatchUnits THEN InitialCredit ELSE BatchUnits

CanEnqueue == worker # "stopped" /\ Len(queue) < Depth
Enqueue(job) == queue' = Append(queue, job)

None == [ch \in Ethernet |-> 0]

(* Units of channel ch on their way in the job queue.                      *)
UnitsIn(q, ch) ==
    LET of(i) == IF q[i].kind = "RECORDS" /\ q[i].ch = ch THEN q[i].units ELSE 0
        upTo[n \in 0 .. Len(q)] == IF n = 0 THEN 0 ELSE upTo[n - 1] + of(n)
    IN upTo[Len(q)]

(* reset_ethernet_rx_completions                                           *)
ResetCompletions == gathered' = None /\ wakeQueued' = FALSE

Init ==
    /\ session = 0 /\ opened = 0 /\ ready = FALSE /\ queue = <<>>
    /\ worker = "stopped" /\ wait = "forever"
    /\ gathered = None /\ wakeQueued = FALSE /\ wakers = 0
    /\ held = [ch \in Ethernet |-> [s \in Sessions |-> 0]] /\ owed = None
    /\ discarded = None

-----------------------------------------------------------------------------
(* wlh_coproc_start and the beginning of the core task; wlh_coproc_stop    *)
(* after the join, when no thread is inside ethernet_rx_complete.          *)
Start ==
    /\ worker = "stopped" /\ worker' = "top"
    /\ ready' = FALSE /\ queue' = <<>> /\ ResetCompletions
    /\ UNCHANGED <<session, opened, wait, wakers, unitVars>>

StopReturns ==
    /\ worker = "exited" /\ wakers = 0
    /\ worker' = "stopped" /\ queue' = <<>>
    /\ UNCHANGED <<session, opened, ready, wait, rxVars, wakers, unitVars>>

-----------------------------------------------------------------------------
(* flush_ethernet_rx_completions: the units of a channel are returned, or  *)
(* kept and tried again when there is no session or the update is not      *)
(* sent.  The slip keeps the mark of a queued wake.                        *)
FlushKeepsMark(sent) ==
    /\ session = 0 => sent = {}
    /\ UNCHANGED wakeQueued
    /\ gathered' = [ch \in Ethernet |-> IF ch \in sent THEN 0 ELSE gathered[ch]]
    /\ owed' = [ch \in Ethernet |-> IF ch \in sent THEN owed[ch] - gathered[ch]
                                                  ELSE owed[ch]]

Flush(sent) ==
    /\ session = 0 => sent = {}
    /\ wakeQueued' = FALSE
    /\ gathered' = [ch \in Ethernet |-> IF ch \in sent THEN 0 ELSE gathered[ch]]
    /\ owed' = [ch \in Ethernet |-> IF ch \in sent THEN owed[ch] - gathered[ch]
                                                  ELSE owed[ch]]

(* The slip waits for the next heartbeat instead of trying again.          *)
NextWaitNoRetry == wait' = IF ready THEN "heartbeat" ELSE "forever"
NextWait == wait' = IF gathered' # None THEN "retry"
                    ELSE IF ready THEN "heartbeat" ELSE "forever"

LoopTop(sent) ==
    /\ worker = "top" /\ worker' = "waiting"
    /\ Flush(sent) /\ NextWait
    /\ UNCHANGED <<session, opened, ready, queue, wakers, held, discarded>>

WaitEnds ==
    /\ worker = "waiting" /\ queue = <<>> /\ wait # "forever"
    /\ worker' = "top"
    /\ UNCHANGED <<session, opened, ready, queue, wait, rxVars, wakers, unitVars>>

Takes(job) ==
    /\ worker = "waiting" /\ queue # <<>> /\ Head(queue).kind = job
    /\ queue' = Tail(queue)

(* Raw records: some the backend takes for later, the credit of the others *)
(* goes back at once, or is lost with an update that cannot be sent.       *)
HandleRecords ==
    /\ Takes("RECORDS") /\ worker' = "top"
    /\ LET ch == Head(queue).ch IN
         \E n \in 0 .. Head(queue).units :
           /\ held' = [held EXCEPT ![ch][session] = @ + n]
           /\ owed' = [owed EXCEPT ![ch] = @ + n]
    /\ UNCHANGED <<session, opened, ready, wait, rxVars, wakers, discarded>>

(* A Hello throws away what was gathered before its response has a buffer. *)
(* Without one the old session goes on, short of these units.              *)
HelloKeepsSession ==
    /\ discarded' = [ch \in Ethernet |-> discarded[ch] + gathered[ch]]
    /\ UNCHANGED <<session, opened, ready, owed>>

(* With one the old session is over, and so is what was owed in it; the    *)
(* new one begins once the response is sent.                               *)
HelloEndsSession ==
    /\ opened' = opened + 1
    /\ \/ session' = 0 /\ UNCHANGED ready
       \/ session' = opened' /\ ready' = TRUE
    /\ owed' = None /\ discarded' = None

HandleHello ==
    /\ Takes("HELLO") /\ worker' = "top"
    /\ ResetCompletions
    /\ HelloKeepsSession \/ HelloEndsSession
    /\ UNCHANGED <<wait, wakers, held>>

(* ETHERNET_RX_COMPLETE does nothing: it has woken the core task.          *)
HandleWake ==
    /\ Takes("WAKE") /\ worker' = "top"
    /\ UNCHANGED <<session, opened, ready, wait, rxVars, wakers, unitVars>>

(* Any other job may change the state.                                     *)
HandleOther ==
    /\ Takes("OTHER") /\ worker' = "top" /\ ready' \in BOOLEAN
    /\ UNCHANGED <<session, opened, wait, rxVars, wakers, unitVars>>

HandleStop ==
    /\ Takes("STOP") /\ worker' = "exited"
    /\ session' = 0 /\ ready' = FALSE /\ ResetCompletions
    /\ UNCHANGED <<opened, wait, wakers, unitVars>>

-----------------------------------------------------------------------------
(* wlh_coproc_ethernet_rx_complete, under the mutex: the units count when  *)
(* the record belongs to the present session.  The slip accepts any.       *)
AcceptsAnySession(s) == session # 0
AcceptsUnits(s) == session # 0 /\ s = session

RxComplete(ch, s, n) ==
    /\ worker # "stopped" /\ wakers < MaxWakers
    /\ n \in 1 .. held[ch][s]
    /\ held' = [held EXCEPT ![ch][s] = @ - n]
    /\ \/ /\ AcceptsUnits(s)
          /\ gathered' = [gathered EXCEPT ![ch] = @ + n]
          /\ \/ /\ ~wakeQueued /\ gathered'[ch] >= Batch
                /\ wakeQueued' = TRUE /\ wakers' = wakers + 1
             \/ /\ wakeQueued \/ gathered'[ch] < Batch
                /\ UNCHANGED <<wakeQueued, wakers>>
       \/ ~AcceptsUnits(s) /\ UNCHANGED <<rxVars, wakers>>
    /\ UNCHANGED <<session, opened, ready, queue, worker, wait, owed, discarded>>

(* Then, without it, the wake; a full queue refuses it.  The slip does not *)
(* look whether it is full.                                                *)
EnqueueWakeAlways ==
    /\ wakers > 0 /\ wakers' = wakers - 1 /\ Enqueue([kind |-> "WAKE"])
    /\ UNCHANGED <<session, opened, ready, worker, wait, rxVars, unitVars>>

EnqueueWake ==
    /\ wakers > 0 /\ wakers' = wakers - 1
    /\ \/ Len(queue) < Depth /\ Enqueue([kind |-> "WAKE"])
       \/ Len(queue) = Depth /\ UNCHANGED queue
    /\ UNCHANGED <<session, opened, ready, worker, wait, rxVars, unitVars>>

(* The jobs the rest of the core and the link bring in: a host sends no    *)
(* more records than its window allows.                                    *)
Arrives(job) ==
    /\ CanEnqueue /\ Enqueue(job) /\ job.kind # "WAKE"
    /\ job.kind = "HELLO" =>
          opened + CountIn(queue, {Hello}) < MaxSession
    /\ job.kind = "RECORDS" =>
          owed[job.ch] + UnitsIn(queue, job.ch) + job.units <= InitialCredit
    /\ UNCHANGED <<session, opened, ready, worker, wait, rxVars, wakers, unitVars>>

-----------------------------------------------------------------------------
HandleJob == HandleRecords \/ HandleHello \/ HandleWake \/ HandleOther \/ HandleStop

Worker == (\E sent \in SUBSET Ethernet : LoopTop(sent)) \/ WaitEnds \/ HandleJob

Completion == \E ch \in Ethernet, s \in Sessions, n \in 1 .. InitialCredit :
                  RxComplete(ch, s, n)

Next == Start \/ StopReturns \/ Worker \/ Completion \/ EnqueueWake
          \/ \E job \in Jobs : Arrives(job)

Spec == Init /\ [][Next]_vars

(* The core task and the threads that will wake it are scheduled, and the  *)
(* transport does not refuse credit updates for ever.                      *)
Fairness ==
    /\ WF_vars(Worker) /\ WF_vars(EnqueueWake)
    /\ SF_vars(session # 0 /\ LoopTop(Ethernet))

FairSpec == Spec /\ Fairness

-----------------------------------------------------------------------------
TypeOK ==
    /\ session \in Sessions /\ opened \in Sessions /\ ready \in BOOLEAN
    /\ queue \in Seq(Jobs) /\ Len(queue) <= Depth
    /\ worker \in {"top", "waiting", "exited", "stopped"}
    /\ wait \in {"forever", "heartbeat", "retry"}
    /\ gathered \in [Ethernet -> Nat] /\ wakeQueued \in BOOLEAN /\ wakers \in Nat
    /\ held \in [Ethernet -> [Sessions -> Nat]] /\ owed \in [Ethernet -> Int]
    /\ discarded \in [Ethernet -> Nat]

(* No unit is returned twice and none in another session than the one its  *)
(* record came in, whatever updates fail and whenever completions come     *)
(* (coproc_frame.c:59, 90, 96): of what the backend has taken in a session *)
(* every unit that is not returned is held by the backend, gathered, or    *)
(* was lost in one way: a Hello resets what is gathered (coproc_link.c:253)*)
(* and then finds no buffer for its response (coproc_link.c:34), which     *)
(* leaves the session as it was.  Nothing else loses any of them.  A unit  *)
(* the backend did not take goes back at once, and is not among them.      *)
UnitsConserved ==
    session # 0 => \A ch \in Ethernet :
        owed[ch] = held[ch][session] + gathered[ch] + discarded[ch]

(* A full batch is never left to the next heartbeat: the core task does    *)
(* not wait while one is gathered unless it is about to be woken, although *)
(* the wake is queued after the mutex is released and may find the queue   *)
(* full (coproc_frame.c:103-129).                                          *)
BatchWakes ==
    worker = "waiting" /\ wait # "retry" /\ (\E ch \in Ethernet : gathered[ch] >= Batch)
        => queue # <<>> \/ wakers > 0

(* A full batch does not stay gathered while its session lasts: it goes    *)
(* back to the host unless a Hello throws it away (coproc_frame.c:106); in *)
(* READY a short tail does as well, at the next turn of the core task.     *)
UnitsReturned ==
    \A ch \in Ethernet :
        (session # 0 /\ gathered[ch] >= IF ready THEN 1 ELSE Batch)
            ~> (session = 0 \/ gathered[ch] < IF ready THEN 1 ELSE Batch)

=============================================================================
