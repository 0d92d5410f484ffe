------------------------------ MODULE HostCalls ------------------------------
(***************************************************************************)
(* The buffers behind a typed request of the Host Core, from the call into *)
(* a service facade to the completion callback.                            *)
(*                                                                         *)
(* A facade may put the caller's callback in a "request" buffer and the    *)
(* message in a "message" buffer; rpc_message_request encodes the message  *)
(* in a "payload" and wlh_host_rpc_request copies it into the "job" it     *)
(* queues.  The core task handles the job, and sooner or later dispatches  *)
(* the completion as a "task" to the application's executor, or runs it    *)
(* itself when there is no buffer for the task or the executor refuses.    *)
(* Everybody frees what is theirs; the request buffer changes hands when   *)
(* the job is queued.                                                      *)
(***************************************************************************)
EXTENDS Integers, Sequences, FiniteSets

CONSTANTS
    Calls,          \* the calls made, each once, by threads of the application
    Buffers,        \* config.buffers
    CoreQueueDepth, \* core_queue_depth
    MaxPending      \* max_pending_rpc

ASSUME HostCallsAssumption ==
    /\ Buffers \subseteq Nat /\ IsFiniteSet(Buffers) /\ 0 \notin Buffers
    /\ CoreQueueDepth \in Nat \ {0} /\ MaxPending \in Nat \ {0}
    /\ "none" \notin Calls

-----------------------------------------------------------------------------
(* The facades.  A call may be guarded by whether the session has the      *)
(* service, keep its callback in a request buffer, build its message in a  *)
(* buffer, and decode the response into one.                               *)

Plain == [guarded |-> FALSE, request |-> FALSE, message |-> FALSE, decodes |-> FALSE]
Typed == [Plain EXCEPT !.request = TRUE]
InBuffer == [Plain EXCEPT !.message = TRUE]
Guarded(shape) == [shape EXCEPT !.guarded = TRUE]

WifiMethods ==
    [m \in {"initialize", "scan", "connect", "disconnect", "start_ap", "stop_ap"} |-> Plain]
IoMethods         == [configure |-> Plain, read |-> Typed, write |-> Plain]
AdcMethods        == [read |-> Typed]
EthMethods        == [get_info |-> Typed]
DeviceInfoMethods == [get_device_info |-> Typed]
UserMethods       == [message_send |-> InBuffer]
KvRead            == [InBuffer EXCEPT !.request = TRUE, !.decodes = TRUE]
KvWrites          == [write |-> InBuffer, erase |-> InBuffer]
BluetoothMethods ==
    [m \in {"initialize", "enable", "disable", "deinitialize"} |-> Guarded(Plain)]
BluetoothInfo     == Guarded(Typed)
OtaBegin          == Guarded([InBuffer EXCEPT !.request = TRUE])
OtaQuery          == Guarded(Typed)
OtaMethods        == [m \in {"finalize", "abort", "activate"} |-> Guarded(Plain)]

Methods(service) == {service[m] : m \in DOMAIN service}
Shapes ==
    Methods(WifiMethods) \cup Methods(IoMethods) \cup Methods(AdcMethods)
        \cup Methods(EthMethods) \cup Methods(DeviceInfoMethods)
        \cup Methods(UserMethods) \cup {KvRead} \cup Methods(KvWrites)
        \cup Methods(BluetoothMethods) \cup {BluetoothInfo}
        \cup {OtaBegin, OtaQuery} \cup Methods(OtaMethods)

-----------------------------------------------------------------------------
(* What the caller uses buffers for, in the order it gets them, and the    *)
(* others: the task for the executor and the decoded response.             *)
CallerRoles == <<"request", "message", "payload", "job">>
RoleSet == {"request", "message", "payload", "job"}
Roles == RoleSet \cup {"task", "decoded"}

Null == 0
Pointers == Buffers \cup {Null}
Free == [role |-> "free"]
Uses == [role : Roles, of : Calls]

(* A job, a pending slot and a task carry the request buffer of their call. *)
RequestJobs == [of : Calls, job : Buffers, request : Pointers]
Slots == [of : Calls, request : Pointers]
Tasks == [of : Calls, task : Buffers, request : Pointers, ok : BOOLEAN]
Running == [of : Calls, task : Buffers, request : Pointers, decoded : Pointers]
NoTask == [of |-> "none"]

VARIABLES
    running,    \* worker_started
    stopping,   \* the core task has begun to stop
    supported,  \* the session has the guarded services
    buffer,     \* what each buffer is used as
    at,         \* a call: "unmade", "allocating", "releasing" or "returned"
    shape,      \* its shape
    needs,      \* the buffers the caller needs for it
    holding,    \* those it has, to free or to hand over
    accepted,   \* it returns WLH_HOST_OK
    coreQueue,  \* core_queue, its requests
    pending,    \* the active host->pending
    posted,     \* the tasks the executor has accepted
    task,       \* the task the executor runs
    called,     \* how often the completion of a call has run
    lostJobs    \* the jobs that went with a destroyed queue

linkVars == <<running, stopping, supported>>
callerVars == <<at, shape, needs, holding, accepted>>
coreVars == <<coreQueue, pending, lostJobs>>
executorVars == <<posted, task>>
callsVars == <<linkVars, buffer, callerVars, coreVars, executorVars, called>>

NoneHeld == [r \in RoleSet |-> Null]

CallsInit ==
    /\ running = FALSE /\ stopping = FALSE /\ supported = FALSE
    /\ buffer = [b \in Buffers |-> Free]
    /\ at = [c \in Calls |-> "unmade"] /\ shape = [c \in Calls |-> Plain]
    /\ needs = [c \in Calls |-> {}] /\ holding = [c \in Calls |-> NoneHeld]
    /\ accepted = [c \in Calls |-> FALSE]
    /\ coreQueue = <<>> /\ pending = {} /\ posted = <<>> /\ task = NoTask
    /\ called = [c \in Calls |-> 0] /\ lostJobs = {}

-----------------------------------------------------------------------------
(* buffers.alloc takes any free buffer, and may fail.                      *)
FreeBuffers == {b \in Buffers : buffer[b] = Free}
Taken(b, role, c) == [buffer EXCEPT ![b] = [role |-> role, of |-> c]]
Freed(bs) == [b \in Buffers |-> IF b \in bs THEN Free ELSE buffer[b]]

-----------------------------------------------------------------------------
(* The calling thread.                                                     *)

(* The facade, after its checks of the arguments; check_supported first,   *)
(* where there is one.  The encoded message is empty when all its fields   *)
(* are zero, and needs no payload then.                                    *)
Call(c, s) ==
    /\ at[c] = "unmade" /\ running
    /\ shape' = [shape EXCEPT ![c] = s]
    /\ \/ /\ s.guarded /\ ~supported
          /\ at' = [at EXCEPT ![c] = "returned"] /\ UNCHANGED needs
       \/ /\ s.guarded => supported
          /\ at' = [at EXCEPT ![c] = "allocating"]
          /\ \E payload \in SUBSET {"payload"} :
                needs' = [needs EXCEPT ![c] =
                    {r \in {"request", "message"} : s[r]} \cup payload \cup {"job"}]
    /\ UNCHANGED <<linkVars, buffer, holding, accepted, coreVars, executorVars, called>>

(* The next buffer of a call, in the order of CallerRoles.                 *)
Missing(c) == {i \in 1 .. 4 : CallerRoles[i] \in needs[c] /\ holding[c][CallerRoles[i]] = Null}
IsNext(i, c) == i \in Missing(c) /\ \A j \in Missing(c) : i <= j

Allocate(c) ==
    /\ at[c] = "allocating"
    /\ \E i \in 1 .. 4, b \in FreeBuffers :
          /\ IsNext(i, c) /\ \A a \in FreeBuffers : b <= a
          /\ buffer' = Taken(b, CallerRoles[i], c)
          /\ holding' = [holding EXCEPT ![c][CallerRoles[i]] = b]
    /\ UNCHANGED <<linkVars, at, shape, needs, accepted, coreVars, executorVars, called>>

(* No buffer, a second check_supported after the session went, a message   *)
(* that does not encode, a mutex that is not free in time, or a full       *)
(* queue: whatever the call has is freed.                                  *)
RefuseCall(c) ==
    /\ at[c] = "allocating" /\ at' = [at EXCEPT ![c] = "releasing"]
    /\ UNCHANGED <<linkVars, buffer, shape, needs, holding, accepted, coreVars,
                   executorVars, called>>

(* wlh_host_rpc_request queues the job; from then on the request buffer    *)
(* is the completion's.  The slip leaves it with the caller too.           *)
Queued(c) == Append(coreQueue, [of |-> c, job |-> holding[c]["job"],
                            request |-> holding[c]["request"]])

QueueJobKeepsRequest(c) ==
    /\ at[c] = "allocating" /\ Missing(c) = {} /\ running /\ Len(coreQueue) < CoreQueueDepth
    /\ coreQueue' = Queued(c)
    /\ holding' = [holding EXCEPT ![c]["job"] = Null]
    /\ accepted' = [accepted EXCEPT ![c] = TRUE]
    /\ at' = [at EXCEPT ![c] = "releasing"]
    /\ UNCHANGED <<linkVars, buffer, shape, needs, pending, lostJobs, executorVars, called>>

QueueJob(c) ==
    /\ at[c] = "allocating" /\ Missing(c) = {} /\ running /\ Len(coreQueue) < CoreQueueDepth
    /\ coreQueue' = Queued(c)
    /\ holding' = [holding EXCEPT ![c]["job"] = Null, ![c]["request"] = Null]
    /\ accepted' = [accepted EXCEPT ![c] = TRUE]
    /\ at' = [at EXCEPT ![c] = "releasing"]
    /\ UNCHANGED <<linkVars, buffer, shape, needs, pending, lostJobs, executorVars, called>>

(* On the way out the callers up the stack free theirs one after another.  *)
Release(c) ==
    /\ at[c] = "releasing"
    /\ \E i \in 1 .. 4 :
          /\ holding[c][CallerRoles[i]] # Null
          /\ \A j \in i + 1 .. 4 : holding[c][CallerRoles[j]] = Null
          /\ buffer' = Freed({holding[c][CallerRoles[i]]})
          /\ holding' = [holding EXCEPT ![c][CallerRoles[i]] = Null]
    /\ UNCHANGED <<linkVars, at, shape, needs, accepted, coreVars, executorVars, called>>

Return(c) ==
    /\ at[c] = "releasing" /\ holding[c] = NoneHeld
    /\ at' = [at EXCEPT ![c] = "returned"]
    /\ UNCHANGED <<linkVars, buffer, shape, needs, holding, accepted, coreVars,
                   executorVars, called>>

-----------------------------------------------------------------------------
(* The completion of call c runs, and with it, where there is one, the     *)
(* facade's, which frees the request buffer.                               *)
Complete(c) == called' = [called EXCEPT ![c] = @ + 1]

(* dispatch_completion for slot p, when the core task also frees bs.       *)
(* The task keeps bs until it is done.  The slip has an executor that      *)
(* refuses and runs the completion nowhere.                                *)
DispatchOrDrop(p, ok, bs) ==
    \/ \E b \in FreeBuffers :
          /\ \A a \in FreeBuffers : b <= a
          /\ buffer' = [Freed(bs) EXCEPT ![b] = [role |-> "task", of |-> p.of]]
          /\ posted' = Append(posted, [of |-> p.of, task |-> b, request |-> p.request, ok |-> ok])
          /\ UNCHANGED called
    \/ buffer' = Freed(bs) /\ UNCHANGED <<posted, called>>

Dispatch(p, ok, bs) ==
    \/ \E b \in FreeBuffers :
          /\ \A a \in FreeBuffers : b <= a
          /\ buffer' = [Freed(bs) EXCEPT ![b] = [role |-> "task", of |-> p.of]]
          /\ posted' = Append(posted, [of |-> p.of, task |-> b, request |-> p.request, ok |-> ok])
          /\ UNCHANGED called
    \/ /\ Complete(p.of) /\ UNCHANGED posted
       /\ buffer' = Freed(bs \cup {p.request})

(* process_rpc_request: there is a slot.  The slip counts one too many.    *)
HasSlotOrOneMore == ~stopping /\ Cardinality(pending) <= MaxPending
HasSlot == ~stopping /\ Cardinality(pending) < MaxPending

(* WLH_HOST_JOB_RPC_REQUEST: process_rpc_request takes a slot and sends    *)
(* the request, or its refusal is dispatched; the job is freed.            *)
ProcessRpcRequest ==
    /\ running /\ coreQueue # <<>> /\ coreQueue' = Tail(coreQueue)
    /\ LET j == Head(coreQueue)
           p == [of |-> j.of, request |-> j.request]
       IN \/ /\ HasSlot
             /\ pending' = pending \cup {p} /\ buffer' = Freed({j.job})
             /\ UNCHANGED <<posted, called>>
          \/ Dispatch(p, FALSE, {j.job}) /\ UNCHANGED pending
    /\ UNCHANGED <<linkVars, callerVars, task, lostJobs>>

(* A response, a deadline, or a cancellation with the session.             *)
Settle(p) ==
    /\ running /\ p \in pending /\ pending' = pending \ {p}
    /\ \E ok \in BOOLEAN : (stopping => ~ok) /\ Dispatch(p, ok, {})
    /\ UNCHANGED <<linkVars, callerVars, task, coreQueue, lostJobs>>

-----------------------------------------------------------------------------
(* The executor of the application.                                        *)

(* The task is taken; a response that is to be decoded into a buffer gets  *)
(* one, or is reported as a failure.                                       *)
RunTask ==
    /\ task = NoTask /\ posted # <<>> /\ posted' = Tail(posted)
    /\ LET k == Head(posted)
           Runs(b) == task' = [of |-> k.of, task |-> k.task,
                               request |-> k.request, decoded |-> b]
       IN \/ Runs(Null) /\ UNCHANGED buffer
          \/ /\ k.ok /\ shape[k.of].decodes
             /\ \E b \in FreeBuffers :
                   /\ \A a \in FreeBuffers : b <= a
                   /\ Runs(b) /\ buffer' = Taken(b, "decoded", k.of)
    /\ UNCHANGED <<linkVars, callerVars, coreVars, called>>

(* The callback returns, and everything is freed.  The slip forgets the    *)
(* decoded response.                                                       *)
TaskBuffersKeepsDecoded == {task.task, task.request}
TaskBuffers == {task.task, task.request, task.decoded}

TaskReturns ==
    /\ task # NoTask /\ task' = NoTask
    /\ Complete(task.of) /\ buffer' = Freed(TaskBuffers)
    /\ UNCHANGED <<linkVars, callerVars, coreVars, posted>>

-----------------------------------------------------------------------------
(* wlh_host_start, wlh_host_stop, and what the session offers.             *)
HostStarts ==
    /\ ~running /\ running' = TRUE /\ stopping' = FALSE
    /\ UNCHANGED <<supported, buffer, callerVars, coreVars, executorVars, called>>

BeginStop ==
    /\ running /\ ~stopping /\ stopping' = TRUE
    /\ UNCHANGED <<running, supported, buffer, callerVars, coreVars, executorVars, called>>

(* The core task has ended: the queue goes with what is left in it.        *)
(* No thread may be in a call.                                             *)
HostStopReturns ==
    /\ running /\ stopping /\ pending = {}
    /\ \A c \in Calls : at[c] \in {"unmade", "returned"}
    /\ running' = FALSE /\ coreQueue' = <<>>
    /\ lostJobs' = lostJobs \cup {coreQueue[i] : i \in DOMAIN coreQueue}
    /\ UNCHANGED <<stopping, supported, buffer, callerVars, pending, executorVars, called>>

SessionChanges ==
    /\ running /\ supported' = ~supported
    /\ UNCHANGED <<running, stopping, buffer, callerVars, coreVars, executorVars, called>>

-----------------------------------------------------------------------------
Caller(c) ==
    \/ \E s \in Shapes : Call(c, s)
    \/ Allocate(c) \/ RefuseCall(c) \/ QueueJob(c) \/ Release(c) \/ Return(c)

CoreTask == ProcessRpcRequest \/ \E p \in pending : Settle(p)

Executor == RunTask \/ TaskReturns

CallsNext == HostStarts \/ BeginStop \/ HostStopReturns \/ SessionChanges
            \/ (\E c \in Calls : Caller(c)) \/ CoreTask \/ Executor

CallsSpec == CallsInit /\ [][CallsNext]_callsVars

-----------------------------------------------------------------------------
CallsTypeOK ==
    /\ running \in BOOLEAN /\ stopping \in BOOLEAN /\ supported \in BOOLEAN
    /\ buffer \in [Buffers -> Uses \cup {Free}]
    /\ at \in [Calls -> {"unmade", "allocating", "releasing", "returned"}]
    /\ shape \in [Calls -> Shapes] /\ needs \in [Calls -> SUBSET RoleSet]
    /\ holding \in [Calls -> [RoleSet -> Pointers]] /\ accepted \in [Calls -> BOOLEAN]
    /\ coreQueue \in Seq(RequestJobs) /\ Len(coreQueue) <= CoreQueueDepth
    /\ pending \in SUBSET Slots /\ Cardinality(pending) <= MaxPending
    /\ posted \in Seq(Tasks) /\ task \in Running \cup {NoTask}
    /\ called \in [Calls -> Nat] /\ lostJobs \in SUBSET RequestJobs

(* Who is to free which buffer.                                            *)
Holder(place, b, role, c) == [place |-> place, b |-> b, use |-> [role |-> role, of |-> c]]
OfJob(place, j) == {Holder(place, j.job, "job", j.of), Holder(place, j.request, "request", j.of)}
Holders ==
    {h \in {Holder("caller", holding[c][r], r, c) : c \in Calls, r \in RoleSet}
        \cup (UNION {OfJob("queue", coreQueue[i]) : i \in DOMAIN coreQueue})
        \cup (UNION {OfJob("lost", j) : j \in lostJobs})
        \cup {Holder("pending", p.request, "request", p.of) : p \in pending}
        \cup (UNION {{Holder("posted", k.task, "task", k.of),
                      Holder("posted", k.request, "request", k.of)}
                         : k \in {posted[i] : i \in DOMAIN posted}})
        \cup (IF task = NoTask THEN {}
              ELSE {Holder("executor", task.task, "task", task.of),
                    Holder("executor", task.request, "request", task.of),
                    Holder("executor", task.decoded, "decoded", task.of)})
      : h.b # Null}

(* Every buffer in use has one holder, who uses it for what it was taken   *)
(* for: none is freed twice, used after it was freed, or forgotten, but    *)
(* for those of a destroyed queue (host.c:585).                            *)
BuffersHeld ==
    /\ \A h \in Holders : buffer[h.b] = h.use
    /\ \A g, h \in Holders : g.b = h.b => g = h
    /\ \A b \in Buffers : buffer[b] # Free => \E h \in Holders : h.b = b

(* Where a call that was accepted may be.                                  *)
PlacesOf(c) ==
    Cardinality({i \in DOMAIN coreQueue : coreQueue[i].of = c})
        + Cardinality({p \in pending : p.of = c})
        + Cardinality({i \in DOMAIN posted : posted[i].of = c})
        + (IF task.of = c THEN 1 ELSE 0)
        + Cardinality({j \in lostJobs : j.of = c})

(* The callback of a call that returns WLH_HOST_OK runs exactly once,      *)
(* unless it went with the queue, and that of one that is refused never;   *)
(* whether the executor takes it or not (host.c:130-165, host_rpc.c:203).  *)
CalledBackOnce ==
    \A c \in Calls : called[c] + PlacesOf(c) = IF accepted[c] THEN 1 ELSE 0
=============================================================================
