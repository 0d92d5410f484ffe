---------------------------- MODULE PosixObjects ----------------------------
(***************************************************************************)
(* Queues, semaphores and events of the POSIX OSAL.  Each is a mutex, its  *)
(* data and condition variables; a call locks the mutex, waits on a        *)
(* condition as long as it cannot take effect, takes effect, and signals   *)
(* those who may now be able to.                                           *)
(*                                                                         *)
(* A call that must not wait does not wait for the mutex either.  A wait   *)
(* that has timed out is the end of the call: the condition is not looked  *)
(* at again, although a timed-out wait may have taken a signal (POSIX).    *)
(***************************************************************************)
EXTENDS OsalCalls

CONSTANT Nobody     \* the owner of an unlocked mutex

ASSUME PosixObjectsAssumption == Nobody \notin Threads

VARIABLES
    kind,       \* queue_state_t, semaphore_state_t or event_state_t
    storage,    \* storage of the queue, which starts with anything
    head,       \* where its first item is
    count,      \* count of the queue or of the semaphore
    bits,       \* bits of the event
    owner,      \* who holds the mutex
    call,       \* the call a thread is in
    pc,         \* where it is: "idle", "locking" the mutex for the first time,
                \* "holding" it, "waiting" on a condition, or, the mutex still
                \* to be locked again, "woken" or "late"; "leaving" with it
    result,     \* what the last call of a thread returned
    swallowed   \* a wait that timed out took a signal others waited for

dataVars == <<kind, storage, head, count, bits>>
posixVars == <<dataVars, owner, call, pc, result, swallowed>>

PosixInit ==
    /\ kind \in Kinds
    /\ storage \in [0 .. Capacity - 1 -> Items] /\ head = 0
    /\ count \in IF kind = "semaphore" THEN 0 .. Maximum ELSE {0}
    /\ bits = {} /\ owner = Nobody
    /\ call = [t \in Threads |-> NoCall] /\ pc = [t \in Threads |-> "idle"]
    /\ result = [t \in Threads |-> Done({})] /\ swallowed = FALSE

Waiters(op) == {t \in Threads : pc[t] = "waiting" /\ call[t].op = op}

-----------------------------------------------------------------------------
Begin(t) ==
    /\ pc[t] = "idle" /\ pc' = [pc EXCEPT ![t] = "locking"]
    /\ \E c \in CallsOf(kind) : call' = [call EXCEPT ![t] = c]
    /\ result' = [result EXCEPT ![t] = Done({})]
    /\ UNCHANGED <<dataVars, owner, swallowed>>

(* The thread locks the mutex, at first or when its wait is over.          *)
Lock(t) ==
    /\ pc[t] \in {"locking", "woken", "late"} /\ owner = Nobody
    /\ owner' = t
    /\ pc' = [pc EXCEPT ![t] = IF @ = "late" THEN "leaving" ELSE "holding"]
    /\ UNCHANGED <<dataVars, call, result, swallowed>>

Returns(t, r) ==
    /\ call' = [call EXCEPT ![t] = NoCall]
    /\ result' = [result EXCEPT ![t] = r]

(* lock_with_timeout gives up: at once, or when the deadline has passed.   *)
LockFails(t) ==
    /\ pc[t] = "locking" /\ owner # Nobody /\ call[t].timeout # "FOREVER"
    /\ pc' = [pc EXCEPT ![t] = "idle"] /\ Returns(t, Failed)
    /\ UNCHANGED <<dataVars, owner, swallowed>>

(* The condition of the loop a call waits in.                              *)
Ready(c) ==
    \/ c.op = "send" /\ count < Capacity
    \/ c.op \in {"receive", "take"} /\ count > 0
    \/ c.op = "wait" /\ Matches(c, bits)
    \/ c.op \in {"give", "set"}

(* wait_condition lets go of the mutex ...                                 *)
Wait(t) ==
    /\ pc[t] = "holding" /\ ~Ready(call[t]) /\ call[t].timeout # "NO_WAIT"
    /\ owner' = Nobody /\ pc' = [pc EXCEPT ![t] = "waiting"]
    /\ UNCHANGED <<dataVars, call, result, swallowed>>

(* ... or refuses: there is to be no wait, or the deadline has passed.     *)
GiveUp(t) ==
    /\ pc[t] = "holding" /\ ~Ready(call[t]) /\ call[t].timeout # "FOREVER"
    /\ owner' = Nobody /\ pc' = [pc EXCEPT ![t] = "idle"] /\ Returns(t, Failed)
    /\ UNCHANGED <<dataVars, swallowed>>

TimesOut(t) ==
    /\ pc[t] = "waiting" /\ call[t].timeout = "TIMED"
    /\ pc' = [pc EXCEPT ![t] = "late"]
    /\ UNCHANGED <<dataVars, owner, call, result, swallowed>>

(* A condition variable may wake a thread for no reason.                   *)
WakesSpuriously(t) ==
    /\ pc[t] = "waiting" /\ pc' = [pc EXCEPT ![t] = "woken"]
    /\ UNCHANGED <<dataVars, owner, call, result, swallowed>>

Leave(t) ==
    /\ pc[t] = "leaving"
    /\ owner' = Nobody /\ pc' = [pc EXCEPT ![t] = "idle"] /\ Returns(t, Failed)
    /\ UNCHANGED <<dataVars, swallowed>>

-----------------------------------------------------------------------------
(* A call takes effect, signals, unlocks and returns r.                    *)

Unlocks(t, r) == owner' = Nobody /\ Returns(t, r)

(* pthread_cond_signal: one of the waiters goes on, or times out all the   *)
(* same.  The slip signals only when there was nothing before.             *)
SignalFirstOnly(t, op) ==
    \/ /\ Waiters(op) = {} \/ count # 0
       /\ pc' = [pc EXCEPT ![t] = "idle"] /\ UNCHANGED swallowed
    \/ /\ count = 0
       /\ \E w \in Waiters(op) :
             pc' = [pc EXCEPT ![t] = "idle", ![w] = "woken"] /\ UNCHANGED swallowed

Signal(t, op) ==
    \/ /\ Waiters(op) = {}
       /\ pc' = [pc EXCEPT ![t] = "idle"] /\ UNCHANGED swallowed
    \/ \E w \in Waiters(op) :
          /\ pc' = [pc EXCEPT ![t] = "idle", ![w] = "woken"] /\ UNCHANGED swallowed
    \/ \E w \in Waiters(op) :
          /\ call[w].timeout = "TIMED"
          /\ pc' = [pc EXCEPT ![t] = "idle", ![w] = "late"]
          /\ swallowed' = (swallowed \/ Waiters(op) # {w})

Holds(t, op) == pc[t] = "holding" /\ call[t].op = op /\ Ready(call[t])

(* Where the next item goes.  The slip forgets where the first one is.     *)
TailFromStart == count % Capacity
TailSlot == (head + count) % Capacity

Send(t) ==
    /\ Holds(t, "send") /\ Unlocks(t, Done({})) /\ Signal(t, "receive")
    /\ storage' = [storage EXCEPT ![TailSlot] = call[t].item]
    /\ count' = count + 1
    /\ UNCHANGED <<kind, head, bits>>

Receive(t) ==
    /\ Holds(t, "receive") /\ Unlocks(t, Done({storage[head]})) /\ Signal(t, "send")
    /\ head' = (head + 1) % Capacity /\ count' = count - 1
    /\ UNCHANGED <<kind, storage, bits>>

Take(t) ==
    /\ Holds(t, "take") /\ Unlocks(t, Done({}))
    /\ pc' = [pc EXCEPT ![t] = "idle"]
    /\ count' = count - 1
    /\ UNCHANGED <<kind, storage, head, bits, swallowed>>

(* semaphore_give_common                                                   *)
Give(t) ==
    /\ Holds(t, "give")
    /\ \/ /\ count < Maximum
          /\ Unlocks(t, Done({})) /\ Signal(t, "take") /\ count' = count + 1
       \/ /\ count = Maximum
          /\ Unlocks(t, Failed) /\ pc' = [pc EXCEPT ![t] = "idle"]
          /\ UNCHANGED <<count, swallowed>>
    /\ UNCHANGED <<kind, storage, head, bits>>

AwaitBits(t) ==
    /\ Holds(t, "wait") /\ Unlocks(t, Done(bits \cap call[t].bits))
    /\ pc' = [pc EXCEPT ![t] = "idle"]
    /\ bits' = IF call[t].clear THEN bits \ call[t].bits ELSE bits
    /\ UNCHANGED <<kind, storage, head, count, swallowed>>

(* pthread_cond_broadcast                                                  *)
SetBits(t) ==
    /\ Holds(t, "set") /\ Unlocks(t, Done({}))
    /\ pc' = [u \in Threads |-> IF u = t THEN "idle"
                                ELSE IF u \in Waiters("wait") THEN "woken" ELSE pc[u]]
    /\ bits' = bits \cup call[t].bits
    /\ UNCHANGED <<kind, storage, head, count, swallowed>>

-----------------------------------------------------------------------------
Step(t) ==
    \/ Begin(t) \/ Lock(t) \/ LockFails(t) \/ Leave(t)
    \/ Wait(t) \/ GiveUp(t) \/ TimesOut(t) \/ WakesSpuriously(t)
    \/ Send(t) \/ Receive(t) \/ Take(t) \/ Give(t) \/ AwaitBits(t) \/ SetBits(t)

PosixNext == \E t \in Threads : Step(t)

PosixSpec == PosixInit /\ [][PosixNext]_posixVars

-----------------------------------------------------------------------------
(* Threads that will find what there is before they wait again.            *)
Coming(op) == {t \in Threads : call[t].op = op /\ pc[t] \in {"woken", "holding"}}

(* Nobody sleeps beside an item, a free place or a unit that nobody else   *)
(* is on the way to take, or beside bits that are what it waits for;       *)
(* unless a wait that timed out took the signal, which POSIX allows        *)
(* (posix_osal.c:404, 554, 590: the result of a timed-out wait is returned *)
(* without another look at the condition).                                 *)
NoLostWakeup ==
    /\ ~swallowed => \A op \in {"send", "receive", "take"} :
          Waiters(op) # {} =>
              Cardinality(Coming(op)) >= IF op = "send" THEN Capacity - count ELSE count
    /\ \A t \in Waiters("wait") : ~Matches(call[t], bits)

(* The data as the contract sees it.                                       *)
Value == CASE kind = "queue"     -> [i \in 1 .. count |-> storage[(head + i - 1) % Capacity]]
           [] kind = "semaphore" -> count
           [] kind = "event"     -> bits

(* The objects keep their contract: the ring is a FIFO queue, no unit or   *)
(* bit is lost or taken twice, and who may wait for ever is not refused.   *)
Contract == INSTANCE OsalContract WITH value <- Value
ContractSpec == Contract!Spec
=============================================================================
