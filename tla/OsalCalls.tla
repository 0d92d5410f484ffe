----------------------------- MODULE OsalCalls -----------------------------
(* The calls on an object of the OSAL: a queue, a semaphore or an event.   *)
EXTENDS Integers, Sequences, FiniteSets

CONSTANTS
    Threads,    \* the threads that call
    Items,      \* what a queue carries
    Capacity,   \* capacity of the queue
    Maximum,    \* maximum_count of the semaphore
    Bits        \* the bits of the event

ASSUME OsalCallsAssumption ==
    /\ IsFiniteSet(Threads) /\ Items # {}
    /\ Capacity \in Nat \ {0} /\ Maximum \in Nat \ {0}

Kinds == {"queue", "semaphore", "event"}

(* WLH_OSAL_NO_WAIT, a number of milliseconds, WLH_OSAL_WAIT_FOREVER.      *)
Timeouts == {"NO_WAIT", "TIMED", "FOREVER"}

QueueCalls == [op : {"send"}, item : Items, timeout : Timeouts]
                  \cup [op : {"receive"}, timeout : Timeouts]
SemaphoreCalls == [op : {"take"}, timeout : Timeouts]
                      \cup [op : {"give"}, timeout : {"FOREVER"}]
EventCalls ==
    [op : {"wait"}, bits : (SUBSET Bits) \ {{}}, all : BOOLEAN,
     clear : BOOLEAN, timeout : Timeouts]
        \cup [op : {"set"}, bits : (SUBSET Bits) \ {{}}, timeout : {"FOREVER"}]

NoCall == [op |-> "none"]
CallsOf(kind) == CASE kind = "queue"     -> QueueCalls
                   [] kind = "semaphore" -> SemaphoreCalls
                   [] kind = "event"     -> EventCalls
Calls == QueueCalls \cup SemaphoreCalls \cup EventCalls

(* What a call returns: whether it succeeded, and an item or bits.         *)
Results == [ok : BOOLEAN, value : SUBSET (Items \cup Bits)]
Failed == [ok |-> FALSE, value |-> {}]
Done(v) == [ok |-> TRUE, value |-> v]

(* event_matches                                                           *)
Matches(c, set) == IF c.all THEN c.bits \subseteq set ELSE c.bits \cap set # {}
=============================================================================
