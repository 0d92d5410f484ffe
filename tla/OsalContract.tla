---------------------------- MODULE OsalContract ----------------------------
(* What an object of the OSAL promises: every call takes effect at once,   *)
(* in some order, or fails.  A call that may wait for ever fails only when *)
(* a semaphore is at its maximum; one that may not wait fails only when    *)
(* it would have to, or when another call is under way.                    *)
EXTENDS OsalCalls

VARIABLES
    kind,    \* which object it is
    value,   \* the items of the queue, the count, or the set bits
    call,    \* the call each thread is in
    result   \* what the last call of each thread returned

vars == <<kind, value, call, result>>

Init ==
    /\ kind \in Kinds
    /\ value \in CASE kind = "queue"     -> {<<>>}
                   [] kind = "semaphore" -> 0 .. Maximum
                   [] kind = "event"     -> {{}}
    /\ call = [t \in Threads |-> NoCall]
    /\ result = [t \in Threads |-> Done({})]

Begins(t) ==
    /\ call[t] = NoCall
    /\ \E c \in CallsOf(kind) : call' = [call EXCEPT ![t] = c]
    /\ result' = [result EXCEPT ![t] = Done({})]
    /\ UNCHANGED <<kind, value>>

Returns(t, r) ==
    /\ call' = [call EXCEPT ![t] = NoCall] /\ result' = [result EXCEPT ![t] = r]
    /\ UNCHANGED kind

(* The object is such that call c can take effect.                         *)
Allows(c) ==
    \/ c.op = "send" /\ Len(value) < Capacity
    \/ c.op = "receive" /\ value # <<>>
    \/ c.op = "take" /\ value > 0
    \/ c.op = "give" /\ value < Maximum
    \/ c.op = "wait" /\ Matches(c, value)
    \/ c.op = "set"

Succeeds(t) ==
    LET c == call[t]
    IN /\ Allows(c)
       /\ \/ c.op = "send" /\ value' = Append(value, c.item) /\ Returns(t, Done({}))
          \/ c.op = "receive" /\ value' = Tail(value) /\ Returns(t, Done({Head(value)}))
          \/ c.op = "take" /\ value' = value - 1 /\ Returns(t, Done({}))
          \/ c.op = "give" /\ value' = value + 1 /\ Returns(t, Done({}))
          \/ /\ c.op = "wait" /\ Returns(t, Done(value \cap c.bits))
             /\ value' = IF c.clear THEN value \ c.bits ELSE value
          \/ c.op = "set" /\ value' = value \cup c.bits /\ Returns(t, Done({}))

Fails(t) ==
    /\ \/ call[t].op = "give" /\ ~Allows(call[t])
       \/ call[t] # NoCall /\ call[t].timeout = "TIMED"
       \/ /\ call[t] # NoCall /\ call[t].timeout = "NO_WAIT"
          /\ ~Allows(call[t]) \/ \E u \in Threads \ {t} : call[u] # NoCall
    /\ Returns(t, Failed) /\ UNCHANGED value

Next == \E t \in Threads : Begins(t) \/ Succeeds(t) \/ Fails(t)

Spec == Init /\ [][Next]_vars
=============================================================================
