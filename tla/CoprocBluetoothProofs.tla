------------------------ MODULE CoprocBluetoothProofs ------------------------
(***************************************************************************)
(* The properties of CoprocBluetooth for any number of threads, any        *)
(* windows and queue depth, and any number of Hellos and operations.       *)
(***************************************************************************)
EXTENDS CoprocBluetooth, QueueCountsProofs

USE CoprocBluetoothAssumption

LEMMA PacketsAre ==
    /\ \A p \in Packets : p.ch \in Channels /\ p.epoch \in Nat /\ p # NoPacket
    /\ \A c \in Channels, e \in Epochs :
           [ch |-> c, epoch |-> e] \in Packets
    /\ \A p \in Packets : p = [ch |-> p.ch, epoch |-> p.epoch]
    /\ Channels = {"hci", "adv"} /\ Epochs \subseteq Nat
<1>1. \A p \in Packets : p.ch \in Channels /\ p.ch # "none"
  BY DEF Packets, Channels
<1>2. NoPacket.ch = "none"
  BY DEF NoPacket
<1> QED BY <1>1, <1>2 DEF Packets, Channels, Epochs

-----------------------------------------------------------------------------
(* Type correctness.                                                       *)

LEMMA LessTyped == \A n \in Nat : OneLess(n) \in Nat
BY DEF OneLess

LEMMA GivesBackTyped ==
    ASSUME TypeOK, NEW p \in Packets, GivesBack(p)
    PROVE  inflight' \in [Channels -> Nat] /\ crossed' \in [Channels -> Nat]
<1> DEFINE c == p.ch
<1>1. /\ c \in Channels /\ inflight \in [Channels -> Nat] /\ crossed \in [Channels -> Nat]
      /\ OneLess(inflight[c]) \in Nat
  BY PacketsAre, LessTyped DEF TypeOK
<1>2. /\ inflight' = [inflight EXCEPT ![c] = OneLess(inflight[c])]
      /\ crossed' = crossed \/ crossed' = [crossed EXCEPT ![c] = crossed[c] + 1]
  BY DEF GivesBack
<1> HIDE DEF c
<1>3. \A n \in Nat : [inflight EXCEPT ![c] = n] \in [Channels -> Nat]
  BY <1>1
<1>4. [crossed EXCEPT ![c] = crossed[c] + 1] \in [Channels -> Nat]
  BY <1>1
<1> QED BY <1>1, <1>2, <1>3, <1>4

LEMMA TypeStep == TypeOK /\ [Next]_vars => TypeOK'
<1> SUFFICES ASSUME TypeOK, [Next]_vars PROVE TypeOK'
  OBVIOUS
<1> USE DEF TypeOK
<1>1. CASE Start \/ HelloRefused \/ Stop
  <2>1. CASE Start \/ HelloRefused
    BY <2>1 DEF Start, HelloRefused, linkVars, serviceVars, packetVars, waitVars
  <2>2. CASE Stop
    <3>1. queue' \in Seq(Packets) /\ Len(queue') <= Depth
      BY <2>2 DEF Stop
    <3>2. session' = 0 /\ 0 \in Epochs
      BY <2>2 DEF Stop, Epochs
    <3>3. running' \in BOOLEAN
      BY <2>2 DEF Stop
    <3> QED BY <2>2, <3>1, <3>2, <3>3 DEF Stop, serviceVars, waitVars
  <2> QED BY <1>1, <2>1, <2>2
<1>2. CASE Hello
  <2>1. \A c \in Channels, b \in BOOLEAN : Window(c, b) \in Nat
    BY DEF Window, Channels
  <2>2. NoOp \in Pending /\ "UNSPECIFIED" \in States /\ epoch' \in Epochs /\ 0 \in Epochs
    BY <1>2 DEF Hello, Pending, States, Epochs
  <2>3. credit' \in [Channels -> Nat]
    BY <1>2, <2>1 DEF Hello
  <2>4. inflight' \in [Channels -> Nat] /\ crossed' \in [Channels -> Nat]
    BY <1>2 DEF Hello
  <2>5. session' \in Epochs /\ epoch' \in Epochs
    BY <1>2, <2>2 DEF Hello
  <2> QED BY <1>2, <2>2, <2>3, <2>4, <2>5 DEF Hello
<1>3. CASE EnterError
  BY <1>3 DEF EnterError, linkVars, packetVars, waitVars, States
<1>4. ASSUME NEW method \in Methods, Request(method) PROVE TypeOK'
  <2>1. submitted' \in 1 .. MaxOp
    BY <1>4 DEF Request
  <2>2. /\ [op |-> submitted', session |-> session, method |-> method] \in Pending
        /\ [op |-> submitted', epoch |-> epoch, method |-> method] \in Operations
    BY <2>1 DEF Pending, Operations
  <2> QED BY <1>4, <2>1, <2>2 DEF Request, linkVars, packetVars, waitVars
<1>5. ASSUME NEW o \in ops, NEW ok \in BOOLEAN, OperationCompletes(o, ok) PROVE TypeOK'
  <2>1. \A m \in Methods, s \in States : After(m, s) \in States
    BY DEF After, States, Methods
  <2>2. o.method \in Methods /\ (pending # NoOp => pending.method \in Methods)
        /\ NoOp \in Pending
    BY DEF Operations, Pending
  <2> QED BY <1>5, <2>1, <2>2 DEF OperationCompletes, Finishes, linkVars, packetVars, waitVars
<1>6. CASE RefuseForCredit
  BY <1>6 DEF RefuseForCredit, linkVars, serviceVars, packetVars
<1>7. ASSUME NEW t \in Threads, NEW report \in BOOLEAN, Reserve(t, report) PROVE TypeOK'
  <2>1. PICK c \in Channels :
            /\ inflight' = [inflight EXCEPT ![c] = @ + 1]
            /\ at' = [at EXCEPT ![t] = [ch |-> c, epoch |-> epoch]]
            /\ waiting' \in BOOLEAN
    BY <1>7 DEF Reserve, Channels
  <2>2. [ch |-> c, epoch |-> epoch] \in Packets
    BY PacketsAre
  <2> QED BY <1>7, <2>1, <2>2 DEF Reserve, linkVars, serviceVars
<1>8. ASSUME NEW t \in Threads, Enqueue(t) PROVE TypeOK'
  BY <1>8 DEF Enqueue, linkVars, serviceVars, waitVars
<1>9. ASSUME NEW t \in Threads, GiveUp(t) PROVE TypeOK'
  <2>1. at[t] \in Packets
    BY <1>9 DEF GiveUp
  <2>2. freed' \in BOOLEAN
    BY <1>9 DEF GiveUp, Frees
  <2> QED BY <1>9, <2>1, <2>2, GivesBackTyped DEF GiveUp, linkVars, serviceVars
<1>10. CASE HandleTx
  <2>1. Head(queue) \in Packets
    BY <1>10 DEF HandleTx
  <2>2. inflight' \in [Channels -> Nat] /\ crossed' \in [Channels -> Nat]
    BY <1>10, <2>1, GivesBackTyped DEF HandleTx
  <2>3. PICK c \in Channels : c = Head(queue).ch
    BY <2>1, PacketsAre
  <2>4. credit' \in [Channels -> Nat]
    <3>1. credit[c] \in Nat
      OBVIOUS
    <3>2. \/ credit' = credit
          \/ credit[c] > 0 /\ credit' = [credit EXCEPT ![c] = credit[c] - 1]
      BY <1>10, <2>3, Zenon DEF HandleTx
    <3>3. credit[c] > 0 => credit[c] - 1 \in Nat
      BY <3>1
    <3> QED BY <3>2, <3>3
  <2>5. queue' \in Seq(Packets) /\ Len(queue') <= Depth
    BY <1>10 DEF HandleTx
  <2>6. freed' \in BOOLEAN
    <3>1. freed' = freed \/ freed' = (freed \/ Head(queue).ch = "hci")
      BY <1>10, Zenon DEF HandleTx, Frees
    <3> QED BY <3>1
  <2> QED BY <1>10, <2>2, <2>4, <2>5, <2>6 DEF HandleTx, linkVars, serviceVars
<1>11. ASSUME NEW c \in Channels, NEW n \in Nat, CreditUpdate(c, n) PROVE TypeOK'
  BY <1>11 DEF CreditUpdate, linkVars, serviceVars
<1>12. CASE UNCHANGED vars
  BY <1>12 DEF vars, linkVars, serviceVars, packetVars, waitVars
<1> HIDE DEF TypeOK
<1> QED BY <1>1, <1>2, <1>3, <1>4, <1>5, <1>6, <1>7, <1>8, <1>9, <1>10, <1>11, <1>12
        DEF Next, Link, Service, Send, Worker, Channels

(* The state of the service is well typed; in particular the counters of   *)
(* reserved units never wrap below zero (coproc_bluetooth.c:481-486).      *)
THEOREM TypeCorrect == Spec => []TypeOK
<1>1. ASSUME Init PROVE TypeOK
  <2>1. queue \in Seq(Packets) /\ Len(queue) <= Depth
    BY <1>1 DEF Init
  <2>2. at \in [Threads -> Packets \cup {NoPacket}]
    BY <1>1 DEF Init
  <2>3. /\ session \in Epochs /\ epoch \in Epochs /\ submitted \in 0 .. MaxOp
        /\ pending \in Pending /\ state \in States /\ controller \in States
    BY <1>1 DEF Init, Epochs, Pending, States
  <2> QED BY <1>1, <2>1, <2>2, <2>3 DEF Init, TypeOK
<1> QED BY <1>1, TypeStep, PTL DEF Spec

-----------------------------------------------------------------------------
(* The controller's state.  In a session the backend works on at most one  *)
(* operation of it, the pending one.                                       *)

OnePending ==
    /\ \A o \in ops : o.op <= submitted /\ o.epoch <= epoch
    /\ pending # NoOp =>
           /\ pending.op <= submitted
           /\ \A o \in ops : o.op = pending.op => o.method = pending.method
    /\ session # 0 /\ pending # NoOp =>
           /\ pending.session = session
           /\ \A o \in ops : o.op = pending.op => o.epoch = epoch
    /\ session # 0 => \A o \in ops : o.epoch = epoch => pending # NoOp /\ o.op = pending.op

StateInv == OnePending /\ StateFollowsBackend

LEMMA OpsTyped == TypeOK => /\ \A o \in ops : o.op \in Nat /\ o.epoch \in Nat
                                                /\ o.method \in Methods
                            /\ submitted \in Nat /\ epoch \in Nat
                            /\ pending # NoOp => pending.method \in Methods
BY DEF TypeOK, Operations, Pending, Epochs

LEMMA RequestKept ==
    ASSUME TypeOK, StateInv, NEW method \in Methods, Request(method)
    PROVE  StateInv'
<1>1. /\ session # 0 /\ pending = NoOp /\ submitted' = submitted + 1
      /\ UNCHANGED <<session, epoch, state, controller>>
  BY DEF Request, linkVars
<1>2. /\ \A o \in ops : o.op \in Nat /\ o.op <= submitted /\ o.epoch <= epoch
                        /\ o.epoch # epoch
      /\ submitted \in Nat /\ epoch \in Nat
  BY <1>1, OpsTyped DEF StateInv, OnePending
<1>3. CASE UNCHANGED <<pending, ops>>
  BY <1>1, <1>2, <1>3 DEF StateInv, OnePending, StateFollowsBackend
<1>4. ASSUME NEW p, NEW new,
             p = [op |-> submitted', session |-> session, method |-> method],
             new = [op |-> submitted', epoch |-> epoch, method |-> method],
             pending' = p, ops' = ops \cup {new}
      PROVE  StateInv'
  <2>1. /\ p.op = submitted' /\ p.session = session /\ p.method = method
        /\ new.op = submitted' /\ new.epoch = epoch /\ new.method = method
    BY <1>4
  <2>2. \A o \in ops : o.op # submitted' /\ o.op <= submitted'
    BY <1>1, <1>2
  <2>3. p # NoOp
    <3>1. NoOp = [op |-> 0] /\ submitted' # 0
      BY <1>1, <1>2 DEF NoOp
    <3>2. NoOp.op = 0
      BY <3>1
    <3> QED BY <2>1, <3>1, <3>2
  <2>4. OnePending'
    BY <1>1, <1>2, <1>4, <2>1, <2>2, <2>3 DEF OnePending
  <2> QED BY <1>1, <2>4 DEF StateInv, StateFollowsBackend
<1> QED BY <1>3, <1>4 DEF Request

LEMMA CompletionKept ==
    ASSUME TypeOK, StateInv, NEW o \in ops, NEW ok \in BOOLEAN, OperationCompletes(o, ok)
    PROVE  StateInv'
<1>1. /\ ops' = ops \ {o} /\ UNCHANGED <<session, epoch, submitted>>
      /\ controller' = IF ok /\ o.epoch = epoch THEN After(o.method, controller)
                                                ELSE controller
  BY DEF OperationCompletes, linkVars
<1>2. CASE Finishes(o)
  <2>1. /\ pending' = NoOp /\ pending # NoOp /\ pending.op = o.op
        /\ pending.session = session
        /\ state' = IF ok THEN After(pending.method, state) ELSE state
    BY <1>2 DEF OperationCompletes, Finishes
  <2>2. o.method = pending.method /\ o.method \in Methods
    BY <2>1, OpsTyped DEF StateInv, OnePending
  <2>3. OnePending'
    <3>1. session # 0 => \A d \in ops' : d.epoch # epoch
      <4> SUFFICES ASSUME session # 0, NEW d \in ops, d # o, d.epoch = epoch PROVE FALSE
        BY <1>1
      <4>1. d.op = pending.op /\ o.op = pending.op
        BY <2>1 DEF StateInv, OnePending
      <4>2. d.method = o.method /\ o.epoch = epoch
        BY <2>1, <4>1 DEF StateInv, OnePending
      <4>3. \A a, b \in Operations :
                a.op = b.op /\ a.epoch = b.epoch /\ a.method = b.method => a = b
        BY DEF Operations
      <4> QED BY <1>1, <4>1, <4>2, <4>3 DEF TypeOK
    <3> QED BY <1>1, <2>1, <3>1 DEF StateInv, OnePending
  <2>4. ASSUME session # 0, state' # "ERROR" PROVE state' = controller'
    <3>1. o.epoch = epoch
      BY <2>1, <2>4 DEF StateInv, OnePending
    <3>2. state # "ERROR" => state = controller
      BY <2>4 DEF StateInv, StateFollowsBackend
    <3> QED BY <1>1, <2>1, <2>2, <2>4, <3>1, <3>2 DEF After, Methods
  <2> QED BY <1>1, <2>3, <2>4 DEF StateInv, StateFollowsBackend
<1>3. CASE ~Finishes(o)
  <2>1. UNCHANGED <<pending, state>>
    BY <1>3 DEF OperationCompletes
  <2>2. session # 0 => o.epoch # epoch
    BY <1>3 DEF Finishes, StateInv, OnePending
  <2> QED BY <1>1, <2>1, <2>2 DEF StateInv, OnePending, StateFollowsBackend
<1> QED BY <1>2, <1>3

LEMMA StateStep == TypeOK /\ StateInv /\ [Next]_vars => StateInv'
<1> SUFFICES ASSUME TypeOK, StateInv, [Next]_vars PROVE StateInv'
  OBVIOUS
<1>1. CASE Hello
  <2>1. epoch' = epoch + 1 /\ epoch \in Nat /\ \A o \in ops : o.epoch \in Nat
    BY <1>1, OpsTyped DEF Hello
  <2>2. \A o \in ops : o.epoch <= epoch' /\ o.epoch # epoch'
    BY <2>1 DEF StateInv, OnePending
  <2> QED BY <1>1, <2>2 DEF Hello, StateInv, OnePending, StateFollowsBackend
<1>2. CASE EnterError
  BY <1>2 DEF EnterError, linkVars, StateInv, OnePending, StateFollowsBackend
<1>3. CASE Stop
  BY <1>3 DEF Stop, serviceVars, StateInv, OnePending, StateFollowsBackend
<1>4. CASE UNCHANGED <<session, epoch, serviceVars>>
  BY <1>4 DEF serviceVars, StateInv, OnePending, StateFollowsBackend
<1> QED BY <1>1, <1>2, <1>3, <1>4, RequestKept, CompletionKept
        DEF Next, Link, Service, Send, Worker, Start, HelloRefused, RefuseForCredit, Enqueue,
            GiveUp, Reserve, HandleTx, CreditUpdate, linkVars, vars

(* In every session the core knows where the controller is, whatever       *)
(* completes late (coproc_bluetooth.c:260).                                *)
THEOREM StateIsKnown == Spec => []StateFollowsBackend
<1>1. Init => StateInv
  BY DEF Init, StateInv, OnePending, StateFollowsBackend
<1>2. StateInv => StateFollowsBackend
  BY DEF StateInv
<1> QED BY <1>1, <1>2, StateStep, TypeCorrect, PTL DEF Spec

-----------------------------------------------------------------------------
(* The latch.  HCI is stopped in ERROR, which only the operations that let *)
(* it flow again leave, unless one was under way when the error came.      *)

StoppedInError ==
    stopped /\ ~overtaken =>
        /\ state = "ERROR"
        /\ pending # NoOp => pending.method \in {"DISABLE", "DEINITIALIZE", "GET_INFO"}

LEMMA LatchStep == TypeOK /\ StoppedInError /\ [Next]_vars => StoppedInError'
<1> SUFFICES ASSUME TypeOK, StoppedInError, [Next]_vars PROVE StoppedInError'
  OBVIOUS
<1> USE DEF StoppedInError
<1>1. CASE Hello
  BY <1>1 DEF Hello
<1>2. CASE EnterError
  BY <1>2 DEF EnterError, TypeOK
<1>3. ASSUME NEW method \in Methods, Request(method) PROVE StoppedInError'
  <2>1. state = "ERROR" => method \in {"DISABLE", "DEINITIALIZE", "GET_INFO"}
    BY <1>3 DEF Request, Submits, Methods
  <2>2. UNCHANGED <<state, stopped, overtaken>>
    BY <1>3 DEF Request
  <2>3. pending' # pending => pending'.method = method
    BY <1>3 DEF Request
  <2> QED BY <2>1, <2>2, <2>3
<1>4. ASSUME NEW o \in ops, NEW ok \in BOOLEAN, OperationCompletes(o, ok)
      PROVE  StoppedInError'
  <2>1. CASE Finishes(o)
    <3>1. /\ pending' = NoOp /\ pending # NoOp
          /\ state' = IF ok THEN After(pending.method, state) ELSE state
          /\ stopped' <=> stopped /\ ~(ok /\ Clears(pending.method))
          /\ overtaken' <=> overtaken /\ ~(ok /\ pending.method \in {"DISABLE", "DEINITIALIZE"})
      BY <1>4, <2>1 DEF OperationCompletes, Finishes
    <3> QED BY <3>1 DEF Clears, After
  <2>2. CASE ~Finishes(o)
    BY <1>4, <2>2 DEF OperationCompletes
  <2> QED BY <2>1, <2>2
<1>5. CASE UNCHANGED serviceVars
  BY <1>5 DEF serviceVars
<1> QED BY <1>1, <1>2, <1>3, <1>4, <1>5
        DEF Next, Link, Service, Send, Worker, Start, Stop, HelloRefused, RefuseForCredit,
            Enqueue, GiveUp, Reserve, HandleTx, CreditUpdate, vars

(* HCI flows where it is announced as usable, unless an error overtook an  *)
(* operation (coproc_bluetooth.c:276-291).                                 *)
THEOREM EnabledMeansUsable == Spec => []EnabledCarriesHci
<1>1. Init => StoppedInError
  BY DEF Init, StoppedInError
<1>2. StoppedInError => EnabledCarriesHci
  BY DEF StoppedInError, EnabledCarriesHci
<1> QED BY <1>1, <1>2, LatchStep, TypeCorrect, PTL DEF Spec

-----------------------------------------------------------------------------
(* The packets that wait.  What one step does to their number.             *)

Held(a, p) == {t \in Threads : a[t] = p}

LEMMA HeldFinite == \A a, p : IsFiniteSet(Held(a, p)) /\ Cardinality(Held(a, p)) \in Nat
<1> TAKE a, p
<1>1. Held(a, p) \subseteq Threads
  BY DEF Held
<1> QED BY <1>1, FS_Subset, FS_CardinalityType

(* Between a and b the thread t takes the packet x up.                     *)
TakesUp(a, b, t, x) ==
    /\ t \in Threads /\ a[t] = NoPacket /\ b[t] = x
    /\ \A u \in Threads \ {t} : b[u] = a[u]

LEMMA HeldMore ==
    ASSUME NEW a, NEW b, NEW t, NEW x, TakesUp(a, b, t, x),
           NEW p, p # NoPacket, x # NoPacket
    PROVE  Cardinality(Held(b, p)) = Cardinality(Held(a, p)) + IF x = p THEN 1 ELSE 0
<1>1. Held(b, p) = IF x = p THEN Held(a, p) \cup {t} ELSE Held(a, p)
  BY DEF Held, TakesUp
<1>2. t \notin Held(a, p)
  BY DEF Held, TakesUp
<1>3. Cardinality(Held(a, p) \cup {t}) = Cardinality(Held(a, p)) + 1
  BY <1>2, HeldFinite, FS_AddElement
<1> QED BY <1>1, <1>3, HeldFinite

LEMMA WaitingType == TypeOK => \A c \in Channels : Waiting(c) \in Nat
<1> SUFFICES ASSUME TypeOK, NEW c \in Channels PROVE Waiting(c) \in Nat
  OBVIOUS
<1> DEFINE p == [ch |-> c, epoch |-> epoch]
<1>1. CountIn(queue, {p}) \in Nat
  BY CountType DEF TypeOK
<1>2. Cardinality(Held(at, p)) \in Nat
  BY HeldFinite
<1> QED BY <1>1, <1>2 DEF Waiting, Held

(* One more packet waits once a thread has reserved a unit for it ...      *)
LEMMA WaitingReserve ==
    ASSUME TypeOK, NEW t \in Threads, NEW x \in Packets, NEW c \in Channels,
           at[t] = NoPacket, at' = [at EXCEPT ![t] = x], UNCHANGED <<queue, epoch>>
    PROVE  Waiting(c)' = Waiting(c) + IF x.ch = c /\ x.epoch = epoch THEN 1 ELSE 0
<1>0. PICK p : p = [ch |-> c, epoch |-> epoch]
  OBVIOUS
<1>1. p \in Packets /\ p # NoPacket /\ x # NoPacket
  BY <1>0, PacketsAre DEF TypeOK
<1>2. x = p <=> x.ch = c /\ x.epoch = epoch
  BY <1>0, PacketsAre
<1>3. Cardinality(Held(at', p)) = Cardinality(Held(at, p)) + IF x = p THEN 1 ELSE 0
  <2>1. TakesUp(at, at', t, x)
    BY DEF TypeOK, TakesUp
  <2> QED BY <1>1, <2>1, HeldMore
<1>4. CountIn(queue, {p}) \in Nat /\ Cardinality(Held(at, p)) \in Nat
  BY CountType, HeldFinite DEF TypeOK
<1>5. /\ Waiting(c) = CountIn(queue, {p}) + Cardinality(Held(at, p))
      /\ Waiting(c)' = CountIn(queue, {p}) + Cardinality(Held(at', p))
  BY <1>0 DEF Waiting, Held
<1> QED BY <1>2, <1>3, <1>4, <1>5

(* ... and one less when it gives the packet up, ...                       *)
LEMMA WaitingGiveUp ==
    ASSUME TypeOK, NEW t \in Threads, NEW x \in Packets, NEW c \in Channels,
           at[t] = x, at' = [at EXCEPT ![t] = NoPacket], UNCHANGED <<queue, epoch>>
    PROVE  Waiting(c) = Waiting(c)' + IF x.ch = c /\ x.epoch = epoch THEN 1 ELSE 0
<1>0. PICK p : p = [ch |-> c, epoch |-> epoch]
  OBVIOUS
<1>1. p \in Packets /\ p # NoPacket /\ x # NoPacket
  BY <1>0, PacketsAre DEF TypeOK
<1>2. x = p <=> x.ch = c /\ x.epoch = epoch
  BY <1>0, PacketsAre
<1>3. Cardinality(Held(at, p)) = Cardinality(Held(at', p)) + IF x = p THEN 1 ELSE 0
  <2>1. TakesUp(at', at, t, x)
    BY DEF TypeOK, TakesUp
  <2> QED BY <1>1, <2>1, HeldMore
<1>4. CountIn(queue, {p}) \in Nat /\ Cardinality(Held(at', p)) \in Nat
  BY CountType, HeldFinite DEF TypeOK
<1>5. /\ Waiting(c) = CountIn(queue, {p}) + Cardinality(Held(at, p))
      /\ Waiting(c)' = CountIn(queue, {p}) + Cardinality(Held(at', p))
  BY <1>0 DEF Waiting, Held
<1> QED BY <1>2, <1>3, <1>4, <1>5

(* ... as many when it queues it, ...                                      *)
LEMMA WaitingEnqueue ==
    ASSUME TypeOK, NEW t \in Threads, Enqueue(t), NEW c \in Channels
    PROVE  Waiting(c)' = Waiting(c)
<1>0. PICK p : p = [ch |-> c, epoch |-> epoch]
  OBVIOUS
<1>1. PICK x \in Packets : x = at[t]
  BY DEF Enqueue, TypeOK
<1>2. p \in Packets /\ p # NoPacket /\ x # NoPacket
  BY <1>0, PacketsAre DEF TypeOK
<1>3. Cardinality(Held(at, p)) = Cardinality(Held(at', p)) + IF x = p THEN 1 ELSE 0
  <2>1. TakesUp(at', at, t, x)
    BY <1>1 DEF TypeOK, Enqueue, TakesUp
  <2> QED BY <1>1, <1>2, <2>1, HeldMore
<1>4. CountIn(queue', {p}) = CountIn(queue, {p}) + IF x = p THEN 1 ELSE 0
  <2>1. queue' = Append(queue, x) /\ queue \in Seq(Packets)
    BY <1>1 DEF Enqueue, TypeOK
  <2> QED BY <2>1, CountAppend
<1>5. CountIn(queue, {p}) \in Nat /\ Cardinality(Held(at', p)) \in Nat
  BY CountType, HeldFinite DEF TypeOK
<1>6. /\ Waiting(c) = CountIn(queue, {p}) + Cardinality(Held(at, p))
      /\ Waiting(c)' = CountIn(queue', {p}) + Cardinality(Held(at', p))
  BY <1>0 DEF Waiting, Held, Enqueue, linkVars
<1> QED BY <1>3, <1>4, <1>5, <1>6

(* ... and one less when it leaves the queue.                              *)
LEMMA WaitingTail ==
    ASSUME TypeOK, queue # <<>>, NEW x \in Packets, x = Head(queue), queue' = Tail(queue),
           UNCHANGED <<at, epoch>>, NEW c \in Channels
    PROVE  Waiting(c) = Waiting(c)' + IF x.ch = c /\ x.epoch = epoch THEN 1 ELSE 0
<1>0. PICK p : p = [ch |-> c, epoch |-> epoch]
  OBVIOUS
<1>1. x = p <=> x.ch = c /\ x.epoch = epoch
  BY <1>0, PacketsAre
<1>2. CountIn(queue, {p}) = CountIn(queue', {p}) + IF x = p THEN 1 ELSE 0
  BY CountTail DEF TypeOK
<1>3. CountIn(queue', {p}) \in Nat /\ Cardinality(Held(at, p)) \in Nat
  <2>1. queue' \in Seq(Packets)
    BY DEF TypeOK
  <2> QED BY <2>1, CountType, HeldFinite
<1>4. /\ Waiting(c) = CountIn(queue, {p}) + Cardinality(Held(at, p))
      /\ Waiting(c)' = CountIn(queue', {p}) + Cardinality(Held(at, p))
  BY <1>0 DEF Waiting, Held
<1> QED BY <1>1, <1>2, <1>3, <1>4

-----------------------------------------------------------------------------
(* The counters of reserved units.                                         *)

(* A step that gives a reservation of x back.                              *)
LEMMA GivesBackCounts ==
    ASSUME TypeOK, NEW x \in Packets, GivesBack(x), NEW c \in Channels
    PROVE  /\ inflight[c] \in Nat /\ crossed[c] \in Nat /\ inflight'[c] \in Nat
           /\ inflight'[c] = IF x.ch = c THEN OneLess(inflight[c]) ELSE inflight[c]
           /\ crossed'[c] = IF x.ch = c /\ x.epoch # epoch THEN crossed[c] + 1
                                                          ELSE crossed[c]
<1>1. inflight[c] \in Nat /\ crossed[c] \in Nat /\ x.ch \in Channels
  BY PacketsAre DEF TypeOK
<1>2. inflight'[c] = IF x.ch = c THEN OneLess(inflight[c]) ELSE inflight[c]
  BY <1>1 DEF GivesBack, TypeOK
<1>3. crossed'[c] = IF x.ch = c /\ x.epoch # epoch THEN crossed[c] + 1 ELSE crossed[c]
  BY <1>1 DEF GivesBack, TypeOK
<1> QED BY <1>1, <1>2, <1>3, LessTyped

(* No packet is of a Hello that has not come; no counter is above the      *)
(* credit.                                                                 *)
PacketsKnown ==
    /\ \A i \in 1 .. Len(queue) : queue[i].epoch <= epoch
    /\ \A t \in Threads : at[t] # NoPacket => at[t].epoch <= epoch

CreditCovers == \A c \in Channels : inflight[c] <= credit[c]

ReserveInv == PacketsKnown /\ CreditCovers /\ ReservationsCounted

LEMMA HelloWaits == TypeOK /\ PacketsKnown /\ Hello => \A c \in Channels : Waiting(c)' = 0
<1> SUFFICES ASSUME TypeOK, PacketsKnown, Hello, NEW c \in Channels PROVE Waiting(c)' = 0
  OBVIOUS
<1>0. PICK p : p = [ch |-> c, epoch |-> epoch']
  OBVIOUS
<1>1. epoch \in Nat /\ epoch' = epoch + 1 /\ p.epoch = epoch' /\ p # NoPacket
      /\ queue' = queue /\ at' = at
  <2>1. p.ch # NoPacket.ch
    BY <1>0 DEF NoPacket, Channels
  <2> QED BY <1>0, <2>1 DEF Hello, TypeOK, Epochs
<1>2. {i \in DOMAIN queue : queue[i] \in {p}} = {}
  BY <1>1 DEF PacketsKnown, TypeOK
<1>3. Held(at, p) = {}
  BY <1>1 DEF PacketsKnown, Held
<1>4. CountIn(queue, {p}) = 0 /\ Cardinality(Held(at, p)) = 0
  BY <1>2, <1>3, FS_EmptySet DEF CountIn
<1>5. Waiting(c)' = CountIn(queue, {p}) + Cardinality(Held(at, p))
  BY <1>0, <1>1 DEF Waiting, Held
<1> QED BY <1>4, <1>5

LEMMA HelloKept == TypeOK /\ ReserveInv /\ Hello => ReserveInv'
<1> SUFFICES ASSUME TypeOK, ReserveInv, Hello PROVE ReserveInv'
  OBVIOUS
<1>1. \A c \in Channels : inflight'[c] = 0 /\ crossed'[c] = 0 /\ Waiting(c)' = 0
  BY HelloWaits DEF Hello, ReserveInv
<1>2. ReservationsCounted'
  BY <1>1 DEF ReservationsCounted
<1>3. \A c \in Channels : credit'[c] \in Nat
  BY TypeStep DEF TypeOK, Next, Link
<1>4. CreditCovers'
  BY <1>1, <1>3 DEF CreditCovers
<1>5. PacketsKnown'
  <2>1. epoch' = epoch + 1 /\ epoch \in Nat /\ queue' = queue /\ at' = at
    BY DEF Hello, TypeOK, Epochs
  <2>2. \A i \in 1 .. Len(queue) : queue[i].epoch \in Nat
    BY PacketsAre DEF TypeOK
  <2>3. \A t \in Threads : at[t] # NoPacket => at[t].epoch \in Nat
    BY PacketsAre DEF TypeOK
  <2> QED BY <2>1, <2>2, <2>3 DEF ReserveInv, PacketsKnown
<1> QED BY <1>2, <1>4, <1>5 DEF ReserveInv

LEMMA StopKept == TypeOK /\ ReserveInv /\ Stop => ReserveInv'
BY DEF Stop, ReserveInv, PacketsKnown, CreditCovers, ReservationsCounted

LEMMA ReserveKept ==
    ASSUME TypeOK, ReserveInv, NEW t \in Threads, NEW report \in BOOLEAN, Reserve(t, report)
    PROVE  ReserveInv'
<1>1. PICK c \in Channels :
            /\ credit[c] > inflight[c] /\ at[t] = NoPacket
            /\ inflight' = [inflight EXCEPT ![c] = @ + 1]
            /\ at' = [at EXCEPT ![t] = [ch |-> c, epoch |-> epoch]]
  BY DEF Reserve, HasUnit, Channels
<1>2. PICK x : x = [ch |-> c, epoch |-> epoch]
  OBVIOUS
<1>3. x \in Packets /\ x.ch = c /\ x.epoch = epoch /\ at' = [at EXCEPT ![t] = x]
      /\ UNCHANGED <<queue, epoch, session, credit, crossed>>
  BY <1>1, <1>2, PacketsAre DEF TypeOK, Reserve, linkVars
<1>4. \A d \in Channels : Waiting(d)' = Waiting(d) + IF c = d THEN 1 ELSE 0
  BY <1>1, <1>3, WaitingReserve
<1>5. \A d \in Channels : /\ Waiting(d) \in Nat /\ inflight[d] \in Nat /\ crossed[d] \in Nat
                          /\ credit[d] \in Nat
                          /\ inflight'[d] = inflight[d] + IF c = d THEN 1 ELSE 0
  BY <1>1, WaitingType DEF TypeOK
<1>6. ReservationsCounted'
  BY <1>3, <1>4, <1>5 DEF ReserveInv, ReservationsCounted
<1>7. CreditCovers'
  BY <1>1, <1>3, <1>5 DEF ReserveInv, CreditCovers
<1>8. PacketsKnown'
  <2>1. \A u \in Threads : at'[u] = IF u = t THEN x ELSE at[u]
    BY <1>3 DEF TypeOK
  <2>2. epoch \in Nat
    BY DEF TypeOK, Epochs
  <2> QED BY <1>3, <2>1, <2>2 DEF ReserveInv, PacketsKnown
<1> QED BY <1>6, <1>7, <1>8 DEF ReserveInv

LEMMA EnqueueKept ==
    ASSUME TypeOK, ReserveInv, NEW t \in Threads, Enqueue(t)
    PROVE  ReserveInv'
<1>1. PICK x \in Packets : x = at[t] /\ queue' = Append(queue, x) /\ x # NoPacket
  BY DEF Enqueue, TypeOK
<1>2. UNCHANGED <<epoch, session, credit, inflight, crossed>>
  BY DEF Enqueue, linkVars
<1>3. \A c \in Channels : Waiting(c)' = Waiting(c)
  BY WaitingEnqueue
<1>4. ReservationsCounted' /\ CreditCovers'
  BY <1>2, <1>3 DEF ReserveInv, ReservationsCounted, CreditCovers
<1>5. PacketsKnown'
  <2>1. \A u \in Threads : at'[u] = NoPacket \/ at'[u] = at[u]
    BY DEF TypeOK, Enqueue
  <2>2. x.epoch <= epoch
    BY <1>1 DEF ReserveInv, PacketsKnown
  <2>3. /\ Len(queue') = Len(queue) + 1 /\ Len(queue) \in Nat
        /\ \A i \in 1 .. Len(queue') : queue'[i] = IF i = Len(queue) + 1 THEN x ELSE queue[i]
    BY <1>1 DEF TypeOK
  <2> QED BY <1>2, <2>1, <2>2, <2>3 DEF ReserveInv, PacketsKnown
<1> QED BY <1>4, <1>5 DEF ReserveInv

(* The counters when a packet of the channel x.ch is done with: by the     *)
(* packets of this epoch that wait and by those of earlier ones.           *)
LEMMA DoneKept ==
    ASSUME TypeOK, ReserveInv, NEW x \in Packets, GivesBack(x), UNCHANGED <<epoch, session>>,
           \A c \in Channels :
               /\ Waiting(c)' \in Nat
               /\ Waiting(c) = Waiting(c)' + IF x.ch = c /\ x.epoch = epoch THEN 1 ELSE 0
    PROVE  ReservationsCounted'
<1> SUFFICES ASSUME session # 0, NEW c \in Channels
             PROVE  /\ inflight'[c] <= Waiting(c)'
                    /\ Waiting(c)' <= inflight'[c] + crossed'[c]
  BY DEF ReservationsCounted
<1>1. /\ inflight[c] \in Nat /\ crossed[c] \in Nat
      /\ inflight'[c] = IF x.ch = c THEN OneLess(inflight[c]) ELSE inflight[c]
      /\ crossed'[c] = IF x.ch = c /\ x.epoch # epoch THEN crossed[c] + 1 ELSE crossed[c]
  BY GivesBackCounts
<1>2. inflight[c] <= Waiting(c) /\ Waiting(c) <= inflight[c] + crossed[c]
  BY DEF ReserveInv, ReservationsCounted
<1>3. PICK w \in Nat : w = Waiting(c)'
  OBVIOUS
<1>4. Waiting(c) = w + IF x.ch = c /\ x.epoch = epoch THEN 1 ELSE 0
  BY <1>3
<1> QED BY <1>1, <1>2, <1>3, <1>4 DEF OneLess

LEMMA GiveUpKept ==
    ASSUME TypeOK, ReserveInv, NEW t \in Threads, GiveUp(t)
    PROVE  ReserveInv'
<1>1. PICK x \in Packets : x = at[t]
  BY DEF GiveUp, TypeOK
<1>2. /\ UNCHANGED <<epoch, session, queue, credit>> /\ GivesBack(x)
      /\ at' = [at EXCEPT ![t] = NoPacket]
  BY <1>1 DEF GiveUp, linkVars
<1>3. \A c \in Channels : Waiting(c)' \in Nat
  <2>1. TypeOK'
    BY TypeStep DEF Next, Send
  <2>2. (\A c \in Channels : Waiting(c) \in Nat)'
    BY <2>1, WaitingType, PTL
  <2> QED BY <2>2
<1>4. ReservationsCounted'
  BY <1>1, <1>2, <1>3, WaitingGiveUp, DoneKept
<1>5. CreditCovers'
  <2>1. \A c \in Channels :
            /\ inflight[c] \in Nat /\ inflight'[c] \in Nat
            /\ inflight'[c] = OneLess(inflight[c]) \/ inflight'[c] = inflight[c]
    BY <1>2, GivesBackCounts
  <2>2. \A n \in Nat : OneLess(n) <= n
    BY DEF OneLess
  <2>3. \A c \in Channels : credit[c] \in Nat
    BY DEF TypeOK
  <2> QED BY <1>2, <2>1, <2>2, <2>3 DEF ReserveInv, CreditCovers
<1>6. PacketsKnown'
  <2>1. \A u \in Threads : at'[u] = NoPacket \/ at'[u] = at[u]
    BY <1>2 DEF TypeOK
  <2> QED BY <1>2, <2>1 DEF ReserveInv, PacketsKnown
<1> QED BY <1>4, <1>5, <1>6 DEF ReserveInv

LEMMA HandleTxKept == TypeOK /\ ReserveInv /\ HandleTx => ReserveInv'
<1> SUFFICES ASSUME TypeOK, ReserveInv, HandleTx PROVE ReserveInv'
  OBVIOUS
<1>1. PICK x \in Packets : x = Head(queue)
  BY DEF HandleTx, TypeOK
<1>2. /\ queue # <<>> /\ queue' = Tail(queue) /\ GivesBack(x)
      /\ UNCHANGED <<epoch, session, at>>
      /\ \/ credit' = credit
         \/ credit[x.ch] > 0 /\ credit' = [credit EXCEPT ![x.ch] = credit[x.ch] - 1]
  BY <1>1, Zenon DEF HandleTx, linkVars
<1>3. \A c \in Channels : Waiting(c)' \in Nat
  <2>1. TypeOK'
    BY TypeStep DEF Next, Worker
  <2>2. (\A c \in Channels : Waiting(c) \in Nat)'
    BY <2>1, WaitingType, PTL
  <2> QED BY <2>2
<1>4. ReservationsCounted'
  BY <1>1, <1>2, <1>3, WaitingTail, DoneKept
<1>5. CreditCovers'
  <2> SUFFICES ASSUME NEW c \in Channels PROVE inflight'[c] <= credit'[c]
    BY DEF CreditCovers
  <2>1. /\ inflight[c] \in Nat
        /\ inflight'[c] = IF x.ch = c THEN OneLess(inflight[c]) ELSE inflight[c]
    BY <1>2, GivesBackCounts
  <2>2. credit[c] \in Nat /\ inflight[c] <= credit[c] /\ x.ch \in Channels
    BY PacketsAre DEF TypeOK, ReserveInv, CreditCovers
  <2>3. credit'[c] = credit[c]
        \/ (c = x.ch /\ credit[c] > 0 /\ credit'[c] = credit[c] - 1)
    BY <1>2, <2>2 DEF TypeOK
  <2> QED BY <2>1, <2>2, <2>3 DEF OneLess
<1>6. PacketsKnown'
  <2>1. /\ Len(queue) \in Nat /\ Len(queue') = Len(queue) - 1
        /\ \A i \in 1 .. Len(queue') : queue'[i] = queue[i + 1]
    BY <1>2 DEF TypeOK
  <2> QED BY <1>2, <2>1 DEF ReserveInv, PacketsKnown
<1> QED BY <1>4, <1>5, <1>6 DEF ReserveInv

LEMMA UpdateKept ==
    ASSUME TypeOK, ReserveInv, NEW c \in Channels, NEW n \in Nat, CreditUpdate(c, n)
    PROVE  ReserveInv'
<1>1. UNCHANGED <<epoch, session, queue, at, inflight, crossed>>
      /\ credit' = [credit EXCEPT ![c] = @ + n]
  BY DEF CreditUpdate, linkVars
<1>2. \A d \in Channels : credit[d] \in Nat /\ inflight[d] \in Nat
                          /\ credit'[d] = IF d = c THEN credit[d] + n ELSE credit[d]
  BY <1>1 DEF TypeOK
<1>3. CreditCovers'
  BY <1>1, <1>2 DEF ReserveInv, CreditCovers
<1> QED BY <1>1, <1>3 DEF ReserveInv, PacketsKnown, ReservationsCounted, Waiting

LEMMA ReserveStep == TypeOK /\ ReserveInv /\ [Next]_vars => ReserveInv'
<1> SUFFICES ASSUME TypeOK, ReserveInv, [Next]_vars PROVE ReserveInv'
  OBVIOUS
<1>1. CASE UNCHANGED <<session, epoch, packetVars>>
  BY <1>1 DEF packetVars, ReserveInv, PacketsKnown, CreditCovers, ReservationsCounted, Waiting
<1>2. CASE Start \/ HelloRefused \/ EnterError \/ RefuseForCredit
  BY <1>1, <1>2 DEF Start, HelloRefused, EnterError, RefuseForCredit, linkVars
<1>3. ASSUME NEW method \in Methods, Request(method) PROVE ReserveInv'
  BY <1>1, <1>3 DEF Request, linkVars
<1>4. ASSUME NEW o \in ops, NEW ok \in BOOLEAN, OperationCompletes(o, ok) PROVE ReserveInv'
  BY <1>1, <1>4 DEF OperationCompletes, linkVars
<1>5. CASE UNCHANGED vars
  BY <1>1, <1>5 DEF vars, linkVars
<1>6. ASSUME NEW n \in Nat, CreditUpdate("hci", n) \/ CreditUpdate("adv", n) PROVE ReserveInv'
  BY <1>6, UpdateKept DEF Channels
<1> QED BY <1>1, <1>2, <1>3, <1>4, <1>5, <1>6, HelloKept, StopKept, ReserveKept, EnqueueKept,
        GiveUpKept, HandleTxKept DEF Next, Link, Service, Send, Worker

LEMMA ReserveInvariant == Spec => []ReserveInv
<1>1. Init => ReserveInv
  BY DEF Init, ReserveInv, PacketsKnown, CreditCovers, ReservationsCounted
<1> QED BY <1>1, ReserveStep, TypeCorrect, PTL DEF Spec

(* Reserved units are counted: never more than packets wait, and fewer     *)
(* only by packets from before a Hello (coproc_bluetooth.c:481,            *)
(* coproc.c:329, coproc_link.c:249).                                       *)
THEOREM UnitsAreCounted == Spec => []ReservationsCounted
<1>1. ReserveInv => ReservationsCounted
  BY DEF ReserveInv
<1> QED BY <1>1, ReserveInvariant, PTL

(* An accepted packet finds credit, but for packets from before a Hello    *)
(* (coproc_bluetooth.c:524-526).                                           *)
THEOREM AcceptedHasCredit == Spec => []AcceptedFindsCredit
<1>1. ASSUME TypeOK, ReserveInv PROVE AcceptedFindsCredit
  <2> SUFFICES ASSUME session # 0, NEW c \in Channels, crossed[c] = 0
               PROVE  Waiting(c) <= credit[c]
    BY DEF AcceptedFindsCredit
  <2>1. Waiting(c) <= inflight[c] + crossed[c] /\ inflight[c] <= credit[c]
    BY <1>1 DEF ReserveInv, ReservationsCounted, CreditCovers
  <2>2. Waiting(c) \in Nat /\ inflight[c] \in Nat /\ credit[c] \in Nat
    BY <1>1, WaitingType DEF TypeOK
  <2> QED BY <2>1, <2>2
<1> QED BY <1>1, ReserveInvariant, TypeCorrect, PTL

-----------------------------------------------------------------------------
(* The wake-up of a backend that waits for credit.                         *)

LEMMA WaiterStep == TypeOK /\ WaiterIsTold /\ [Next]_vars => WaiterIsTold'
<1> SUFFICES ASSUME TypeOK, WaiterIsTold, [Next]_vars PROVE WaiterIsTold'
  OBVIOUS
<1> USE DEF WaiterIsTold
<1>0. "hci" \in Channels /\ credit["hci"] \in Nat /\ inflight["hci"] \in Nat
  BY DEF Channels, TypeOK
<1>1. CASE UNCHANGED <<credit, inflight, waitVars>>
  BY <1>1 DEF waitVars
<1>2. CASE Hello
  BY <1>2 DEF Hello
<1>3. CASE RefuseForCredit
  BY <1>0, <1>3 DEF RefuseForCredit, HasUnit, packetVars
<1>4. ASSUME NEW t \in Threads, NEW report \in BOOLEAN, Reserve(t, report) PROVE WaiterIsTold'
  <2>1. PICK c \in Channels :
            /\ inflight' = [inflight EXCEPT ![c] = @ + 1]
            /\ waiting' <=> waiting /\ c = "adv"
            /\ UNCHANGED <<credit, freed>>
    BY <1>4 DEF Reserve, Channels
  <2>2. c = "adv" => inflight'["hci"] = inflight["hci"]
    BY <2>1 DEF TypeOK, Channels
  <2> QED BY <2>1, <2>2
<1>5. ASSUME NEW t \in Threads, GiveUp(t) PROVE WaiterIsTold'
  <2>1. PICK x \in Packets : x = at[t]
    BY <1>5 DEF GiveUp, TypeOK
  <2>2. /\ GivesBack(x) /\ UNCHANGED <<credit, waiting>>
        /\ freed' = (freed \/ x.ch = "hci")
    BY <1>5, <2>1 DEF GiveUp, Frees
  <2>3. inflight'["hci"] = IF x.ch = "hci" THEN OneLess(inflight["hci"]) ELSE inflight["hci"]
    BY <1>0, <2>2, GivesBackCounts
  <2> QED BY <2>2, <2>3
<1>6. CASE HandleTx
  <2>1. PICK x \in Packets : x = Head(queue)
    BY <1>6 DEF HandleTx, TypeOK
  <2>2. GivesBack(x) /\ waiting' = waiting
        /\ \/ credit[x.ch] > 0 /\ credit' = [credit EXCEPT ![x.ch] = credit[x.ch] - 1]
              /\ freed' = freed
           \/ freed' = (freed \/ x.ch = "hci") /\ credit' = credit
    BY <1>6, <2>1, Zenon DEF HandleTx, Frees
  <2>3. inflight'["hci"] = IF x.ch = "hci" THEN OneLess(inflight["hci"]) ELSE inflight["hci"]
    BY <1>0, <2>2, GivesBackCounts
  <2>4. CASE /\ credit[x.ch] > 0 /\ credit' = [credit EXCEPT ![x.ch] = credit[x.ch] - 1]
             /\ freed' = freed
    <3>1. credit'["hci"] = IF x.ch = "hci" THEN credit["hci"] - 1 ELSE credit["hci"]
      BY <1>0, <2>4 DEF TypeOK
    <3>2. credit'["hci"] > inflight'["hci"] => credit["hci"] > inflight["hci"]
      BY <1>0, <2>3, <2>4, <3>1 DEF OneLess
    <3> QED BY <2>2, <2>4, <3>2
  <2>5. CASE freed' = (freed \/ x.ch = "hci") /\ credit' = credit
    BY <2>2, <2>3, <2>5
  <2> QED BY <2>2, <2>4, <2>5
<1>7. ASSUME NEW c \in Channels, NEW n \in Nat, CreditUpdate(c, n) PROVE WaiterIsTold'
  <2>1. /\ credit' = [credit EXCEPT ![c] = @ + n] /\ UNCHANGED <<inflight, freed>>
        /\ waiting' <=> waiting /\ ~(c = "hci" /\ Tells(n))
    BY <1>7 DEF CreditUpdate
  <2>2. credit'["hci"] = IF c = "hci" THEN credit["hci"] + n ELSE credit["hci"]
    BY <1>0, <2>1 DEF TypeOK
  <2>3. credit'["hci"] > inflight["hci"] =>
            credit["hci"] > inflight["hci"] \/ (c = "hci" /\ Tells(n))
    <3>1. CASE c = "hci"
      BY <1>0, <2>2, <3>1, SMT DEF Tells
    <3>2. CASE c # "hci"
      BY <2>2, <3>2
    <3> QED BY <3>1, <3>2
  <2> QED BY <2>1, <2>3
<1>8. CASE Start \/ Stop \/ HelloRefused \/ EnterError
  BY <1>1, <1>8 DEF Start, Stop, HelloRefused, EnterError, packetVars
<1>9. ASSUME NEW method \in Methods, Request(method) PROVE WaiterIsTold'
  BY <1>1, <1>9 DEF Request, packetVars
<1>10. ASSUME NEW o \in ops, NEW ok \in BOOLEAN, OperationCompletes(o, ok)
       PROVE  WaiterIsTold'
  BY <1>1, <1>10 DEF OperationCompletes, packetVars
<1>11. ASSUME NEW t \in Threads, Enqueue(t) PROVE WaiterIsTold'
  BY <1>1, <1>11 DEF Enqueue
<1>12. CASE UNCHANGED vars
  BY <1>1, <1>12 DEF vars, packetVars
<1>13. ASSUME NEW n \in Nat, CreditUpdate("hci", n) \/ CreditUpdate("adv", n)
       PROVE  WaiterIsTold'
  BY <1>7, <1>13 DEF Channels
<1> QED BY <1>2, <1>3, <1>4, <1>5, <1>6, <1>8, <1>9, <1>10, <1>11, <1>12, <1>13
        DEF Next, Link, Service, Send, Worker

(* A credit update that makes a unit free tells the backend that waits     *)
(* (coproc_rpc.c:53-62).                                                   *)
THEOREM BackendIsTold == Spec => []WaiterIsTold
<1>1. Init => WaiterIsTold
  BY DEF Init, WaiterIsTold
<1> QED BY <1>1, WaiterStep, TypeCorrect, PTL DEF Spec
=============================================================================
