-------------------------- MODULE CoprocCoreProofs --------------------------
(***************************************************************************)
(* The safety properties of CoprocCore for every set of requests, services *)
(* and channels, every queue depth, credit limit and number of Hellos.     *)
(***************************************************************************)
EXTENDS CoprocCore, QueueCountsProofs, TLAPS

USE CoprocCoreAssumption

-----------------------------------------------------------------------------
(* The job queue.                                                          *)

HelloJob == [kind |-> "RX_FRAME", frame |-> [type |-> "HELLO", hdr |-> 0]]

QueueOK == queue \in Seq(Jobs) /\ Len(queue) <= Depth

(* Every Hello in the queue has been sent, and so has the one of each      *)
(* session.                                                                *)
HellosCounted == opened + CountIn(queue, {HelloJob}) <= hellos

LEMMA TakenJob ==
    ASSUME QueueOK, queue # <<>>, queue' = Tail(queue)
    PROVE  /\ QueueOK' /\ Head(queue) \in Jobs
           /\ CountIn(queue, {HelloJob}) \in Nat /\ CountIn(queue', {HelloJob}) \in Nat
           /\ CountIn(queue, {HelloJob})
                  = CountIn(queue', {HelloJob}) + IF Head(queue) = HelloJob THEN 1 ELSE 0
<1>1. QueueOK' /\ Head(queue) \in Jobs
  BY DEF QueueOK
<1>2. CountIn(queue, {HelloJob})
          = CountIn(Tail(queue), {HelloJob}) + IF Head(queue) \in {HelloJob} THEN 1 ELSE 0
  BY CountTail DEF QueueOK
<1>3. CountIn(queue, {HelloJob}) \in Nat
  BY CountType DEF QueueOK
<1>4. CountIn(queue', {HelloJob}) \in Nat
  BY <1>1, CountType DEF QueueOK
<1> QED BY <1>1, <1>2, <1>3, <1>4

LEMMA AddedJob ==
    ASSUME QueueOK, Len(queue) < Depth, NEW job \in Jobs, queue' = Append(queue, job)
    PROVE  /\ QueueOK' /\ CountIn(queue, {HelloJob}) \in Nat
           /\ CountIn(queue', {HelloJob})
                  = CountIn(queue, {HelloJob}) + IF job = HelloJob THEN 1 ELSE 0
<1>1. QueueOK'
  BY DEF QueueOK
<1>2. CountIn(Append(queue, job), {HelloJob})
          = CountIn(queue, {HelloJob}) + IF job \in {HelloJob} THEN 1 ELSE 0
  BY CountAppend DEF QueueOK
<1>3. CountIn(queue, {HelloJob}) \in Nat
  BY CountType DEF QueueOK
<1> QED BY <1>1, <1>2, <1>3

LEMMA EmptiedQueue ==
    ASSUME QueueOK, HellosCounted, opened \in Nat, hellos \in Nat, queue' = <<>>,
           opened' = opened, hellos' = hellos
    PROVE  QueueOK' /\ HellosCounted'
<1>1. QueueOK'
  BY DEF QueueOK
<1>2. CountIn(<<>>, {HelloJob}) = 0
  BY CountEmpty
<1>3. CountIn(queue, {HelloJob}) \in Nat
  BY CountType DEF QueueOK
<1>4. CountIn(queue', {HelloJob}) = 0
  BY <1>2
<1> QED BY <1>1, <1>3, <1>4 DEF HellosCounted

(* The frame at the head of the queue.                                     *)
LEMMA TakenFrame ==
    ASSUME TypeOK, NEW type, TakesFrame(type)
    PROVE  /\ Rx \in Frames /\ Rx.type = type
           /\ type = "REQUEST" => Rx.req \in Requests /\ Rx.hdr \in Sessions
                                    /\ Rx.svc \in Services \cup {Immediate}
           /\ type = "CREDIT" => Rx.ch \in Channels
           /\ type = "HELLO" => Head(queue) = HelloJob
<1>1. Head(queue) \in Jobs /\ Head(queue).kind = "RX_FRAME" /\ Rx.type = type
  BY DEF TypeOK, TakesFrame, Takes
<1>2. Rx \in Frames
  BY <1>1 DEF Jobs, Rx
<1>3. type = "HELLO" => Rx = [type |-> "HELLO", hdr |-> 0]
  BY <1>1, <1>2 DEF Frames
<1>4. Head(queue) = [kind |-> "RX_FRAME", frame |-> Rx]
  BY <1>1 DEF Jobs, Rx
<1> QED BY <1>1, <1>2, <1>3, <1>4 DEF Frames, HelloJob

-----------------------------------------------------------------------------
(* Sending.                                                                *)

LEMMA SendTyped ==
    ASSUME TypeOK, NEW ch \in Channels, Sent(ch) \/ NotSent(ch)
    PROVE  state' \in States /\ credit' \in [Channels -> 0 .. MaxCredit]
  BY DEF TypeOK, Sent, NotSent, States

(* An answer that is sent is added to the request's.                       *)
LEMMA RespondTyped ==
    ASSUME TypeOK, NEW r \in Requests, NEW of \in Requests, Respond(r, of)
    PROVE  /\ state' \in States /\ credit' \in [Channels -> 0 .. MaxCredit]
           /\ answers' \in [Requests -> Seq(Answers)]
           /\ \A q \in Requests : q # r => answers'[q] = answers[q]
           /\ answers'[r] \in {answers[r],
                               Append(answers[r], [session |-> session, of |-> of])}
<1>1. Sent("rpc") \/ NotSent("rpc")
  BY DEF Respond
<1>2. state' \in States /\ credit' \in [Channels -> 0 .. MaxCredit]
  BY <1>1, SendTyped
<1>3. [session |-> session, of |-> of] \in Answers
  BY DEF TypeOK, Answers
<1> DEFINE a == [session |-> session, of |-> of]
<1> HIDE DEF a
<1>4. \/ answers' = answers
      \/ answers' = [answers EXCEPT ![r] = Append(@, a)]
  BY DEF Respond, a
<1>5. answers \in [Requests -> Seq(Answers)] /\ a \in Answers
  BY <1>3 DEF TypeOK, a
<1>6. answers' \in [Requests -> Seq(Answers)]
  <2>1. Append(answers[r], a) \in Seq(Answers)
    BY <1>5
  <2>2. [answers EXCEPT ![r] = Append(@, a)] \in [Requests -> Seq(Answers)]
    BY <1>5, <2>1, Zenon
  <2> QED BY <1>4, <1>5, <2>2
<1>7. /\ \A q \in Requests : q # r => answers'[q] = answers[q]
      /\ answers'[r] = answers[r] \/ answers'[r] = Append(answers[r], a)
  <2>1. CASE answers' = answers
    BY <2>1
  <2>2. CASE answers' = [answers EXCEPT ![r] = Append(@, a)]
    BY <2>2, <1>5, Zenon
  <2> QED BY <1>4, <2>1, <2>2
<1> QED BY <1>2, <1>6, <1>7 DEF a

-----------------------------------------------------------------------------
(* Type correctness.                                                       *)
TypeInv == TypeOK /\ HellosCounted

LEMMA ApiTyped == TypeInv /\ Api => TypeInv'
<1> SUFFICES ASSUME TypeInv, Api PROVE TypeInv'
  OBVIOUS
<1>0. /\ TypeOK /\ HellosCounted /\ QueueOK /\ opened \in Nat /\ hellos \in Nat
      /\ CountIn(queue, {HelloJob}) \in Nat
  <2>1. TypeOK /\ HellosCounted /\ QueueOK /\ opened \in Nat /\ hellos \in Nat
    BY DEF TypeInv, TypeOK, QueueOK, Sessions
  <2> QED BY <2>1, CountType DEF QueueOK
<1>1. CASE Start \/ StopReturns
  <2>1. QueueOK' /\ HellosCounted'
    BY <1>0, <1>1, EmptiedQueue DEF Start, StopReturns, envVars
  <2> QED BY <1>0, <1>1, <2>1
      DEF Start, StopReturns, taskVars, envVars, TypeInv, TypeOK, QueueOK
<1>2. CASE StopTimesOut
  BY <1>0, <1>2 DEF StopTimesOut, taskVars, envVars, TypeInv, TypeOK, HellosCounted
<1>3. CASE StopCall
  <2>1. [kind |-> "STOP"] \in Jobs /\ [kind |-> "STOP"] # HelloJob
    BY DEF Jobs, HelloJob
  <2>2. QueueOK' /\ CountIn(queue', {HelloJob})
                        = CountIn(queue, {HelloJob}) + IF [kind |-> "STOP"] = HelloJob THEN 1 ELSE 0
    BY <1>0, <1>3, <2>1, AddedJob DEF StopCall, CanEnqueue, Enqueue
  <2>3. HellosCounted'
    BY <1>0, <1>3, <2>1, <2>2 DEF StopCall, envVars, HellosCounted
  <2> QED BY <1>0, <1>3, <2>2, <2>3
      DEF StopCall, taskVars, envVars, TypeInv, TypeOK, QueueOK
<1>4. ASSUME NEW ch \in Channels, SendCall(ch) PROVE TypeInv'
  <2> DEFINE job == [kind |-> "TX", ch |-> ch]
  <2>1. job \in Jobs /\ job # HelloJob
    BY DEF Jobs, HelloJob
  <2>2. QueueOK' /\ CountIn(queue', {HelloJob})
                        = CountIn(queue, {HelloJob}) + IF job = HelloJob THEN 1 ELSE 0
    BY <1>0, <1>4, <2>1, AddedJob DEF SendCall, CanEnqueue, Enqueue
  <2>3. HellosCounted'
    BY <1>0, <1>4, <2>1, <2>2 DEF SendCall, envVars, HellosCounted
  <2> QED BY <1>0, <1>4, <2>2, <2>3
      DEF SendCall, taskVars, apiVars, envVars, TypeInv, TypeOK, QueueOK
<1> QED BY <1>1, <1>2, <1>3, <1>4 DEF Api

LEMMA EnvironmentTyped == TypeInv /\ Environment => TypeInv'
<1> SUFFICES ASSUME TypeInv, Environment PROVE TypeInv'
  OBVIOUS
<1>0. /\ TypeOK /\ HellosCounted /\ QueueOK /\ opened \in Nat /\ hellos \in Nat
      /\ CountIn(queue, {HelloJob}) \in Nat
  <2>1. TypeOK /\ HellosCounted /\ QueueOK /\ opened \in Nat /\ hellos \in Nat
    BY DEF TypeInv, TypeOK, QueueOK, Sessions
  <2> QED BY <2>1, CountType DEF QueueOK
<1>1. CASE Tick
  BY <1>0, <1>1 DEF Tick, apiVars, envVars, TypeInv, TypeOK, HellosCounted
<1>2. CASE TransportFails
  <2> DEFINE job == [kind |-> "TRANSPORT_FAILED"]
  <2>1. job \in Jobs /\ job # HelloJob
    BY DEF Jobs, HelloJob
  <2>2. QueueOK' /\ CountIn(queue', {HelloJob})
                        = CountIn(queue, {HelloJob}) + IF job = HelloJob THEN 1 ELSE 0
    BY <1>0, <1>2, <2>1, AddedJob DEF TransportFails, CanEnqueue, Enqueue
  <2>3. HellosCounted'
    BY <1>0, <1>2, <2>1, <2>2 DEF TransportFails, envVars, HellosCounted
  <2> QED BY <1>0, <1>2, <2>2, <2>3
      DEF TransportFails, taskVars, apiVars, envVars, TypeInv, TypeOK, QueueOK
<1>3. ASSUME NEW done \in ops, BackendCompletes(done) PROVE TypeInv'
  <2> DEFINE job == [kind |-> "DONE", done |-> done]
  <2>1. job \in Jobs /\ job # HelloJob
    BY <1>0 DEF Jobs, HelloJob, TypeOK
  <2>2. QueueOK' /\ CountIn(queue', {HelloJob}) = CountIn(queue, {HelloJob})
    <3>1. CASE CanEnqueue /\ Enqueue(job)
      <4>1. QueueOK' /\ CountIn(queue', {HelloJob})
                            = CountIn(queue, {HelloJob}) + IF job = HelloJob THEN 1 ELSE 0
        BY <1>0, <2>1, <3>1, AddedJob DEF CanEnqueue, Enqueue
      <4> QED BY <1>0, <2>1, <4>1
    <3>2. CASE queue' = queue
      BY <1>0, <3>2 DEF QueueOK
    <3> QED BY <1>3, <3>1, <3>2 DEF BackendCompletes
  <2>3. HellosCounted'
    BY <1>0, <1>3, <2>2 DEF BackendCompletes, HellosCounted
  <2> QED BY <1>0, <1>3, <2>2, <2>3
      DEF BackendCompletes, taskVars, apiVars, TypeInv, TypeOK, QueueOK
<1>4. ASSUME NEW f \in Frames, OnFrame(f) PROVE TypeInv'
  <2> DEFINE job == [kind |-> "RX_FRAME", frame |-> f]
  <2>1. job \in Jobs /\ (job = HelloJob => f.type = "HELLO")
    BY DEF Jobs, HelloJob
  <2>2. QueueOK' /\ CountIn(queue', {HelloJob})
                        = CountIn(queue, {HelloJob}) + IF job = HelloJob THEN 1 ELSE 0
    BY <1>0, <1>4, <2>1, AddedJob DEF OnFrame, CanEnqueue, Enqueue
  <2>3. /\ hellos' \in 0 .. MaxHellos
        /\ hellos' = hellos + IF f.type = "HELLO" THEN 1 ELSE 0
    BY <1>0, <1>4 DEF OnFrame, TypeOK
  <2>4. asked' \in [Requests -> Sessions \cup {-1}]
    <3>1. f.type = "REQUEST" => f.req \in Requests /\ f.hdr \in Sessions
      BY DEF Frames
    <3> QED BY <1>0, <1>4, <3>1 DEF OnFrame, TypeOK
  <2>5. HellosCounted'
    <3> HIDE DEF job
    <3>1. opened' = opened
      BY <1>4 DEF OnFrame
    <3>2. CASE f.type = "HELLO"
      BY <1>0, <2>1, <2>2, <2>3, <3>1, <3>2 DEF HellosCounted
    <3>3. CASE f.type # "HELLO"
      BY <1>0, <2>1, <2>2, <2>3, <3>1, <3>3 DEF HellosCounted
    <3> QED BY <3>2, <3>3
  <2> QED BY <1>0, <1>4, <2>2, <2>3, <2>4, <2>5
      DEF OnFrame, taskVars, apiVars, TypeInv, TypeOK, QueueOK
<1> QED BY <1>1, <1>2, <1>3, <1>4 DEF Environment

LEMMA JobTyped == TypeInv /\ HandleJob => TypeInv'
<1> SUFFICES ASSUME TypeInv, HandleJob PROVE TypeInv'
  OBVIOUS
<1>0. TypeOK /\ HellosCounted /\ QueueOK /\ opened \in Nat /\ hellos \in 0 .. MaxHellos
  BY DEF TypeInv, TypeOK, QueueOK, Sessions
<1>1. queue # <<>> /\ queue' = Tail(queue)
  BY DEF HandleJob, HandleStop, HandleTransportFailed, HandleTx, HandleDone,
         HandleHelloIgnored, HandleHello, HandleCreditUpdate, HandleRequestDropped,
         HandleRequestAtOnce, HandleSubmit, TakesFrame, Takes
<1>2. /\ queue' \in Seq(Jobs) /\ Len(queue') <= Depth /\ Head(queue) \in Jobs
      /\ CountIn(queue, {HelloJob}) \in Nat /\ CountIn(queue', {HelloJob}) \in Nat
      /\ CountIn(queue, {HelloJob})
             = CountIn(queue', {HelloJob}) + IF Head(queue) = HelloJob THEN 1 ELSE 0
  BY <1>0, <1>1, TakenJob DEF QueueOK
<1>3. opened' = opened /\ hellos' = hellos => HellosCounted'
  BY <1>0, <1>2 DEF HellosCounted
<1>4. CASE HandleStop
  <2>1. state' \in States /\ session' \in Sessions /\ pending' \in SUBSET Slots
    BY <1>0, <1>4 DEF HandleStop, TypeOK, States, Sessions
  <2> QED BY <1>0, <1>2, <1>3, <1>4, <2>1
      DEF HandleStop, apiVars, envVars, TypeInv, TypeOK
<1>4a. CASE HandleTransportFailed
  <2>1. state' \in States /\ session' \in Sessions /\ pending' \in SUBSET Slots
    BY <1>0, <1>4a DEF HandleTransportFailed, TypeOK, States, Sessions
  <2> QED BY <1>0, <1>2, <1>3, <1>4a, <2>1
      DEF HandleTransportFailed, Continues, apiVars, envVars, TypeInv, TypeOK
<1>5. CASE HandleTx
  <2>1. Head(queue).kind = "TX"
    BY <1>5 DEF HandleTx, Takes
  <2>2. Head(queue).ch \in Channels
    BY <1>2, <2>1 DEF Jobs
  <2>3. state' \in States /\ credit' \in [Channels -> 0 .. MaxCredit]
    BY <1>0, <1>5, <2>2, SendTyped DEF HandleTx
  <2> QED BY <1>0, <1>2, <1>3, <1>5, <2>3
      DEF HandleTx, Continues, apiVars, envVars, TypeInv, TypeOK
<1>6. CASE HandleDone
  <2>1. Head(queue).kind = "DONE"
    BY <1>6 DEF HandleDone, Takes
  <2>2. Head(queue).done \in Operations
    BY <1>2, <2>1 DEF Jobs
  <2>3. /\ state' \in States /\ credit' \in [Channels -> 0 .. MaxCredit]
        /\ pending' \in SUBSET Slots /\ answers' \in [Requests -> Seq(Answers)]
    <3>1. CASE UNCHANGED <<state, credit, pending, answers>>
      BY <1>0, <3>1 DEF TypeOK
    <3>2. ASSUME NEW p \in Finishes(Head(queue).done), pending' = pending \ {p},
                 Respond(p.req, Head(queue).done.req)
          PROVE  /\ state' \in States /\ credit' \in [Channels -> 0 .. MaxCredit]
                 /\ pending' \in SUBSET Slots /\ answers' \in [Requests -> Seq(Answers)]
      <4>1. p.req \in Requests /\ Head(queue).done.req \in Requests
        BY <1>0, <2>2 DEF Finishes, Slot, TypeOK, Slots, Operations
      <4> QED BY <1>0, <3>2, <4>1, RespondTyped DEF TypeOK
    <3> QED BY <1>6, <3>1, <3>2 DEF HandleDone
  <2> QED BY <1>0, <1>2, <1>3, <1>6, <2>3
      DEF HandleDone, Continues, apiVars, envVars, TypeInv, TypeOK
<1>7. CASE HandleHelloIgnored \/ HandleRequestDropped
  BY <1>0, <1>2, <1>3, <1>7
     DEF HandleHelloIgnored, HandleRequestDropped, TakesFrame, Continues, apiVars,
         envVars, TypeInv, TypeOK
<1>8. CASE HandleHello
  <2>1. Head(queue) = HelloJob
    BY <1>0, <1>8, TakenFrame DEF HandleHello
  <2>2. opened' \in {opened, opened + 1} /\ session' \in {session, 0, opened'}
    BY <1>8 DEF HandleHello, SendHelloResponse
  <2>3. hellos' = hellos
    BY <1>8 DEF HandleHello, envVars
  <2>4. HellosCounted' /\ opened' \in Sessions /\ session' \in Sessions
    <3>1. HellosCounted' /\ opened' <= hellos /\ opened' \in Nat
      BY <1>0, <1>2, <2>1, <2>2, <2>3 DEF HellosCounted
    <3>2. opened' \in Sessions
      BY <1>0, <3>1 DEF Sessions
    <3>3. session \in Sessions /\ 0 \in Sessions
      BY <1>0 DEF TypeOK, Sessions
    <3> QED BY <2>2, <3>1, <3>2, <3>3
  <2>5. state' \in States /\ credit' \in [Channels -> 0 .. MaxCredit]
    BY <1>0, <1>8 DEF HandleHello, SendHelloResponse, TypeOK, States
  <2> QED BY <1>0, <1>2, <1>8, <2>4, <2>5
      DEF HandleHello, TakesFrame, Continues, apiVars, envVars, TypeInv, TypeOK
<1>9. CASE HandleCreditUpdate
  <2>1. Rx.ch \in Channels
    BY <1>0, <1>9, TakenFrame DEF HandleCreditUpdate
  <2>2. state' \in States /\ credit' \in [Channels -> 0 .. MaxCredit]
    BY <1>0, <1>9, <2>1 DEF HandleCreditUpdate, MayAddCredit, TypeOK, States
  <2> QED BY <1>0, <1>2, <1>3, <1>9, <2>2
      DEF HandleCreditUpdate, TakesFrame, Continues, apiVars, envVars, TypeInv, TypeOK
<1>10. CASE HandleRequestAtOnce
  <2>1. Rx.req \in Requests
    BY <1>0, <1>10, TakenFrame DEF HandleRequestAtOnce
  <2>2. /\ state' \in States /\ credit' \in [Channels -> 0 .. MaxCredit]
        /\ answers' \in [Requests -> Seq(Answers)]
    BY <1>0, <1>10, <2>1, RespondTyped DEF HandleRequestAtOnce
  <2> QED BY <1>0, <1>2, <1>3, <1>10, <2>2
      DEF HandleRequestAtOnce, TakesFrame, Continues, apiVars, envVars, TypeInv, TypeOK
<1>11. CASE HandleSubmit
  <2>1. Rx.req \in Requests /\ Rx.svc \in Services
    BY <1>0, <1>11, TakenFrame DEF HandleSubmit
  <2>2. /\ state' \in States /\ credit' \in [Channels -> 0 .. MaxCredit]
        /\ answers' \in [Requests -> Seq(Answers)]
        /\ pending' \in SUBSET Slots /\ ops' \in SUBSET Operations
    <3>1. CASE Respond(Rx.req, Rx.req) /\ UNCHANGED <<pending, ops>>
      BY <1>0, <2>1, <3>1, RespondTyped DEF TypeOK
    <3>2. CASE /\ pending' = pending \cup {[svc |-> Rx.svc, op |-> nextOp,
                                             req |-> Rx.req, session |-> session]}
               /\ ops' = ops \cup {[svc |-> Rx.svc, op |-> nextOp, req |-> Rx.req]}
               /\ UNCHANGED <<state, credit, answers>>
      BY <1>0, <2>1, <3>2 DEF TypeOK, Slots, Operations
    <3> QED BY <1>11, <3>1, <3>2 DEF HandleSubmit
  <2>3. nextOp' \in Nat
    BY <1>0, <1>11 DEF HandleSubmit, TypeOK
  <2> QED BY <1>0, <1>2, <1>3, <1>11, <2>2, <2>3
      DEF HandleSubmit, TakesFrame, Continues, apiVars, TypeInv, TypeOK
<1> QED BY <1>4, <1>4a, <1>5, <1>6, <1>7, <1>8, <1>9, <1>10, <1>11 DEF HandleJob

LEMMA TypeInvariant == Spec => []TypeInv
<1>1. ASSUME Init PROVE TypeInv
  <2>1. queue \in Seq(Jobs) /\ Len(queue) <= Depth
    BY <1>1 DEF Init
  <2>2. CountIn(queue, {HelloJob}) = 0
    BY <1>1, CountEmpty DEF Init
  <2>3. /\ answers \in [Requests -> Seq(Answers)] /\ credit \in [Channels -> 0 .. MaxCredit]
        /\ asked \in [Requests -> Sessions \cup {-1}]
    BY <1>1 DEF Init
  <2>5. pending \in SUBSET Slots /\ ops \in SUBSET Operations /\ nextOp \in Nat
    BY <1>1 DEF Init
  <2>4. HellosCounted
    BY <1>1, <2>2 DEF Init, HellosCounted
  <2>6. /\ state \in States /\ session \in Sessions /\ opened \in Sessions
        /\ hellos \in 0 .. MaxHellos
    BY <1>1 DEF Init, States, Sessions
  <2>7. /\ worker \in {"none", "created", "top", "waiting", "exited"}
        /\ wait \in {"forever", "heartbeat", "retry"} /\ due \in BOOLEAN
        /\ started \in BOOLEAN /\ stopper \in {"idle", "joining"}
    BY <1>1 DEF Init
  <2> QED BY <2>1, <2>3, <2>4, <2>5, <2>6, <2>7 DEF TypeInv, TypeOK
<1>2. TypeInv /\ [Next]_vars => TypeInv'
  <2> SUFFICES ASSUME TypeInv, [Next]_vars PROVE TypeInv'
    OBVIOUS
  <2>1. CASE WorkerBegins \/ LoopTop \/ WaitEnds
    BY <2>1 DEF WorkerBegins, LoopTop, WaitEnds, apiVars, envVars, TypeInv, TypeOK,
                HellosCounted, States
  <2>2. CASE UNCHANGED vars
    BY <2>2 DEF vars, taskVars, apiVars, envVars, TypeInv, TypeOK, HellosCounted
  <2> QED BY <2>1, <2>2, ApiTyped, EnvironmentTyped, JobTyped DEF Next, Worker
<1> QED BY <1>1, <1>2, PTL DEF Spec

(* The coprocessor's state is well typed; the queue stays within its depth *)
(* and the credit within its limit (coproc.c:94, coproc_rpc.c:40).         *)
THEOREM TypeCorrect == Spec => []TypeOK
<1>1. TypeInv => TypeOK
  BY DEF TypeInv
<1> QED BY <1>1, TypeInvariant, PTL

-----------------------------------------------------------------------------
(* Every request is in one place at most: in the queue, in a slot, or      *)
(* answered.                                                               *)

RequestJobs(r) == {[kind |-> "RX_FRAME",
                    frame |-> [type |-> "REQUEST", hdr |-> s, req |-> r, svc |-> v]] :
                       s \in Sessions, v \in Services \cup {Immediate}}
Waiting(r) == CountIn(queue, RequestJobs(r))
Queued == {queue[i] : i \in 1 .. Len(queue)}

InOnePlace ==
    \A r \in Requests :
        /\ Waiting(r) <= 1
        /\ Waiting(r) = 1 \/ asked[r] = -1 =>
               answers[r] = <<>> /\ \A p \in pending : p.req # r
        /\ asked[r] = -1 => Waiting(r) = 0

(* A completed operation and a slot of its service with its id belong to   *)
(* the same request; ids in use are below the next one.                    *)
Belongs(done) ==
    /\ done.op < nextOp
    /\ \A p \in pending : p.svc = done.svc /\ p.op = done.op => p.req = done.req

QueuedKnown ==
    \A job \in Queued :
        /\ job.kind = "RX_FRAME" /\ job.frame.type = "REQUEST" =>
               job.frame.hdr = asked[job.frame.req]
        /\ job.kind = "DONE" => Belongs(job.done)

SlotsKnown ==
    \A p \in pending :
        /\ p.op < nextOp
        /\ asked[p.req] = p.session /\ answers[p.req] = <<>>
        /\ \A q \in pending : q.req = p.req => q = p

Answered ==
    \A r \in Requests :
        answers[r] = <<>> \/ answers[r] = <<[session |-> asked[r], of |-> r]>>

AnswerInv ==
    /\ InOnePlace /\ QueuedKnown /\ (\A done \in ops : Belongs(done))
    /\ SlotsKnown /\ Answered

LEMMA RequestJobIs ==
    ASSUME NEW r, NEW job \in RequestJobs(r)
    PROVE  job.kind = "RX_FRAME" /\ job.frame.type = "REQUEST" /\ job.frame.req = r
<1>1. PICK s \in Sessions, v \in Services \cup {Immediate} :
          job = [kind |-> "RX_FRAME",
                 frame |-> [type |-> "REQUEST", hdr |-> s, req |-> r, svc |-> v]]
  BY DEF RequestJobs
<1> QED BY <1>1

LEMMA TakenWaiting ==
    ASSUME TypeOK, queue # <<>>, queue' = Tail(queue)
    PROVE  /\ Queued' \subseteq Queued /\ Head(queue) \in Queued
           /\ \A r \in Requests :
                  /\ Waiting(r) \in Nat /\ Waiting(r)' \in Nat
                  /\ Waiting(r) = Waiting(r)'
                                      + IF Head(queue) \in RequestJobs(r) THEN 1 ELSE 0
<1>1. queue \in Seq(Jobs) /\ queue' \in Seq(Jobs)
  BY DEF TypeOK
<1>2. Queued' \subseteq Queued /\ Head(queue) \in Queued
  BY <1>1 DEF Queued
<1>3. ASSUME NEW r \in Requests
      PROVE  /\ Waiting(r) \in Nat /\ Waiting(r)' \in Nat
             /\ Waiting(r) = Waiting(r)'
                                 + IF Head(queue) \in RequestJobs(r) THEN 1 ELSE 0
  <2> DEFINE S == RequestJobs(r)
  <2> HIDE DEF S
  <2>1. CountIn(queue, S) = CountIn(Tail(queue), S) + IF Head(queue) \in S THEN 1 ELSE 0
    BY <1>1, CountTail
  <2>2. CountIn(queue, S) \in Nat /\ CountIn(queue', S) \in Nat
    BY <1>1, CountType
  <2>3. Waiting(r) = CountIn(queue, S) /\ Waiting(r)' = CountIn(queue', S)
    BY DEF Waiting, S, RequestJobs
  <2>4. CountIn(Tail(queue), S) = CountIn(queue', S)
    OBVIOUS
  <2> QED BY <2>1, <2>2, <2>3, <2>4 DEF S
<1> QED BY <1>2, <1>3

LEMMA AddedWaiting ==
    ASSUME TypeOK, NEW job \in Jobs, queue' = Append(queue, job)
    PROVE  /\ Queued' = Queued \cup {job}
           /\ \A r \in Requests :
                  /\ Waiting(r) \in Nat
                  /\ Waiting(r)' = Waiting(r) + IF job \in RequestJobs(r) THEN 1 ELSE 0
<1>1. queue \in Seq(Jobs) /\ queue' \in Seq(Jobs)
  BY DEF TypeOK
<1>2. Queued' = Queued \cup {job}
  BY <1>1 DEF Queued
<1>3. ASSUME NEW r \in Requests
      PROVE  /\ Waiting(r) \in Nat
             /\ Waiting(r)' = Waiting(r) + IF job \in RequestJobs(r) THEN 1 ELSE 0
  <2> DEFINE S == RequestJobs(r)
  <2> HIDE DEF S
  <2>1. CountIn(Append(queue, job), S) = CountIn(queue, S) + IF job \in S THEN 1 ELSE 0
    BY <1>1, CountAppend
  <2>2. CountIn(queue, S) \in Nat
    BY <1>1, CountType
  <2>3. Waiting(r) = CountIn(queue, S) /\ Waiting(r)' = CountIn(queue', S)
    BY DEF Waiting, S, RequestJobs
  <2> QED BY <2>1, <2>2, <2>3 DEF S
<1> QED BY <1>2, <1>3

LEMMA EmptiedWaiting ==
    ASSUME queue' = <<>>
    PROVE  Queued' = {} /\ \A r \in Requests : Waiting(r)' = 0
<1>1. Queued' = {}
  BY DEF Queued
<1>2. ASSUME NEW r \in Requests PROVE Waiting(r)' = 0
  <2> DEFINE S == RequestJobs(r)
  <2> HIDE DEF S
  <2>1. CountIn(<<>>, S) = 0
    BY CountEmpty
  <2>2. Waiting(r)' = CountIn(queue', S)
    BY DEF Waiting, S, RequestJobs
  <2> QED BY <2>1, <2>2
<1> QED BY <1>1, <1>2

(* A step that answers nothing, takes no slot and adds no request and no   *)
(* completion to the queue.                                                *)
Calm ==
    /\ \A job \in Queued' :
           job \in Queued \/ (job.kind # "DONE"
                                  /\ ~(job.kind = "RX_FRAME" /\ job.frame.type = "REQUEST"))
    /\ \A r \in Requests : Waiting(r)' \in Nat /\ Waiting(r) \in Nat /\ Waiting(r)' <= Waiting(r)
    /\ pending' \subseteq pending /\ ops' \subseteq ops
    /\ UNCHANGED <<nextOp, asked, answers>>

LEMMA CalmStep == TypeOK /\ AnswerInv /\ Calm => AnswerInv'
<1> SUFFICES ASSUME TypeOK, AnswerInv, Calm PROVE AnswerInv'
  OBVIOUS
<1>1. InOnePlace'
  BY DEF AnswerInv, InOnePlace, Calm
<1>2. QueuedKnown' /\ (\A done \in ops : Belongs(done))'
  BY DEF AnswerInv, QueuedKnown, Belongs, Calm
<1>3. SlotsKnown' /\ Answered'
  BY DEF AnswerInv, SlotsKnown, Answered, Calm
<1> QED BY <1>1, <1>2, <1>3 DEF AnswerInv

(* A step that only adds a job that is neither is calm.                    *)
LEMMA CalmAdd ==
    ASSUME TypeOK, NEW job \in Jobs, queue' = Append(queue, job),
           \/ job.kind \notin {"DONE", "RX_FRAME"}
           \/ job.kind = "RX_FRAME" /\ job.frame.type # "REQUEST",
           pending' = pending, ops' = ops, UNCHANGED <<nextOp, asked, answers>>
    PROVE  Calm
<1>1. \A r \in Requests : job \notin RequestJobs(r)
  BY DEF RequestJobs
<1> QED BY <1>1, AddedWaiting DEF Calm

(* So is one that leaves the queue alone or empties it.                    *)
LEMMA CalmRest ==
    ASSUME TypeOK, queue' \in {queue, <<>>}, pending' \subseteq pending, ops' \subseteq ops,
           UNCHANGED <<nextOp, asked, answers>>
    PROVE  Calm
<1>1. queue \in Seq(Jobs)
  BY DEF TypeOK
<1>2. ASSUME NEW r \in Requests PROVE Waiting(r) \in Nat
  BY <1>1, CountType DEF Waiting
<1>3. CASE queue' = queue
  <2>1. Queued' = Queued /\ \A r \in Requests : Waiting(r)' = Waiting(r)
    BY <1>3 DEF Queued, Waiting, RequestJobs
  <2> QED BY <1>2, <2>1 DEF Calm
<1>4. CASE queue' = <<>>
  BY <1>2, <1>4, EmptiedWaiting DEF Calm
<1> QED BY <1>3, <1>4

(* And so is the handling of a job that touches neither slots nor answers. *)
LEMMA CalmTake ==
    ASSUME TypeOK, queue # <<>>, queue' = Tail(queue), pending' \subseteq pending,
           ops' \subseteq ops, UNCHANGED <<nextOp, asked, answers>>
    PROVE  Calm
BY TakenWaiting DEF Calm

LEMMA ApiAnswers == TypeOK /\ AnswerInv /\ Api => AnswerInv'
<1> SUFFICES ASSUME TypeOK, AnswerInv, Api PROVE Calm
  BY CalmStep
<1>1. CASE Start \/ StopReturns \/ StopTimesOut
  BY <1>1, CalmRest DEF Start, StopReturns, StopTimesOut, envVars
<1>2. CASE StopCall
  <2> DEFINE job == [kind |-> "STOP"]
  <2>1. job \in Jobs /\ job.kind = "STOP"
    BY DEF Jobs
  <2>2. /\ queue' = Append(queue, job)
        /\ pending' = pending /\ ops' = ops /\ UNCHANGED <<nextOp, asked, answers>>
    BY <1>2 DEF StopCall, Enqueue, envVars
  <2> HIDE DEF job
  <2> QED BY <2>1, <2>2, CalmAdd
<1>3. ASSUME NEW ch \in Channels, SendCall(ch) PROVE Calm
  <2> DEFINE job == [kind |-> "TX", ch |-> ch]
  <2>1. job \in Jobs /\ job.kind = "TX"
    BY DEF Jobs
  <2>2. /\ queue' = Append(queue, job)
        /\ pending' = pending /\ ops' = ops /\ UNCHANGED <<nextOp, asked, answers>>
    BY <1>3 DEF SendCall, Enqueue, envVars
  <2> HIDE DEF job
  <2> QED BY <2>1, <2>2, CalmAdd
<1> QED BY <1>1, <1>2, <1>3 DEF Api

LEMMA EnvironmentAnswers == TypeOK /\ AnswerInv /\ Environment => AnswerInv'
<1> SUFFICES ASSUME TypeOK, AnswerInv, Environment PROVE AnswerInv'
  OBVIOUS
<1>1. CASE Tick
  <2>1. Calm
    BY <1>1, CalmRest DEF Tick, envVars
  <2> QED BY <2>1, CalmStep
<1>2. CASE TransportFails
  <2> DEFINE job == [kind |-> "TRANSPORT_FAILED"]
  <2>1. job \in Jobs /\ job.kind = "TRANSPORT_FAILED"
    BY DEF Jobs
  <2>2. /\ queue' = Append(queue, job)
        /\ pending' = pending /\ ops' = ops /\ UNCHANGED <<nextOp, asked, answers>>
    BY <1>2 DEF TransportFails, Enqueue, envVars
  <2> HIDE DEF job
  <2>3. Calm
    BY <2>1, <2>2, CalmAdd
  <2> QED BY <2>3, CalmStep
<1>3. ASSUME NEW done \in ops, BackendCompletes(done) PROVE AnswerInv'
  <2> DEFINE job == [kind |-> "DONE", done |-> done]
  <2>1. CASE queue' = queue
    <3>1. Calm
      BY <1>3, <2>1, CalmRest DEF BackendCompletes
    <3> QED BY <3>1, CalmStep
  <2>2. CASE Enqueue(job)
    <3>0. job \in Jobs
      BY DEF Jobs, TypeOK
    <3>1. \A r \in Requests : job \notin RequestJobs(r)
      <4>1. job.kind = "DONE"
        OBVIOUS
      <4> HIDE DEF job
      <4> QED BY <4>1, RequestJobIs
    <3>2. Queued' = Queued \cup {job} /\ \A r \in Requests : Waiting(r)' = Waiting(r)
      BY <2>2, <3>0, <3>1, AddedWaiting DEF Enqueue
    <3>3. /\ pending' = pending /\ nextOp' = nextOp /\ asked' = asked
          /\ answers' = answers /\ ops' \subseteq ops
      BY <1>3 DEF BackendCompletes
    <3>4. Belongs(done)
      BY DEF AnswerInv
    <3>5. QueuedKnown' /\ (\A o \in ops : Belongs(o))'
      BY <3>2, <3>3, <3>4 DEF AnswerInv, QueuedKnown, Belongs
    <3>6. InOnePlace' /\ SlotsKnown' /\ Answered'
      BY <3>2, <3>3 DEF AnswerInv, InOnePlace, SlotsKnown, Answered
    <3> QED BY <3>5, <3>6 DEF AnswerInv
  <2> QED BY <1>3, <2>1, <2>2 DEF BackendCompletes
<1>4. ASSUME NEW f \in Frames, OnFrame(f) PROVE AnswerInv'
  <2> DEFINE job == [kind |-> "RX_FRAME", frame |-> f]
  <2>0. job \in Jobs
    BY DEF Jobs
  <2>1. CASE f.type # "REQUEST"
    <3>1. Calm
      BY <1>4, <2>0, <2>1, CalmAdd DEF OnFrame, Enqueue
    <3> QED BY <3>1, CalmStep
  <2>2. CASE f.type = "REQUEST"
    <3>1. /\ f.req \in Requests /\ f.hdr \in Sessions
          /\ job \in RequestJobs(f.req)
          /\ \A r \in Requests : r # f.req => job \notin RequestJobs(r)
      <4>1. /\ f.req \in Requests /\ f.hdr \in Sessions
            /\ f.svc \in Services \cup {Immediate}
            /\ f = [type |-> "REQUEST", hdr |-> f.hdr, req |-> f.req, svc |-> f.svc]
        BY <2>2 DEF Frames
      <4>2. job \in RequestJobs(f.req)
        BY <4>1 DEF RequestJobs
      <4>3. ASSUME NEW r \in Requests, job \in RequestJobs(r) PROVE f.req = r
        <5>1. job.frame = f /\ job.frame.req = r
          BY <4>3, RequestJobIs
        <5> QED BY <5>1
      <4> QED BY <4>1, <4>2, <4>3
    <3>2. /\ Queued' = Queued \cup {job}
          /\ \A r \in Requests :
                 Waiting(r) \in Nat
                     /\ Waiting(r)' = Waiting(r) + IF r = f.req THEN 1 ELSE 0
      BY <1>4, <2>0, <3>1, AddedWaiting DEF OnFrame, Enqueue
    <3>3. /\ pending' = pending /\ nextOp' = nextOp /\ answers' = answers /\ ops' = ops
          /\ asked[f.req] = -1 /\ asked'[f.req] = f.hdr
          /\ \A r \in Requests : r # f.req => asked'[r] = asked[r]
      BY <1>4, <2>2, <3>1 DEF OnFrame, TypeOK
    <3>4. /\ Waiting(f.req) = 0 /\ answers[f.req] = <<>>
          /\ \A p \in pending : p.req # f.req
      BY <3>1, <3>3 DEF AnswerInv, InOnePlace
    <3>5. f.hdr # -1
      BY <3>1 DEF Sessions
    <3>6. InOnePlace'
      <4> SUFFICES ASSUME NEW r \in Requests
                   PROVE  /\ Waiting(r)' <= 1
                          /\ Waiting(r)' = 1 \/ asked'[r] = -1 =>
                                 answers'[r] = <<>> /\ \A p \in pending' : p.req # r
                          /\ asked'[r] = -1 => Waiting(r)' = 0
        BY DEF InOnePlace
      <4>1. CASE r = f.req
        BY <3>1, <3>2, <3>3, <3>4, <3>5, <4>1
      <4>2. CASE r # f.req
        BY <3>2, <3>3, <4>2 DEF AnswerInv, InOnePlace
      <4> QED BY <4>1, <4>2
    <3>7. ASSUME NEW q \in Queued, q.kind = "RX_FRAME", q.frame.type = "REQUEST"
          PROVE  q.frame.hdr = asked'[q.frame.req]
      <4>1. q \in Jobs
        BY DEF Queued, TypeOK
      <4>2. q.frame \in Frames
        BY <3>7, <4>1 DEF Jobs
      <4>3. q.frame.req \in Requests /\ q.frame.hdr \in Sessions
        BY <3>7, <4>2 DEF Frames
      <4>4. q.frame.hdr = asked[q.frame.req] /\ q.frame.hdr # -1
        BY <3>7, <4>3 DEF AnswerInv, QueuedKnown, Sessions
      <4> QED BY <3>3, <4>3, <4>4
    <3>8. QueuedKnown'
      <4>1. ASSUME NEW q \in Queued, q.kind = "DONE" PROVE Belongs(q.done)'
        BY <3>3, <4>1 DEF AnswerInv, QueuedKnown, Belongs
      <4> QED BY <2>2, <3>2, <3>3, <3>7, <4>1 DEF QueuedKnown
    <3>9. (\A o \in ops : Belongs(o))'
      BY <3>3 DEF AnswerInv, Belongs
    <3>10. \A p \in pending : p.req \in Requests
      BY DEF TypeOK, Slots
    <3>11. SlotsKnown' /\ Answered'
      BY <3>1, <3>3, <3>4, <3>10 DEF AnswerInv, SlotsKnown, Answered
    <3> QED BY <3>6, <3>8, <3>9, <3>11 DEF AnswerInv
  <2> QED BY <2>1, <2>2
<1> QED BY <1>1, <1>2, <1>3, <1>4 DEF Environment

(* Answering a request whose slot is gone and that has left the queue, in  *)
(* the session it was asked in and with its own result.                    *)
LEMMA AnswerStep ==
    ASSUME TypeOK, AnswerInv, NEW r \in Requests, Respond(r, r),
           queue # <<>>, queue' = Tail(queue), asked[r] = session, Waiting(r)' = 0,
           pending' \subseteq pending, \A p \in pending' : p.req # r,
           answers[r] = <<>>, session # -1, ops' \subseteq ops, UNCHANGED asked,
           nextOp' \in Nat, nextOp' >= nextOp
    PROVE  AnswerInv'
<1>1. /\ \A q \in Requests : q # r => answers'[q] = answers[q]
      /\ answers'[r] \in {answers[r], Append(answers[r], [session |-> session, of |-> r])}
  BY RespondTyped
<1>2. answers'[r] = <<>> \/ answers'[r] = <<[session |-> asked[r], of |-> r]>>
  <2> DEFINE a == [session |-> session, of |-> r]
  <2>1. Append(<<>>, a) = <<a>>
    OBVIOUS
  <2> QED BY <1>1, <2>1
<1>3. /\ Queued' \subseteq Queued
      /\ \A q \in Requests :
             Waiting(q)' \in Nat /\ Waiting(q) \in Nat /\ Waiting(q)' <= Waiting(q)
  BY TakenWaiting
<1>4. \A p \in pending : p.req \in Requests /\ p.op \in Nat
  BY DEF TypeOK, Slots
<1>5. nextOp \in Nat /\ \A o \in ops : o.op \in Nat
  BY DEF TypeOK, Operations
<1>6. \A job \in Queued : job.kind = "DONE" => job.done.op \in Nat
  <2>1. ASSUME NEW job \in Queued, job.kind = "DONE" PROVE job.done.op \in Nat
    <3>1. job \in Jobs
      BY DEF Queued, TypeOK
    <3>2. job.done \in Operations
      BY <2>1, <3>1 DEF Jobs
    <3> QED BY <3>2 DEF Operations
  <2> QED BY <2>1
<1>7. InOnePlace'
  <2> SUFFICES ASSUME NEW q \in Requests
               PROVE  /\ Waiting(q)' <= 1
                      /\ Waiting(q)' = 1 \/ asked'[q] = -1 =>
                             answers'[q] = <<>> /\ \A p \in pending' : p.req # q
                      /\ asked'[q] = -1 => Waiting(q)' = 0
    BY DEF InOnePlace
  <2>1. CASE q = r
    BY <1>3, <2>1 DEF AnswerInv, InOnePlace
  <2>2. CASE q # r
    BY <1>1, <1>3, <2>2 DEF AnswerInv, InOnePlace
  <2> QED BY <2>1, <2>2
<1>8. QueuedKnown' /\ (\A o \in ops : Belongs(o))'
  BY <1>3, <1>5, <1>6 DEF AnswerInv, QueuedKnown, Belongs
<1>9. SlotsKnown' /\ Answered'
  BY <1>1, <1>2, <1>4, <1>5 DEF AnswerInv, SlotsKnown, Answered
<1> QED BY <1>7, <1>8, <1>9 DEF AnswerInv

(* The request at the head of the queue, when the core accepts it.         *)
LEMMA AcceptedRequest ==
    ASSUME TypeOK, AnswerInv, TakesFrame("REQUEST"), Accepts, NEW r, r = Rx.req
    PROVE  /\ queue # <<>> /\ queue' = Tail(queue)
           /\ r \in Requests /\ Rx.svc \in Services \cup {Immediate}
           /\ session # -1 /\ asked[r] = session
           /\ Waiting(r)' = 0 /\ answers[r] = <<>> /\ \A p \in pending : p.req # r
<1>1. /\ queue # <<>> /\ queue' = Tail(queue) /\ Head(queue).kind = "RX_FRAME"
      /\ Head(queue).frame = Rx /\ Rx.type = "REQUEST" /\ Rx.hdr = session
  BY DEF TakesFrame, Takes, Accepts, Rx
<1>2. r \in Requests /\ Rx.svc \in Services \cup {Immediate} /\ Rx \in Frames
  BY TakenFrame
<1>3. session \in Sessions /\ session # -1
  BY DEF TypeOK, Sessions
<1>4. Head(queue) \in Queued
  BY <1>1, TakenWaiting
<1>5. asked[r] = session
  BY <1>1, <1>4 DEF AnswerInv, QueuedKnown
<1>6. Head(queue) \in RequestJobs(r)
  <2>1. Rx = [type |-> "REQUEST", hdr |-> session, req |-> r, svc |-> Rx.svc]
    BY <1>1, <1>2 DEF Frames
  <2>2. Head(queue) \in Jobs
    BY <1>1 DEF TypeOK
  <2>3. Head(queue) = [kind |-> "RX_FRAME", frame |-> Rx]
    BY <1>1, <2>2 DEF Jobs
  <2> QED BY <1>2, <1>3, <2>1, <2>3 DEF RequestJobs
<1>7. /\ Waiting(r) \in Nat /\ Waiting(r)' \in Nat
      /\ Waiting(r) = Waiting(r)' + 1
  BY <1>1, <1>2, <1>6, TakenWaiting
<1>8. Waiting(r) = 1 /\ Waiting(r)' = 0
  BY <1>2, <1>7 DEF AnswerInv, InOnePlace
<1> QED BY <1>1, <1>2, <1>3, <1>5, <1>8 DEF AnswerInv, InOnePlace

LEMMA JobAnswers == TypeOK /\ AnswerInv /\ HandleJob => AnswerInv'
<1> SUFFICES ASSUME TypeOK, AnswerInv, HandleJob PROVE AnswerInv'
  OBVIOUS
<1>1. CASE \/ HandleStop \/ HandleTransportFailed \/ HandleTx
           \/ HandleHelloIgnored \/ HandleHello \/ HandleCreditUpdate
           \/ HandleRequestDropped
  <2>1. queue # <<>> /\ queue' = Tail(queue)
    BY <1>1 DEF HandleStop, HandleTransportFailed, HandleTx, HandleHelloIgnored,
                HandleHello, HandleCreditUpdate, HandleRequestDropped, TakesFrame, Takes
  <2>2. /\ pending' \subseteq pending /\ ops' \subseteq ops
        /\ UNCHANGED <<nextOp, asked, answers>>
    BY <1>1 DEF HandleStop, HandleTransportFailed, HandleTx, HandleHelloIgnored,
                HandleHello, HandleCreditUpdate, HandleRequestDropped, envVars
  <2>3. Calm
    BY <2>1, <2>2, CalmTake
  <2> QED BY <2>3, CalmStep
<1>2. CASE HandleDone
  <2> DEFINE done == Head(queue).done
  <2>1. /\ queue # <<>> /\ queue' = Tail(queue) /\ Head(queue).kind = "DONE"
        /\ UNCHANGED <<nextOp, asked, ops>>
    BY <1>2 DEF HandleDone, Takes, envVars
  <2>2. Belongs(done)
    BY <2>1, TakenWaiting DEF AnswerInv, QueuedKnown
  <2>3. CASE UNCHANGED <<pending, answers>>
    <3>1. Calm
      BY <2>1, <2>3, CalmTake
    <3> QED BY <3>1, CalmStep
  <2>4. ASSUME NEW p \in Finishes(done), pending' = pending \ {p},
               Respond(p.req, done.req)
        PROVE  AnswerInv'
    <3>1. p \in pending /\ p.svc = done.svc /\ p.op = done.op /\ p.session = session
      BY DEF Finishes, Slot
    <3>2. p.req \in Requests /\ session # -1 /\ nextOp \in Nat
      BY <3>1 DEF TypeOK, Slots, Sessions
    <3>3. p.req = done.req
      BY <2>2, <3>1 DEF Belongs
    <3>4. /\ asked[p.req] = session /\ answers[p.req] = <<>>
          /\ \A q \in pending' : q.req # p.req
      BY <2>4, <3>1 DEF AnswerInv, SlotsKnown
    <3>5. Waiting(p.req)' = 0
      <4>1. /\ Waiting(p.req) \in Nat /\ Waiting(p.req)' \in Nat
            /\ Waiting(p.req)' <= Waiting(p.req)
        BY <2>1, <3>2, TakenWaiting
      <4>2. Waiting(p.req) <= 1 /\ Waiting(p.req) # 1
        BY <3>1, <3>2 DEF AnswerInv, InOnePlace
      <4> QED BY <4>1, <4>2
    <3>6. Respond(p.req, p.req) /\ pending' \subseteq pending /\ nextOp' >= nextOp
      BY <2>1, <2>4, <3>2, <3>3
    <3> QED BY <2>1, <3>2, <3>4, <3>5, <3>6, AnswerStep
  <2> QED BY <1>2, <2>3, <2>4 DEF HandleDone
<1>3. CASE HandleRequestAtOnce
  <2>1. /\ TakesFrame("REQUEST") /\ Accepts /\ Respond(Rx.req, Rx.req)
        /\ pending' = pending /\ UNCHANGED <<nextOp, asked, ops>> /\ nextOp \in Nat
    BY <1>3 DEF HandleRequestAtOnce, envVars, TypeOK
  <2>2. nextOp' \in Nat /\ nextOp' >= nextOp
    BY <2>1
  <2>3. PICK r : r = Rx.req
    OBVIOUS
  <2>4. /\ queue # <<>> /\ queue' = Tail(queue) /\ r \in Requests /\ session # -1
        /\ asked[r] = session /\ Waiting(r)' = 0 /\ answers[r] = <<>>
        /\ \A p \in pending : p.req # r
    BY <2>1, <2>3, AcceptedRequest
  <2> QED BY <2>1, <2>2, <2>3, <2>4, AnswerStep
<1>4. CASE HandleSubmit
  <2>1. /\ TakesFrame("REQUEST") /\ Accepts /\ UNCHANGED asked /\ nextOp \in Nat
        /\ nextOp' = nextOp + 1
    BY <1>4 DEF HandleSubmit, TypeOK
  <2>4. PICK r : r = Rx.req
    OBVIOUS
  <2>5. /\ queue # <<>> /\ queue' = Tail(queue) /\ r \in Requests /\ session # -1
        /\ asked[r] = session /\ Waiting(r)' = 0 /\ answers[r] = <<>>
        /\ \A p \in pending : p.req # r
    BY <2>1, <2>4, AcceptedRequest
  <2>2. CASE Respond(Rx.req, Rx.req) /\ UNCHANGED <<pending, ops>>
    <3>1. nextOp' \in Nat /\ nextOp' >= nextOp
      BY <2>1
    <3> QED BY <2>1, <2>2, <2>4, <2>5, <3>1, AnswerStep
  <2>3. CASE /\ pending' = pending \cup
                   {[svc |-> Rx.svc, op |-> nextOp, req |-> Rx.req, session |-> session]}
             /\ ops' = ops \cup {[svc |-> Rx.svc, op |-> nextOp, req |-> Rx.req]}
             /\ UNCHANGED answers
    <3>1. PICK new, op :
              /\ new = [svc |-> Rx.svc, op |-> nextOp, req |-> r, session |-> session]
              /\ op = [svc |-> Rx.svc, op |-> nextOp, req |-> r]
      OBVIOUS
    <3>2. /\ new.op = nextOp /\ new.req = r /\ new.session = session
          /\ op.op = nextOp /\ op.req = r
          /\ pending' = pending \cup {new} /\ ops' = ops \cup {op}
      BY <2>3, <2>4, <3>1
    <3>3. /\ Queued' \subseteq Queued
          /\ \A q \in Requests :
                 Waiting(q)' \in Nat /\ Waiting(q) \in Nat /\ Waiting(q)' <= Waiting(q)
      BY <2>5, TakenWaiting
    <3>4. \A p \in pending : p.op \in Nat /\ p.op < nextOp
      BY DEF TypeOK, Slots, AnswerInv, SlotsKnown
    <3>5. InOnePlace'
      <4> SUFFICES ASSUME NEW q \in Requests
                   PROVE  /\ Waiting(q)' <= 1
                          /\ Waiting(q)' = 1 \/ asked'[q] = -1 =>
                                 answers'[q] = <<>> /\ \A p \in pending' : p.req # q
                          /\ asked'[q] = -1 => Waiting(q)' = 0
        BY DEF InOnePlace
      <4>1. CASE q = r
        BY <2>1, <2>5, <4>1
      <4>2. CASE q # r
        BY <2>1, <2>3, <3>2, <3>3, <4>2 DEF AnswerInv, InOnePlace
      <4> QED BY <4>1, <4>2
    <3>6. ASSUME NEW o, Belongs(o), o.op \in Nat PROVE Belongs(o)'
      BY <2>1, <3>2, <3>6 DEF Belongs
    <3>7. QueuedKnown'
      <4>1. ASSUME NEW q \in Queued, q.kind = "DONE" PROVE Belongs(q.done)'
        <5>1. q \in Jobs
          BY DEF Queued, TypeOK
        <5>2. q.done \in Operations
          BY <4>1, <5>1 DEF Jobs
        <5>3. q.done.op \in Nat /\ Belongs(q.done)
          BY <4>1, <5>2 DEF Operations, AnswerInv, QueuedKnown
        <5> QED BY <3>6, <5>3
      <4> QED BY <2>1, <3>3, <4>1 DEF AnswerInv, QueuedKnown
    <3>8. (\A o \in ops : Belongs(o))'
      <4>1. \A o \in ops : o.op \in Nat /\ Belongs(o)
        BY DEF TypeOK, Operations, AnswerInv
      <4>2. Belongs(op)'
        BY <2>1, <3>2, <3>4 DEF Belongs
      <4> QED BY <3>2, <3>6, <4>1, <4>2
    <3>9. SlotsKnown'
      BY <2>1, <2>3, <2>5, <3>2, <3>4 DEF AnswerInv, SlotsKnown
    <3>10. Answered'
      BY <2>1, <2>3 DEF AnswerInv, Answered
    <3> QED BY <3>5, <3>7, <3>8, <3>9, <3>10 DEF AnswerInv
  <2> QED BY <1>4, <2>2, <2>3 DEF HandleSubmit
<1> QED BY <1>1, <1>2, <1>3, <1>4 DEF HandleJob

(* A request is answered at most once, in the session it was asked in and  *)
(* with its own result (coproc.c:250, coproc_eth.c:110).                   *)
THEOREM RequestsAnsweredOnce == Spec => []AnsweredOnce
<1>1. ASSUME Init PROVE AnswerInv
  <2>1. \A r \in Requests : Waiting(r) = 0
    BY <1>1, CountEmpty DEF Init, Waiting
  <2>2. Queued = {}
    BY <1>1 DEF Init, Queued
  <2> QED BY <1>1, <2>1, <2>2
      DEF Init, AnswerInv, InOnePlace, QueuedKnown, SlotsKnown, Answered
<1>2. TypeOK /\ AnswerInv /\ [Next]_vars => AnswerInv'
  <2> SUFFICES ASSUME TypeOK, AnswerInv, [Next]_vars PROVE AnswerInv'
    OBVIOUS
  <2>1. CASE WorkerBegins \/ LoopTop \/ WaitEnds \/ UNCHANGED vars
    <3>1. Calm
      BY <2>1, CalmRest DEF WorkerBegins, LoopTop, WaitEnds, vars, envVars
    <3> QED BY <3>1, CalmStep
  <2> QED BY <2>1, ApiAnswers, EnvironmentAnswers, JobAnswers DEF Next, Worker
<1>3. AnswerInv => AnsweredOnce
  <2> SUFFICES ASSUME AnswerInv, NEW r \in Requests
               PROVE  /\ Len(answers[r]) <= 1
                      /\ \A i \in 1 .. Len(answers[r]) :
                             answers[r][i] = [session |-> asked[r], of |-> r]
    BY DEF AnsweredOnce
  <2>1. CASE answers[r] = <<>>
    BY <2>1
  <2>2. CASE answers[r] = <<[session |-> asked[r], of |-> r]>>
    BY <2>2
  <2> QED BY <2>1, <2>2 DEF AnswerInv, Answered
<1> QED BY <1>1, <1>2, <1>3, TypeCorrect, PTL DEF Spec

(* In a session the operations under way are its own: no slot stays BUSY   *)
(* for a session that is over (coproc_link.c:241-247).                     *)
THEOREM OperationsAreCurrent == Spec => []SlotsAreCurrent
<1>1. Init => SlotsAreCurrent
  BY DEF Init, SlotsAreCurrent
<1>2. TypeOK /\ SlotsAreCurrent /\ [Next]_vars => SlotsAreCurrent'
  <2> SUFFICES ASSUME TypeOK, SlotsAreCurrent, [Next]_vars PROVE SlotsAreCurrent'
    OBVIOUS
  <2>1. CASE HandleHello
    BY <2>1 DEF HandleHello, SlotsAreCurrent
  <2>2. CASE HandleSubmit
    BY <2>2 DEF HandleSubmit, SlotsAreCurrent
  <2>3. CASE HandleDone
    BY <2>3 DEF HandleDone, SlotsAreCurrent
  <2>4. CASE HandleStop
    BY <2>4 DEF HandleStop, SlotsAreCurrent
  <2>5. CASE \/ HandleTransportFailed \/ HandleTx \/ HandleHelloIgnored
             \/ HandleCreditUpdate \/ HandleRequestDropped \/ HandleRequestAtOnce
    BY <2>5 DEF HandleTransportFailed, HandleTx, HandleHelloIgnored, HandleCreditUpdate,
                HandleRequestDropped, HandleRequestAtOnce, SlotsAreCurrent
  <2>6. CASE WorkerBegins \/ LoopTop \/ WaitEnds \/ UNCHANGED vars
    BY <2>6 DEF WorkerBegins, LoopTop, WaitEnds, vars, SlotsAreCurrent
  <2>7. CASE Api
    BY <2>7 DEF Api, Start, StopCall, StopReturns, StopTimesOut, SendCall, SlotsAreCurrent
  <2>8. CASE Environment
    BY <2>8 DEF Environment, Tick, TransportFails, BackendCompletes, OnFrame, SlotsAreCurrent
  <2> QED BY <2>1, <2>2, <2>3, <2>4, <2>5, <2>6, <2>7, <2>8 DEF Next, Worker, HandleJob
<1> QED BY <1>1, <1>2, TypeCorrect, PTL DEF Spec
=============================================================================
