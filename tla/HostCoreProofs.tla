--------------------------- MODULE HostCoreProofs ---------------------------
(***************************************************************************)
(* The safety properties of HostCore for every number of calls, every      *)
(* queue depth, pending limit, credit limit and session bound.             *)
(***************************************************************************)
EXTENDS HostCore, TLAPS

USE HostCoreAssumption

-----------------------------------------------------------------------------
(* The job queue.                                                          *)

(* Appending a job keeps the queued calls, plus the job's own.             *)
LEMMA AppendCalls ==
    ASSUME NEW q \in Seq(Jobs), NEW job \in Jobs
    PROVE  CallsIn(Append(q, job)) =
             CallsIn(q) \cup {c \in Calls : job.kind = "RPC_REQUEST" /\ job.call = c}
<1> DEFINE r == Append(q, job)
<1>1. /\ Len(r) = Len(q) + 1 /\ r[Len(q) + 1] = job
      /\ \A i \in 1 .. Len(q) : r[i] = q[i]
  OBVIOUS
<1>2. \A i \in 1 .. Len(r) : i \in 1 .. Len(q) \/ i = Len(q) + 1
  BY <1>1
<1>3. Len(q) + 1 \in 1 .. Len(r) /\ \A i \in 1 .. Len(q) : i \in 1 .. Len(r)
  BY <1>1
<1> HIDE DEF r
<1>4. CallsIn(r) = CallsIn(q) \cup
          {c \in Calls : job.kind = "RPC_REQUEST" /\ job.call = c}
  BY <1>1, <1>2, <1>3 DEF CallsIn
<1> QED BY <1>4 DEF r

LEMMA AppendOnce ==
    ASSUME NEW q \in Seq(Jobs), NEW job \in Jobs, OnceIn(q),
           job.kind = "RPC_REQUEST" => job.call \in Calls \ CallsIn(q)
    PROVE  OnceIn(Append(q, job))
<1> DEFINE r == Append(q, job)
<1>1. /\ Len(r) = Len(q) + 1 /\ r[Len(q) + 1] = job
      /\ \A i \in 1 .. Len(q) : r[i] = q[i]
  OBVIOUS
<1>2. \A i \in 1 .. Len(r) : i \in 1 .. Len(q) \/ i = Len(q) + 1
  BY <1>1
<1>3. \A i \in 1 .. Len(q) : job.kind = "RPC_REQUEST" /\ q[i].kind = "RPC_REQUEST"
          => q[i].call # job.call
  BY DEF CallsIn
<1> HIDE DEF r
<1>4. OnceIn(r)
  BY <1>1, <1>2, <1>3 DEF OnceIn
<1> QED BY <1>4 DEF r

(* Taking the head of the queue removes its call, if it has one.           *)
LEMMA TailCalls ==
    ASSUME NEW q \in Seq(Jobs), q # <<>>, OnceIn(q)
    PROVE  /\ OnceIn(Tail(q))
           /\ Head(q).kind # "RPC_REQUEST" => CallsIn(Tail(q)) = CallsIn(q)
           /\ Head(q).kind = "RPC_REQUEST" =>
                 /\ Head(q).call \in CallsIn(q)
                 /\ CallsIn(Tail(q)) = CallsIn(q) \ {Head(q).call}
<1> DEFINE r == Tail(q)
<1>1. /\ Len(r) = Len(q) - 1 /\ Len(q) \in Nat /\ Len(q) > 0 /\ Head(q) = q[1]
      /\ \A i \in 1 .. Len(r) : r[i] = q[i + 1]
      /\ Head(q) \in Jobs
  OBVIOUS
<1>2. \A i \in 1 .. Len(r) : i + 1 \in 1 .. Len(q)
  BY <1>1
<1>3. \A j \in 1 .. Len(q) : j = 1 \/ (j - 1 \in 1 .. Len(r) /\ q[j] = r[j - 1])
  BY <1>1
<1>4. 1 \in 1 .. Len(q)
  BY <1>1
<1> HIDE DEF r
<1>5. OnceIn(r)
  BY <1>1, <1>2 DEF OnceIn
<1>6. ASSUME Head(q).kind # "RPC_REQUEST" PROVE CallsIn(r) = CallsIn(q)
  BY <1>1, <1>2, <1>3, <1>6 DEF CallsIn
<1>7. ASSUME Head(q).kind = "RPC_REQUEST"
      PROVE  Head(q).call \in CallsIn(q) /\ CallsIn(r) = CallsIn(q) \ {Head(q).call}
  <2>1. Head(q).call \in Calls
    BY <1>1, <1>7 DEF Jobs, PlainJobs
  <2>2. Head(q).call \in CallsIn(q)
    BY <2>1, <1>1, <1>4, <1>7 DEF CallsIn
  <2>3. \A i \in 1 .. Len(r) : r[i].kind = "RPC_REQUEST" => r[i].call # Head(q).call
    BY <1>1, <1>2, <1>4, <1>7 DEF OnceIn
  <2>4. CallsIn(r) \subseteq CallsIn(q) \ {Head(q).call}
    BY <1>1, <1>2, <2>3 DEF CallsIn
  <2>5. ASSUME NEW c \in CallsIn(q), c # Head(q).call PROVE c \in CallsIn(r)
    <3>1. PICK j \in 1 .. Len(q) : q[j].kind = "RPC_REQUEST" /\ q[j].call = c
      BY DEF CallsIn
    <3>2. j - 1 \in 1 .. Len(r) /\ q[j] = r[j - 1]
      BY <1>1, <1>3, <2>5, <3>1
    <3> QED BY <3>1, <3>2 DEF CallsIn
  <2> QED BY <2>2, <2>4, <2>5
<1> QED BY <1>5, <1>6, <1>7 DEF r

-----------------------------------------------------------------------------
(* Completions.                                                            *)

(* Running the callback of open calls completes exactly those.             *)
LEMMA CompleteCalls ==
    ASSUME outcome \in [Calls -> Seq(Results)],
           NEW cs \in SUBSET Calls, cs \cap Completed = {},
           NEW r \in Results, Complete(cs, r),
           \A c \in Calls : Len(outcome[c]) <= 1
    PROVE  /\ outcome' \in [Calls -> Seq(Results)]
           /\ Completed' = Completed \cup cs
           /\ \A c \in Calls : Len(outcome'[c]) <= 1
<1>1. \A c \in cs : outcome[c] = <<>>
  BY DEF Completed
<1>2. \A c \in Calls : outcome'[c] = IF c \in cs THEN Append(outcome[c], r) ELSE outcome[c]
  BY DEF Complete
<1>3. outcome' \in [Calls -> Seq(Results)]
  BY DEF Complete
<1>4. \A c \in cs : Len(outcome'[c]) = 1 /\ outcome'[c] # <<>>
  <2> TAKE c \in cs
  <2>1. outcome'[c] = Append(<<>>, r)
    BY <1>1, <1>2
  <2>2. <<>> \in Seq(Results) /\ Len(Append(<<>>, r)) = 1
    OBVIOUS
  <2> QED BY <2>1, <2>2
<1>5. Completed' = Completed \cup cs
  BY <1>2, <1>4 DEF Completed
<1> QED BY <1>2, <1>3, <1>4, <1>5

(* A slot's call is a call; clearing slots removes exactly their calls.    *)
LEMMA SlotCalls ==
    ASSUME pending \in SUBSET Slots, OneSlotPerCall, NEW slots \in SUBSET pending
    PROVE  /\ CallsOf(pending) \subseteq Calls /\ CallsOf(slots) \subseteq CallsOf(pending)
           /\ CallsOf(pending \ slots) = CallsOf(pending) \ CallsOf(slots)
  BY DEF Slots, CallsOf, OneSlotPerCall

-----------------------------------------------------------------------------
(* Type correctness.                                                       *)

(* What a job taken from the queue can be.                                 *)
LEMMA JobTypes ==
    ASSUME NEW job \in Jobs
    PROVE  /\ job.kind = "RPC_REQUEST" => job.call \in Calls
           /\ job.kind = "RX_FRAME" => job.frame \in Frames
  BY DEF Jobs, PlainJobs

LEMMA FrameFields ==
    ASSUME NEW f \in Frames
    PROVE  /\ f.hdr \in Sessions
           /\ f.type \in {"HELLO", "SESSION_CHANGED"} => f.sid \in Sessions \ {0}
           /\ f.type = "RESPONSE" => f.call \in Calls
           /\ f.type = "CREDIT" => f.ch \in Channels
  BY DEF Frames

LEMMA TakesTypes ==
    ASSUME TypeOK, NEW kind, Takes(kind)
    PROVE  /\ queue' \in Seq(Jobs) /\ Len(queue') <= Depth
           /\ Head(queue) \in Jobs /\ Head(queue).kind = kind
  BY DEF TypeOK, Takes

LEMMA EnqueueTypes ==
    ASSUME TypeOK, NEW job \in Jobs, Len(queue) < Depth, Enqueue(job)
    PROVE  queue' \in Seq(Jobs) /\ Len(queue') <= Depth
  BY DEF TypeOK, Enqueue

LEMMA CompleteTypes ==
    ASSUME TypeOK, NEW cs \in SUBSET Calls, NEW r \in Results, Complete(cs, r)
    PROVE  outcome' \in [Calls -> Seq(Results)]
  BY DEF TypeOK, Complete

LEMMA CancelTypes ==
    ASSUME TypeOK, NEW r \in Results, CancelPending(r)
    PROVE  outcome' \in [Calls -> Seq(Results)] /\ pending' \in SUBSET Slots
<1>1. CallsOf(pending) \in SUBSET Calls
  BY DEF TypeOK, CallsOf, Slots
<1> QED BY <1>1, CompleteTypes DEF CancelPending

(* The state of HostCore has its type in every behaviour.                  *)
THEOREM TypeCorrect == Spec => []TypeOK
<1>1. ASSUME Init PROVE TypeOK
  <2>1. 0 \in 0 .. MaxCredit /\ 0 \in 0 .. MaxOps /\ 0 \in Sessions
    BY DEF Sessions
  <2>2. queue \in Seq(Jobs) /\ Len(queue) <= Depth
    BY <1>1 DEF Init
  <2>3. outcome \in [Calls -> Seq(Results)]
    BY <1>1 DEF Init
  <2> QED BY <1>1, <2>1, <2>2, <2>3 DEF Init, TypeOK, States
<1>2. TypeOK /\ [Next]_vars => TypeOK'
  <2> SUFFICES ASSUME TypeOK, [Next]_vars PROVE TypeOK'
    OBVIOUS
  <2> USE DEF States, Sessions, Channels
  <2>0. <<>> \in Seq(Jobs) /\ Len(<<>>) <= Depth /\ Queued \subseteq Calls
    BY DEF Queued, CallsIn
  <2>1. CASE Start
    BY <2>0, <2>1 DEF Start, TypeOK, linkVars, transVars, peerVars
  <2>2. CASE StopCall
    <3>1. [kind |-> "STOP"] \in Jobs
      BY DEF Jobs, PlainJobs
    <3> QED BY <2>2, <3>1, EnqueueTypes
            DEF StopCall, CanEnqueue, TypeOK, linkVars, transVars, peerVars
  <2>3. CASE StopReturns
    BY <2>0, <2>3 DEF StopReturns, TypeOK, linkVars, transVars, peerVars
  <2>4. CASE StopTimesOut
    BY <2>4 DEF StopTimesOut, TypeOK, linkVars, transVars, peerVars
  <2>5. CASE DataSend
    <3>1. [kind |-> "DATA_TX"] \in Jobs
      BY DEF Jobs, PlainJobs
    <3> QED BY <2>5, <3>1, EnqueueTypes
            DEF DataSend, CanEnqueue, TypeOK, linkVars, transVars, peerVars, apiVars
  <2>6. ASSUME NEW c \in Calls, RpcRequest(c) PROVE TypeOK'
    <3>1. [kind |-> "RPC_REQUEST", call |-> c] \in Jobs
      BY DEF Jobs
    <3> QED BY <2>6, <3>1, EnqueueTypes
            DEF RpcRequest, CanEnqueue, TypeOK, linkVars, transVars, peerVars, apiVars
  <2>7. CASE WorkerBegins
    BY <2>7 DEF WorkerBegins, RequestTransportStart, TypeOK, linkVars, peerVars
  <2>8. ASSUME NEW slots \in SUBSET pending, RpcDeadlines(slots) PROVE TypeOK'
    <3>1. CallsOf(slots) \in SUBSET Calls
      BY DEF TypeOK, CallsOf, Slots
    <3> QED BY <2>8, <3>1, CompleteTypes
            DEF RpcDeadlines, ClearSlots, Results, TypeOK, apiVars, transVars, peerVars
  <2>9. CASE HeartbeatTimeout
    BY <2>9, CancelTypes
       DEF HeartbeatTimeout, ProcessTransportLost, StopAccepted, StopRefused, Results,
           TypeOK, apiVars, peerVars
  <2>10. CASE HandleStop
    BY <2>10, TakesTypes, CancelTypes
       DEF HandleStop, FinishShutdown, StopAccepted, StopRefused, Results,
           TypeOK, peerVars
  <2>11. CASE HandleRpcRequest
    <3> DEFINE c == Head(queue).call
    <3>1. /\ c \in Calls /\ {c} \in SUBSET Calls
          /\ queue' \in Seq(Jobs) /\ Len(queue') <= Depth
      BY <2>11, TakesTypes, JobTypes DEF HandleRpcRequest
    <3>2. outcome' \in [Calls -> Seq(Results)]
      BY <2>11, <3>1, CompleteTypes DEF HandleRpcRequest, Results, TypeOK
    <3>3. pending' \in SUBSET Slots /\ sent' \in SUBSET Calls
      BY <2>11, <3>1 DEF HandleRpcRequest, TypeOK, Slots
    <3>4. credit' \in [Channels -> 0 .. MaxCredit]
      BY <2>11 DEF HandleRpcRequest, TypeOK
    <3> QED BY <2>11, <3>1, <3>2, <3>3, <3>4
            DEF HandleRpcRequest, TypeOK, apiVars, transVars
  <2>12. CASE HandleDataTx
    BY <2>12, TakesTypes
       DEF HandleDataTx, TypeOK, apiVars, transVars, peerVars
  <2>13. CASE HandleTransportLost
    BY <2>13, TakesTypes, CancelTypes
       DEF HandleTransportLost, ProcessTransportLost, StopAccepted, StopRefused, Results,
           TypeOK, linkVars, apiVars, peerVars
  <2>14. CASE HandleTransportStarted
    BY <2>14, TakesTypes
       DEF HandleTransportStarted, HelloSent, TypeOK, linkVars, apiVars, transVars
  <2>15. CASE HandleTransportStartFailed
    BY <2>15, TakesTypes
       DEF HandleTransportStartFailed, TypeOK, linkVars, apiVars, transVars, peerVars
  <2>16. CASE HandleTransportStopped
    BY <2>16, TakesTypes
       DEF HandleTransportStopped, FinishShutdown, RequestTransportStart, TypeOK, peerVars
  <2>17. CASE HandleTransportStopFailed
    BY <2>17, TakesTypes
       DEF HandleTransportStopFailed, FinishShutdown, TypeOK, transVars, peerVars
  <2>18. ASSUME HandleFrame
         PROVE  Rx \in Frames /\ queue' \in Seq(Jobs) /\ Len(queue') <= Depth
    BY <2>18, TakesTypes, JobTypes
       DEF HandleFrame, Rx, HandleSessionMismatch, HandleHello, HandleHelloReject,
           HandleResponse, HandleCreditUpdate, HandleSessionChanged, HandleOtherFrame,
           TakesFrame
  <2>19. CASE HandleSessionMismatch
    BY <2>19, <2>18, CancelTypes
       DEF HandleFrame, HandleSessionMismatch, SendHello, HelloSent, Results,
           TypeOK, apiVars, transVars
  <2>20. CASE HandleHello
    BY <2>20, <2>18, FrameFields
       DEF HandleFrame, HandleHello, TakesFrame, TypeOK, apiVars, transVars, peerVars
  <2>21. CASE HandleHelloReject
    BY <2>21, <2>18
       DEF HandleFrame, HandleHelloReject, TypeOK, linkVars, apiVars, transVars, peerVars
  <2>22. CASE HandleResponse
    <3> DEFINE found == pending \cap {[call |-> Rx.call, session |-> session]}
    <3>1. CallsOf(found) \in SUBSET Calls
      BY DEF TypeOK, CallsOf, Slots
    <3> QED BY <2>22, <2>18, <3>1, CompleteTypes
            DEF HandleFrame, HandleResponse, ClearSlots, Results, TypeOK, apiVars,
                transVars, peerVars
  <2>23. CASE HandleCreditUpdate
    <3>1. credit' \in [Channels -> 0 .. MaxCredit]
      <4>1. \A n \in 0 .. MaxCredit : AddOneCredit(n) \in 0 .. MaxCredit
        BY DEF AddOneCredit
      <4> QED BY <2>23, <4>1 DEF HandleCreditUpdate, TypeOK
    <3> QED BY <2>23, <2>18, <3>1
            DEF HandleFrame, HandleCreditUpdate, TypeOK, apiVars, transVars, peerVars
  <2>24. CASE HandleSessionChanged
    BY <2>24, <2>18, CancelTypes
       DEF HandleFrame, HandleSessionChanged, SendHello, HelloSent, Results,
           TypeOK, apiVars, transVars
  <2>25. CASE HandleOtherFrame
    BY <2>25, <2>18
       DEF HandleFrame, HandleOtherFrame, TypeOK, linkVars, apiVars, transVars, peerVars
  <2>26. ASSUME NEW kind \in PlainJobs, Report(kind)
         PROVE  queue' \in Seq(Jobs) /\ Len(queue') <= Depth
    <3>1. [kind |-> kind] \in Jobs
      BY DEF Jobs
    <3> QED BY <2>26, <3>1, EnqueueTypes DEF Report, TypeOK
  <2>27. CASE TransportStartCompletes
    <3>1. queue' \in Seq(Jobs) /\ Len(queue') <= Depth
      BY <2>27, <2>26 DEF TransportStartCompletes, PlainJobs
    <3>2. startOps' \in 0 .. MaxOps
      BY <2>27 DEF TransportStartCompletes, TypeOK
    <3>3. up' \in BOOLEAN
      BY <2>27 DEF TransportStartCompletes, TypeOK
    <3> QED BY <2>27, <3>1, <3>2, <3>3
            DEF TransportStartCompletes, TypeOK, linkVars, apiVars, peerVars
  <2>28. CASE TransportStopCompletes
    <3>1. queue' \in Seq(Jobs) /\ Len(queue') <= Depth
      BY <2>28, <2>26 DEF TransportStopCompletes, PlainJobs
    <3>2. stopOps' \in 0 .. MaxOps
      BY <2>28 DEF TransportStopCompletes, TypeOK
    <3>3. up' \in BOOLEAN
      BY <2>28 DEF TransportStopCompletes, TypeOK
    <3> QED BY <2>28, <3>1, <3>2, <3>3
            DEF TransportStopCompletes, TypeOK, linkVars, apiVars, peerVars
  <2>29. CASE TransportLost
    <3>1. [kind |-> "TRANSPORT_LOST"] \in Jobs
      BY DEF Jobs, PlainJobs
    <3> QED BY <2>29, <3>1, EnqueueTypes
            DEF TransportLost, CanEnqueue, TypeOK, linkVars, apiVars, transVars, peerVars
  <2>30. ASSUME NEW f \in PeerFrames, OnFrame(f) PROVE TypeOK'
    <3>1. /\ f \in Frames /\ [kind |-> "RX_FRAME", frame |-> f] \in Jobs
          /\ f.hdr = 0 => arrived < granted
      BY FrameFields DEF PeerFrames, Jobs
    <3> QED BY <2>30, <3>1, EnqueueTypes
            DEF OnFrame, CanEnqueue, TypeOK, linkVars, apiVars, transVars
  <2>31. CASE HelloLost
    BY <2>31 DEF HelloLost, TypeOK, linkVars, apiVars, transVars
  <2>32. CASE PeerDies
    BY <2>32 DEF PeerDies, TypeOK, linkVars, apiVars, transVars
  <2>33. CASE UNCHANGED vars
    BY <2>33 DEF vars, linkVars, apiVars, transVars, peerVars, TypeOK
  <2> QED
    BY <2>1, <2>2, <2>3, <2>4, <2>5, <2>6, <2>7, <2>8, <2>9, <2>10, <2>11, <2>12,
       <2>13, <2>14, <2>15, <2>16, <2>17, <2>19, <2>20, <2>21, <2>22, <2>23, <2>24,
       <2>25, <2>27, <2>28, <2>29, <2>30, <2>31, <2>32, <2>33
       DEF Next, Api, Worker, RpcTimeout, HandleJob, HandleFrame, Transport, Peer
<1> QED BY <1>1, <1>2, PTL DEF Spec

-----------------------------------------------------------------------------
(* The link: state, session, pending table and core task.                  *)

(* A task that is not in its loop has no session and no state; without     *)
(* this the task could enter TRANSPORT_STARTING with calls pending.        *)
IdleIsClean == worker # "looping" => session = 0 /\ state = "UNINITIALIZED"

LinkInv == NoCallOutlivesLink /\ IdleIsClean

LEMMA LinkStep == LinkInv /\ [Next]_vars => LinkInv'
<1> SUFFICES ASSUME LinkInv, [Next]_vars PROVE LinkInv'
  OBVIOUS
<1> USE DEF LinkInv, NoCallOutlivesLink, IdleIsClean, linkVars, apiVars
<1>1. CASE Api
  BY <1>1 DEF Api, Start, StopCall, StopReturns, StopTimesOut, DataSend, RpcRequest
<1>2. CASE WorkerBegins
  BY <1>2 DEF WorkerBegins, RequestTransportStart
<1>3. CASE RpcTimeout
  BY <1>3 DEF RpcTimeout, RpcDeadlines, ClearSlots
<1>4. CASE HeartbeatTimeout
  BY <1>4 DEF HeartbeatTimeout, ProcessTransportLost, CancelPending
<1>5. CASE HandleStop
  BY <1>5 DEF HandleStop, Takes, FinishShutdown, CancelPending
<1>6. CASE HandleRpcRequest
  BY <1>6 DEF HandleRpcRequest, Takes
<1>7. CASE HandleDataTx
  BY <1>7 DEF HandleDataTx, Takes
<1>8. CASE HandleTransportLost
  BY <1>8 DEF HandleTransportLost, Takes, ProcessTransportLost, CancelPending
<1>9. CASE HandleTransportStarted \/ HandleTransportStartFailed
  BY <1>9 DEF HandleTransportStarted, HandleTransportStartFailed, Takes
<1>10. CASE HandleTransportStopped
  BY <1>10 DEF HandleTransportStopped, Takes, FinishShutdown, RequestTransportStart
<1>11. CASE HandleTransportStopFailed
  BY <1>11 DEF HandleTransportStopFailed, Takes, FinishShutdown
<1>12. CASE HandleSessionMismatch \/ HandleSessionChanged
  BY <1>12 DEF HandleSessionMismatch, HandleSessionChanged, TakesFrame, Takes,
               CancelPending, SendHello
<1>13. CASE HandleResponse
  BY <1>13 DEF HandleResponse, TakesFrame, Takes, ClearSlots
<1>14. CASE HandleHello \/ HandleHelloReject \/ HandleCreditUpdate \/ HandleOtherFrame
  BY <1>14 DEF HandleHello, HandleHelloReject, HandleCreditUpdate, HandleOtherFrame,
               TakesFrame, Takes
<1>15. CASE Transport
  BY <1>15 DEF Transport, TransportStartCompletes, TransportStopCompletes, TransportLost
<1>16. CASE Peer
  BY <1>16 DEF Peer, PeerDies, HelloLost, OnFrame
<1>17. CASE UNCHANGED vars
  BY <1>17 DEF vars
<1> QED
  BY <1>1, <1>2, <1>3, <1>4, <1>5, <1>6, <1>7, <1>8, <1>9, <1>10, <1>11, <1>12,
     <1>13, <1>14, <1>15, <1>16, <1>17 DEF Next, Worker, HandleJob, HandleFrame

(* The link invariant holds in every behaviour.                            *)
LEMMA LinkInvariant == Spec => []LinkInv
<1>1. Init => LinkInv
  BY DEF Init, LinkInv, NoCallOutlivesLink, IdleIsClean
<1> QED BY <1>1, LinkStep, PTL DEF Spec

(* No call survives a recovery or a stop (cancel_pending before the state  *)
(* is left, host_link.c:373, host.c:339), whatever the configuration.      *)
THEOREM CallsEndWithLink == Spec => []NoCallOutlivesLink
<1>1. LinkInv => NoCallOutlivesLink
  BY DEF LinkInv
<1> QED BY <1>1, LinkInvariant, PTL

(* A finished core task leaves no session behind (finish_shutdown).        *)
THEOREM ExitClears == Spec => []ExitedIsClean
<1>1. LinkInv => ExitedIsClean
  BY DEF LinkInv, IdleIsClean, ExitedIsClean
<1> QED BY <1>1, LinkInvariant, PTL

-----------------------------------------------------------------------------
(* Sessions.                                                               *)

(* A Hello response in the queue carries session 0, so that one that comes *)
(* in while a session is up is taken for a mismatch.                       *)
HelloCarriesNoSession ==
    \A i \in 1 .. Len(queue) :
        queue[i].kind = "RX_FRAME" /\ queue[i].frame.type = "HELLO"
            => queue[i].frame.hdr = 0

(* What a step can do to the job queue.                                    *)
LEMMA QueueSteps ==
    ASSUME [Next]_vars
    PROVE  \/ queue' = queue \/ queue' = <<>>
           \/ queue # <<>> /\ queue' = Tail(queue)
           \/ \E job : /\ queue' = Append(queue, job)
                       /\ job.kind = "RX_FRAME" => job.frame \in PeerFrames
<1>1. CASE Api
  <2>1. CASE Start \/ StopReturns \/ StopTimesOut
    BY <2>1 DEF Start, StopReturns, StopTimesOut
  <2>2. CASE StopCall
    BY <2>2 DEF StopCall, Enqueue
  <2>3. CASE DataSend
    BY <2>3 DEF DataSend, Enqueue
  <2>4. CASE \E c \in Calls : RpcRequest(c)
    BY <2>4 DEF RpcRequest, Enqueue
  <2> QED BY <1>1, <2>1, <2>2, <2>3, <2>4 DEF Api
<1>2. CASE WorkerBegins \/ RpcTimeout \/ HeartbeatTimeout
  BY <1>2 DEF WorkerBegins, RpcTimeout, RpcDeadlines, HeartbeatTimeout
<1>3. CASE HandleJob
  BY <1>3 DEF HandleJob, HandleStop, HandleRpcRequest, HandleDataTx, HandleTransportLost,
              HandleTransportStarted, HandleTransportStartFailed, HandleTransportStopped,
              HandleTransportStopFailed, HandleFrame, HandleSessionMismatch, HandleHello,
              HandleHelloReject, HandleResponse, HandleCreditUpdate, HandleSessionChanged,
              HandleOtherFrame, TakesFrame, Takes
<1>4. CASE TransportStartCompletes
  BY <1>4 DEF TransportStartCompletes, Report, Enqueue
<1>5. CASE TransportStopCompletes
  BY <1>5 DEF TransportStopCompletes, Report, Enqueue
<1>6. CASE TransportLost
  BY <1>6 DEF TransportLost, Enqueue
<1>7. ASSUME NEW f \in PeerFrames, OnFrame(f)
      PROVE  \E job : /\ queue' = Append(queue, job)
                      /\ job.kind = "RX_FRAME" => job.frame \in PeerFrames
  BY <1>7 DEF OnFrame, Enqueue
<1>8. CASE PeerDies \/ HelloLost
  BY <1>8 DEF PeerDies, HelloLost
<1>9. CASE UNCHANGED vars
  BY <1>9 DEF vars
<1> QED
  BY <1>1, <1>2, <1>3, <1>4, <1>5, <1>6, <1>7, <1>8, <1>9
     DEF Next, Worker, Transport, Peer

(* Every Hello response queued carries session 0.                          *)
LEMMA HelloInvariant == Spec => []HelloCarriesNoSession
<1>1. Init => HelloCarriesNoSession
  BY DEF Init, HelloCarriesNoSession
<1>2. TypeOK /\ HelloCarriesNoSession /\ [Next]_vars => HelloCarriesNoSession'
  <2> SUFFICES ASSUME TypeOK, HelloCarriesNoSession, [Next]_vars
               PROVE  HelloCarriesNoSession'
    OBVIOUS
  <2> USE DEF HelloCarriesNoSession
  <2>1. queue \in Seq(Jobs)
    BY DEF TypeOK
  <2>2. CASE queue' = queue \/ queue' = <<>>
    BY <2>2
  <2>3. CASE queue # <<>> /\ queue' = Tail(queue)
    <3>1. \A i \in 1 .. Len(queue') : i + 1 \in 1 .. Len(queue) /\ queue'[i] = queue[i + 1]
      BY <2>1, <2>3
    <3> QED BY <3>1
  <2>4. ASSUME NEW job, queue' = Append(queue, job),
               job.kind = "RX_FRAME" => job.frame \in PeerFrames
        PROVE  HelloCarriesNoSession'
    <3>1. \A i \in 1 .. Len(queue') :
              \/ i \in 1 .. Len(queue) /\ queue'[i] = queue[i]
              \/ queue'[i] = job
      BY <2>1, <2>4
    <3>2. job.kind = "RX_FRAME" /\ job.frame.type = "HELLO" => job.frame.hdr = 0
      BY <2>4 DEF PeerFrames
    <3> QED BY <3>1, <3>2
  <2> QED BY <2>2, <2>3, <2>4, QueueSteps
<1> QED BY <1>1, <1>2, TypeCorrect, PTL DEF Spec

(* A session is given up before another begins (host_frame.c:96, the check *)
(* every frame passes before handle_hello_response can see it).            *)
THEOREM SessionsNeverReplaced == Spec => SessionGivenUpFirst
<1>1. TypeOK /\ HelloCarriesNoSession /\ [Next]_vars
        => [session' # session => session = 0 \/ session' = 0]_vars
  <2> SUFFICES ASSUME TypeOK, HelloCarriesNoSession, [Next]_vars,
                      session' # session
               PROVE  session = 0 \/ session' = 0
    OBVIOUS
  <2> USE DEF linkVars
  <2>1. CASE Api
    BY <2>1 DEF Api, Start, StopCall, StopReturns, StopTimesOut, DataSend, RpcRequest
  <2>2. CASE WorkerBegins \/ RpcTimeout \/ HeartbeatTimeout
    BY <2>2 DEF WorkerBegins, RpcTimeout, RpcDeadlines, HeartbeatTimeout,
                ProcessTransportLost
  <2>3. CASE HandleStop \/ HandleRpcRequest \/ HandleDataTx \/ HandleTransportLost
    BY <2>3 DEF HandleStop, FinishShutdown, HandleRpcRequest, HandleDataTx,
                HandleTransportLost, ProcessTransportLost
  <2>4. CASE HandleTransportStarted \/ HandleTransportStartFailed
                \/ HandleTransportStopped \/ HandleTransportStopFailed
    BY <2>4 DEF HandleTransportStarted, HandleTransportStartFailed,
                HandleTransportStopped, HandleTransportStopFailed, FinishShutdown
  <2>5. CASE HandleSessionMismatch \/ HandleHelloReject \/ HandleResponse
                \/ HandleCreditUpdate \/ HandleSessionChanged \/ HandleOtherFrame
    BY <2>5 DEF HandleSessionMismatch, HandleHelloReject, HandleResponse,
                HandleCreditUpdate, HandleSessionChanged, HandleOtherFrame
  <2>6. CASE HandleHello
    <3>1. 1 \in 1 .. Len(queue) /\ Head(queue) = queue[1]
      BY <2>6 DEF HandleHello, TakesFrame, Takes, TypeOK
    <3>2. Rx.hdr = 0
      BY <2>6, <3>1 DEF HandleHello, TakesFrame, Takes, Rx, HelloCarriesNoSession
    <3> QED BY <2>6, <3>2 DEF HandleHello, HeaderAccepted
  <2>7. CASE Transport
    BY <2>7 DEF Transport, TransportStartCompletes, TransportStopCompletes, TransportLost
  <2>8. CASE Peer
    BY <2>8 DEF Peer, PeerDies, HelloLost, OnFrame
  <2>9. CASE UNCHANGED vars
    BY <2>9 DEF vars
  <2> QED
    BY <2>1, <2>2, <2>3, <2>4, <2>5, <2>6, <2>7, <2>8, <2>9
       DEF Next, Worker, HandleJob, HandleFrame
<1> QED BY <1>1, TypeCorrect, HelloInvariant, PTL DEF Spec, SessionGivenUpFirst

-----------------------------------------------------------------------------
(* The life of a call.                                                     *)

(* A response can only end a call the transport took, because a slot is    *)
(* filled when the request has gone out.                                   *)
PendingWereSent == CallsOf(pending) \subseteq sent

CallInv == CallsAccounted /\ PendingWereSent

(* A step after which the same requests wait in the queue.                 *)
QueueSteady == Queued' = Queued /\ OnceIn(queue)'

LEMMA TakenJobSteady ==
    ASSUME TypeOK, CallsAccounted, NEW kind, kind # "RPC_REQUEST", Takes(kind)
    PROVE  QueueSteady
  BY TailCalls DEF TypeOK, CallsAccounted, Takes, QueueSteady, Queued

LEMMA NewJobSteady ==
    ASSUME TypeOK, CallsAccounted, NEW job \in Jobs, job.kind # "RPC_REQUEST",
           Enqueue(job)
    PROVE  QueueSteady
  BY AppendCalls, AppendOnce DEF TypeOK, CallsAccounted, Enqueue, QueueSteady, Queued

LEMMA UnchangedQueueSteady ==
    ASSUME CallsAccounted, UNCHANGED queue
    PROVE  QueueSteady
  BY DEF CallsAccounted, QueueSteady, Queued

(* No call moves.                                                          *)
LEMMA NoCallMoves ==
    ASSUME CallInv, QueueSteady,
           UNCHANGED <<pending, sent, accepted, outcome, dropped>>
    PROVE  CallInv'
  BY DEF CallInv, CallsAccounted, PendingWereSent, QueueSteady, Completed, OneSlotPerCall

(* The calls of some slots end with result r.                              *)
LEMMA SlotsEnd ==
    ASSUME TypeOK, CallInv, QueueSteady, NEW slots \in SUBSET pending,
           NEW r \in Results, Complete(CallsOf(slots), r),
           pending' = pending \ slots, UNCHANGED <<sent, accepted, dropped>>
    PROVE  CallInv'
<1>1. /\ CallsOf(slots) \in SUBSET Calls /\ CallsOf(slots) \subseteq CallsOf(pending)
      /\ CallsOf(pending)' = CallsOf(pending) \ CallsOf(slots)
  BY SlotCalls DEF TypeOK, CallInv, CallsAccounted
<1>2. CallsOf(slots) \cap Completed = {}
  BY <1>1 DEF CallInv, CallsAccounted, Partition
<1>3. Completed' = Completed \cup CallsOf(slots) /\ \A c \in Calls : Len(outcome'[c]) <= 1
  BY <1>1, <1>2, CompleteCalls DEF TypeOK, CallInv, CallsAccounted
<1>4. Partition(accepted, Queued, CallsOf(pending), Completed, dropped)'
  BY <1>1, <1>3 DEF CallInv, CallsAccounted, Partition, QueueSteady
<1>5. OneSlotPerCall' /\ PendingWereSent'
  BY <1>1 DEF CallInv, CallsAccounted, OneSlotPerCall, PendingWereSent
<1> QED BY <1>3, <1>4, <1>5 DEF CallInv, CallsAccounted, QueueSteady

LEMMA CancelEnds ==
    ASSUME TypeOK, CallInv, QueueSteady, NEW r \in Results, CancelPending(r),
           UNCHANGED <<sent, accepted, dropped>>
    PROVE  CallInv'
<1>1. pending' = pending \ pending
  BY DEF CancelPending
<1> QED BY <1>1, SlotsEnd DEF CancelPending

(* Destroying or replacing the queue drops the calls waiting in it.        *)
LEMMA QueueDropped ==
    ASSUME CallInv, queue' = <<>>, dropped' = dropped \cup Queued,
           UNCHANGED <<pending, sent, accepted, outcome>>
    PROVE  CallInv'
<1>1. Queued' = {} /\ OnceIn(queue)'
  BY DEF Queued, CallsIn, OnceIn
<1>2. Partition(accepted, Queued, CallsOf(pending), Completed, dropped)'
  BY <1>1 DEF CallInv, CallsAccounted, Partition, Completed
<1> QED BY <1>1, <1>2 DEF CallInv, CallsAccounted, OneSlotPerCall, PendingWereSent

LEMMA RequestAccepted ==
    ASSUME TypeOK, CallInv, NEW c \in Calls, RpcRequest(c)
    PROVE  CallInv'
<1> DEFINE job == [kind |-> "RPC_REQUEST", call |-> c]
<1>1. job \in Jobs /\ c \notin Queued
  BY DEF Jobs, CallInv, CallsAccounted, Partition, RpcRequest
<1>2. Queued' = Queued \cup {c} /\ OnceIn(queue)'
  BY <1>1, AppendCalls, AppendOnce
     DEF RpcRequest, Enqueue, TypeOK, CallInv, CallsAccounted, Queued
<1>3. Partition(accepted, Queued, CallsOf(pending), Completed, dropped)'
  BY <1>2 DEF CallInv, CallsAccounted, Partition, RpcRequest, linkVars, Completed
<1> QED BY <1>2, <1>3 DEF CallInv, CallsAccounted, OneSlotPerCall, PendingWereSent,
                          RpcRequest, linkVars, peerVars

LEMMA RequestHandled ==
    ASSUME TypeOK, CallInv, HandleRpcRequest
    PROVE  CallInv'
<1> DEFINE c == Head(queue).call
           slot == [call |-> c, session |-> session]
<1>1. /\ c \in Queued /\ c \in Calls /\ Queued' = Queued \ {c} /\ OnceIn(queue)'
  BY TailCalls DEF HandleRpcRequest, Takes, TypeOK, CallInv, CallsAccounted, Queued, CallsIn
<1>2. c \in accepted /\ c \notin CallsOf(pending) \cup Completed \cup dropped
  BY <1>1 DEF CallInv, CallsAccounted, Partition
<1> HIDE DEF c
<1>3. CASE /\ pending' = pending \cup {slot} /\ sent' = sent \cup {c}
           /\ UNCHANGED <<outcome, accepted, dropped>>
  <2>1. CallsOf(pending)' = CallsOf(pending) \cup {c}
    <3>1. slot.call = c
      OBVIOUS
    <3> HIDE DEF slot
    <3>2. \A x : x \in CallsOf(pending)' <=> x \in CallsOf(pending) \/ x = c
      BY <1>3, <3>1 DEF CallsOf
    <3> QED BY <3>2
  <2>2. Partition(accepted, Queued, CallsOf(pending), Completed, dropped)'
    <3> DEFINE Q == Queued
               P == CallsOf(pending)
    <3>1. Partition(accepted, Q, P, Completed, dropped)
      BY DEF CallInv, CallsAccounted
    <3>2. Completed' = Completed
      BY <1>3 DEF Completed
    <3>3. Q' = Q \ {c} /\ P' = P \cup {c} /\ c \in Q /\ UNCHANGED <<accepted, dropped>>
      BY <1>1, <1>3, <2>1
    <3> HIDE DEF Q, P
    <3> QED BY <3>1, <3>2, <3>3 DEF Partition, Q, P
  <2>3. OneSlotPerCall'
    BY <1>2, <1>3 DEF CallInv, CallsAccounted, OneSlotPerCall, CallsOf
  <2> QED BY <1>1, <1>3, <2>1, <2>2, <2>3 DEF CallInv, CallsAccounted, PendingWereSent
<1>4. CASE Complete({c}, "REFUSED") /\ UNCHANGED <<pending, sent, accepted, dropped>>
  <2>1. {c} \in SUBSET Calls /\ {c} \cap Completed = {} /\ "REFUSED" \in Results
    BY <1>1, <1>2 DEF Results
  <2>2. Completed' = Completed \cup {c} /\ \A d \in Calls : Len(outcome'[d]) <= 1
    BY <1>4, <2>1, CompleteCalls DEF TypeOK, CallInv, CallsAccounted
  <2>3. Partition(accepted, Queued, CallsOf(pending), Completed, dropped)'
    BY <1>1, <1>2, <1>4, <2>2 DEF CallInv, CallsAccounted, Partition
  <2> QED BY <1>1, <1>4, <2>2, <2>3
          DEF CallInv, CallsAccounted, OneSlotPerCall, PendingWereSent
<1> QED BY <1>3, <1>4 DEF HandleRpcRequest, peerVars, c

LEMMA CallStep == TypeOK /\ CallInv /\ [Next]_vars => CallInv'
<1> SUFFICES ASSUME TypeOK, CallInv, [Next]_vars PROVE CallInv'
  OBVIOUS
<1> USE DEF linkVars, apiVars, transVars, peerVars, Results
<1>0. CallsAccounted
  BY DEF CallInv
<1>1. CASE Start \/ StopReturns
  BY <1>1, QueueDropped DEF Start, StopReturns
<1>2. CASE StopCall
  <2>1. [kind |-> "STOP"] \in Jobs
    BY DEF Jobs, PlainJobs
  <2> QED BY <1>0, <1>2, <2>1, NewJobSteady, NoCallMoves DEF StopCall
<1>3. CASE DataSend
  <2>1. [kind |-> "DATA_TX"] \in Jobs
    BY DEF Jobs, PlainJobs
  <2> QED BY <1>0, <1>3, <2>1, NewJobSteady, NoCallMoves DEF DataSend
<1>4. CASE StopTimesOut \/ WorkerBegins
  BY <1>0, <1>4, UnchangedQueueSteady, NoCallMoves DEF StopTimesOut, WorkerBegins
<1>5. CASE RpcTimeout
  BY <1>0, <1>5, UnchangedQueueSteady, SlotsEnd DEF RpcTimeout, RpcDeadlines, ClearSlots
<1>6. CASE HeartbeatTimeout
  BY <1>0, <1>6, UnchangedQueueSteady, CancelEnds DEF HeartbeatTimeout, ProcessTransportLost
<1>7. CASE HandleStop
  BY <1>0, <1>7, TakenJobSteady, CancelEnds DEF HandleStop
<1>8. CASE HandleDataTx
  BY <1>0, <1>8, TakenJobSteady, NoCallMoves DEF HandleDataTx
<1>9. CASE HandleTransportLost
  <2>1. QueueSteady
    BY <1>0, <1>9, TakenJobSteady DEF HandleTransportLost
  <2> QED BY <1>9, <2>1, CancelEnds, NoCallMoves
          DEF HandleTransportLost, ProcessTransportLost
<1>10. CASE HandleTransportStarted \/ HandleTransportStartFailed
  BY <1>0, <1>10, TakenJobSteady, NoCallMoves
     DEF HandleTransportStarted, HandleTransportStartFailed
<1>11. CASE HandleTransportStopped \/ HandleTransportStopFailed
  BY <1>0, <1>11, TakenJobSteady, NoCallMoves
     DEF HandleTransportStopped, HandleTransportStopFailed
<1>12. CASE HandleSessionMismatch
  BY <1>0, <1>12, TakenJobSteady, CancelEnds DEF HandleSessionMismatch
<1>13. CASE HandleHello \/ HandleHelloReject \/ HandleCreditUpdate \/ HandleOtherFrame
  BY <1>0, <1>13, TakenJobSteady, NoCallMoves
     DEF HandleHello, HandleHelloReject, HandleCreditUpdate, HandleOtherFrame, TakesFrame
<1>14. CASE HandleResponse
  BY <1>0, <1>14, TakenJobSteady, SlotsEnd DEF HandleResponse, TakesFrame, ClearSlots
<1>15. CASE HandleSessionChanged
  <2>1. QueueSteady
    BY <1>0, <1>15, TakenJobSteady DEF HandleSessionChanged, TakesFrame
  <2> QED BY <1>15, <2>1, CancelEnds, NoCallMoves DEF HandleSessionChanged
<1>16. ASSUME NEW kind \in PlainJobs, Report(kind) PROVE QueueSteady
  <2>1. [kind |-> kind] \in Jobs /\ kind # "RPC_REQUEST"
    BY DEF Jobs, PlainJobs
  <2> QED BY <1>0, <1>16, <2>1, NewJobSteady, UnchangedQueueSteady DEF Report
<1>17. CASE TransportStartCompletes \/ TransportStopCompletes
  <2>1. QueueSteady
    BY <1>16, <1>17 DEF TransportStartCompletes, TransportStopCompletes, PlainJobs
  <2> QED BY <1>17, <2>1, NoCallMoves
          DEF TransportStartCompletes, TransportStopCompletes
<1>18. CASE TransportLost
  <2>1. [kind |-> "TRANSPORT_LOST"] \in Jobs
    BY DEF Jobs, PlainJobs
  <2> QED BY <1>0, <1>18, <2>1, NewJobSteady, NoCallMoves DEF TransportLost
<1>19. ASSUME NEW f \in PeerFrames, OnFrame(f) PROVE CallInv'
  <2>1. [kind |-> "RX_FRAME", frame |-> f] \in Jobs
    BY DEF Jobs, PeerFrames
  <2> QED BY <1>0, <1>19, <2>1, NewJobSteady, NoCallMoves DEF OnFrame
<1>20. CASE HelloLost \/ PeerDies \/ UNCHANGED vars
  BY <1>0, <1>20, UnchangedQueueSteady, NoCallMoves DEF HelloLost, PeerDies, vars
<1> QED
  BY <1>1, <1>2, <1>3, <1>4, <1>5, <1>6, <1>7, <1>8, <1>9, <1>10, <1>11, <1>12,
     <1>13, <1>14, <1>15, <1>17, <1>18, <1>19, <1>20, RequestAccepted, RequestHandled
     DEF Next, Api, Worker, HandleJob, HandleFrame, Transport, Peer

(* The call invariant holds in every behaviour.                            *)
LEMMA CallInvariant == Spec => []CallInv
<1>1. Init => CallInv
  BY DEF Init, CallInv, CallsAccounted, PendingWereSent, Partition, Queued, CallsIn,
         CallsOf, Completed, OnceIn, OneSlotPerCall
<1> QED BY <1>1, CallStep, TypeCorrect, PTL DEF Spec

(* Every accepted call is in exactly one place and ends at most once,      *)
(* however requests, responses, deadlines, cancellations, stops and        *)
(* restarts are interleaved (host_rpc.c, host.c).                          *)
THEOREM EveryCallAccounted == Spec => []CallsAccounted
<1>1. CallInv => CallsAccounted
  BY DEF CallInv
<1> QED BY <1>1, CallInvariant, PTL

-----------------------------------------------------------------------------
(* Refinement: what the callers see is an RpcClient.                       *)

LEMMA SlotsFinish ==
    ASSUME TypeOK, CallInv, NEW slots \in SUBSET pending, NEW r \in Results,
           Complete(CallsOf(slots), r), UNCHANGED <<accepted, sent, dropped>>
    PROVE  Client!Next
<1>1. CallsOf(slots) \in SUBSET Calls /\ CallsOf(slots) \subseteq CallsOf(pending)
  BY SlotCalls DEF TypeOK, CallInv, CallsAccounted
<1>2. CallsOf(slots) \subseteq Client!Open /\ CallsOf(slots) \subseteq sent
  BY <1>1 DEF CallInv, CallsAccounted, PendingWereSent, Partition, Completed, Client!Open
<1>3. Client!Finish(CallsOf(slots), r)
  BY <1>2 DEF Client!Finish, Complete
<1> QED BY <1>1, <1>3 DEF Client!Next

LEMMA CancelFinishes ==
    ASSUME TypeOK, CallInv, NEW r \in Results, CancelPending(r),
           UNCHANGED <<accepted, sent, dropped>>
    PROVE  Client!Next
  BY SlotsFinish DEF CancelPending

LEMMA QueueDrops ==
    ASSUME CallInv, dropped' = dropped \cup Queued, UNCHANGED <<accepted, sent, outcome>>
    PROVE  Client!Next
<1>1. Queued \in SUBSET Calls /\ Queued \subseteq Client!Open
  BY DEF CallInv, CallsAccounted, Partition, Completed, Client!Open, Queued, CallsIn
<1>2. Client!Drop(Queued)
  BY <1>1 DEF Client!Drop
<1> QED BY <1>1, <1>2 DEF Client!Next

LEMMA RequestSends ==
    ASSUME TypeOK, CallInv, HandleRpcRequest
    PROVE  Client!Next
<1> DEFINE c == Head(queue).call
<1>1. c \in Queued /\ c \in Calls
  BY TailCalls DEF HandleRpcRequest, Takes, TypeOK, CallInv, CallsAccounted, Queued, CallsIn
<1>2. c \in Client!Open
  BY <1>1 DEF CallInv, CallsAccounted, Partition, Completed, Client!Open
<1> HIDE DEF c
<1>3. CASE sent' = sent \cup {c} /\ UNCHANGED <<outcome, accepted, dropped>>
  BY <1>1, <1>2, <1>3 DEF Client!Next, Client!Send
<1>4. CASE Complete({c}, "REFUSED") /\ UNCHANGED <<sent, accepted, dropped>>
  <2>1. Client!Finish({c}, "REFUSED")
    BY <1>2, <1>4 DEF Client!Finish, Complete
  <2>2. {c} \in SUBSET Calls /\ "REFUSED" \in Results
    BY <1>1 DEF Results
  <2> QED BY <2>1, <2>2 DEF Client!Next
<1> QED BY <1>3, <1>4 DEF HandleRpcRequest, peerVars, c

(* HostCore implements RpcClient: no sequence of requests, frames, session *)
(* changes, deadlines, stops and restarts ends a call twice, drops one     *)
(* that has ended, or answers one that was not sent.                       *)
THEOREM ImplementsRpcClient == Spec => ClientSpec
<1>1. Init => Client!Init
  BY DEF Init, Client!Init
<1>2. TypeOK /\ CallInv /\ [Next]_vars => [Client!Next]_Client!vars
  <2> SUFFICES ASSUME TypeOK, CallInv, [Next]_vars
               PROVE  Client!Next \/ UNCHANGED <<accepted, sent, outcome, dropped>>
    BY DEF Client!vars
  <2> USE DEF linkVars, apiVars, transVars, peerVars, Results
  <2>1. CASE Start \/ StopReturns
    BY <2>1, QueueDrops DEF Start, StopReturns
  <2>2. CASE StopCall \/ StopTimesOut \/ DataSend \/ WorkerBegins
    BY <2>2 DEF StopCall, StopTimesOut, DataSend, WorkerBegins
  <2>3. ASSUME NEW c \in Calls, RpcRequest(c) PROVE Client!Next
    BY <2>3 DEF RpcRequest, Client!Next, Client!Accept
  <2>4. CASE RpcTimeout
    BY <2>4, SlotsFinish DEF RpcTimeout, RpcDeadlines
  <2>5. CASE HeartbeatTimeout
    BY <2>5, CancelFinishes DEF HeartbeatTimeout, ProcessTransportLost
  <2>6. CASE HandleStop
    BY <2>6, CancelFinishes DEF HandleStop
  <2>7. CASE HandleTransportLost
    BY <2>7, CancelFinishes DEF HandleTransportLost, ProcessTransportLost
  <2>8. CASE HandleDataTx \/ HandleTransportStarted \/ HandleTransportStartFailed
                \/ HandleTransportStopped \/ HandleTransportStopFailed
    BY <2>8 DEF HandleDataTx, HandleTransportStarted, HandleTransportStartFailed,
                HandleTransportStopped, HandleTransportStopFailed
  <2>9. CASE HandleSessionMismatch
    BY <2>9, CancelFinishes DEF HandleSessionMismatch
  <2>10. CASE HandleHello \/ HandleHelloReject \/ HandleCreditUpdate \/ HandleOtherFrame
    BY <2>10 DEF HandleHello, HandleHelloReject, HandleCreditUpdate, HandleOtherFrame
  <2>11. CASE HandleResponse
    BY <2>11, SlotsFinish DEF HandleResponse
  <2>12. CASE HandleSessionChanged
    BY <2>12, CancelFinishes DEF HandleSessionChanged
  <2>13. CASE Transport
    BY <2>13 DEF Transport, TransportStartCompletes, TransportStopCompletes, TransportLost
  <2>14. CASE Peer
    BY <2>14 DEF Peer, PeerDies, HelloLost, OnFrame
  <2>15. CASE UNCHANGED vars
    BY <2>15 DEF vars
  <2> QED
    BY <2>1, <2>2, <2>3, <2>4, <2>5, <2>6, <2>7, <2>8, <2>9, <2>10, <2>11, <2>12,
       <2>13, <2>14, <2>15, RequestSends DEF Next, Api, Worker, HandleJob, HandleFrame
<1> QED
  BY <1>1, <1>2, TypeCorrect, CallInvariant, PTL DEF Spec, ClientSpec, Client!Spec

=============================================================================
