------------------------- MODULE HostServicesProofs -------------------------
(***************************************************************************)
(* What an application calls of the Host Core, for every value of the      *)
(* constants: the Ethernet data path of HostEthernetTx, and the buffers    *)
(* and callbacks of the typed requests of HostCalls.                       *)
(***************************************************************************)
EXTENDS HostEthernetTx, HostCalls, QueueCountsProofs, FiniteSetTheorems,
        SequenceTheorems, TLAPS

-----------------------------------------------------------------------------
(***************************************************************************)
(* HostEthernetTx: its safety properties for every set of channels and     *)
(* threads, every number of slots, queue depth, aggregation limit and      *)
(* credit limit.                                                           *)
(***************************************************************************)

USE HostEthernetTxAssumption

-----------------------------------------------------------------------------
(* Counting the records of a queue.                                        *)

LEMMA CountNat == \A q \in Seq(Jobs) : \A chs : CountIn(q, chs) \in Nat
  BY CountType

(* A sequence of one job.                                                  *)
LEMMA CountOne ==
    ASSUME NEW job \in Jobs, NEW chs
    PROVE  CountIn(<<job>>, chs) = IF job \in chs THEN 1 ELSE 0
<1>1. <<job>> \in Seq(Jobs) /\ <<job>> # <<>> /\ Head(<<job>>) = job /\ Tail(<<job>>) = <<>>
  OBVIOUS
<1>2. CountIn(<<job>>, chs) = CountIn(<<>>, chs) + IF job \in chs THEN 1 ELSE 0
  BY <1>1, CountTail
<1>3. CountIn(<<>>, chs) = 0
  BY CountEmpty
<1> QED BY <1>2, <1>3

-----------------------------------------------------------------------------
(* The threads in ethernet_send.                                           *)

LEMMA SendingType ==
    IsFiniteSet(Sending) /\ Cardinality(Sending) \in Nat
<1>1. Sending \in SUBSET Threads
  BY DEF Sending
<1> QED BY <1>1, FS_Subset, FS_CardinalityType

LEMMA SendingEnters ==
    ASSUME TypeOK, NEW t \in Threads, NEW ch \in Ethernet, thread[t] = NoChannel,
           thread' = [thread EXCEPT ![t] = ch]
    PROVE  Cardinality(Sending)' = Cardinality(Sending) + 1
<1>1. Sending' = Sending \cup {t} /\ t \notin Sending
  BY DEF Sending, TypeOK
<1> QED BY <1>1, SendingType, FS_AddElement

LEMMA SendingLeaves ==
    ASSUME TypeOK, NEW t \in Threads, thread[t] # NoChannel,
           thread' = [thread EXCEPT ![t] = NoChannel]
    PROVE  Cardinality(Sending) > 0 /\ Cardinality(Sending)' = Cardinality(Sending) - 1
<1>1. Sending' = Sending \ {t} /\ t \in Sending
  BY DEF Sending, TypeOK
<1>2. Cardinality(Sending) # 0
  BY <1>1, SendingType, FS_EmptySet
<1>3. Cardinality(Sending \ {t}) = Cardinality(Sending) - 1
  BY <1>1, SendingType, FS_RemoveElement
<1>4. Cardinality(Sending)' = Cardinality(Sending \ {t})
  BY <1>1
<1> QED BY <1>2, <1>3, <1>4, SendingType

-----------------------------------------------------------------------------
(* What the steps of the worker do to the jobs that wait.                  *)

Waits(chs) == CountIn(deferred, chs) + CountIn(queue, chs)

LEMMA WaitsType == TypeOK => \A chs : Waits(chs) \in Nat
  BY CountNat DEF TypeOK, Waits

LEMMA TakenJob ==
    ASSUME TypeOK, NEW job \in Jobs, TakesNext(job)
    PROVE  /\ queue' \in Seq(Jobs) /\ Len(queue') <= QueueDepth
           /\ deferred' \in Seq(Jobs) /\ Len(deferred') <= 1
           /\ \A chs : Waits(chs) = Waits(chs)' + IF job \in chs THEN 1 ELSE 0
<1>1. queue \in Seq(Jobs) /\ Len(queue) <= QueueDepth
      /\ deferred \in Seq(Jobs) /\ Len(deferred) <= 1
  BY DEF TypeOK
<1>2. CASE deferred = <<job>> /\ deferred' = <<>> /\ UNCHANGED queue
  <2>1. deferred' \in Seq(Jobs) /\ Len(deferred') <= 1
    BY <1>2
  <2>2. ASSUME NEW chs PROVE Waits(chs) = Waits(chs)' + IF job \in chs THEN 1 ELSE 0
    <3>1. CountIn(deferred, chs) = IF job \in chs THEN 1 ELSE 0
      BY <1>2, CountOne
    <3>2. CountIn(deferred', chs) = 0 /\ CountIn(queue', chs) = CountIn(queue, chs)
      BY <1>2, CountEmpty
    <3> QED BY <3>1, <3>2, <1>1, CountNat DEF Waits
  <2> QED BY <1>1, <1>2, <2>1, <2>2
<1>3. CASE /\ deferred = <<>> /\ UNCHANGED deferred
           /\ queue # <<>> /\ Head(queue) = job /\ queue' = Tail(queue)
  <2>1. queue' \in Seq(Jobs) /\ Len(queue') <= QueueDepth
    BY <1>1, <1>3
  <2>2. ASSUME NEW chs PROVE Waits(chs) = Waits(chs)' + IF job \in chs THEN 1 ELSE 0
    <3>1. CountIn(queue, chs) = CountIn(queue', chs) + IF job \in chs THEN 1 ELSE 0
      BY <1>1, <1>3, CountTail
    <3>2. CountIn(deferred', chs) = CountIn(deferred, chs)
      BY <1>3
    <3> QED BY <3>1, <3>2, <1>1, <2>1, CountNat DEF Waits
  <2> QED BY <1>1, <1>3, <2>1, <2>2
<1> QED BY <1>2, <1>3 DEF TakesNext

LEMMA AddedJob ==
    ASSUME TypeOK, NEW job \in Jobs, Len(queue) < QueueDepth,
           queue' = Append(queue, job), UNCHANGED deferred
    PROVE  /\ queue' \in Seq(Jobs) /\ Len(queue') <= QueueDepth
           /\ \A chs : Waits(chs)' = Waits(chs) + IF job \in chs THEN 1 ELSE 0
<1>1. queue \in Seq(Jobs) /\ deferred \in Seq(Jobs)
  BY DEF TypeOK
<1>2. queue' \in Seq(Jobs) /\ Len(queue') <= QueueDepth
  BY <1>1
<1>3. ASSUME NEW chs PROVE Waits(chs)' = Waits(chs) + IF job \in chs THEN 1 ELSE 0
  <2>1. CountIn(queue', chs) = CountIn(queue, chs) + IF job \in chs THEN 1 ELSE 0
    BY <1>1, CountAppend
  <2>2. CountIn(deferred', chs) = CountIn(deferred, chs)
    OBVIOUS
  <2> QED BY <2>1, <2>2, <1>1, CountNat DEF Waits
<1> QED BY <1>2, <1>3

LEMMA MergedJob ==
    ASSUME TypeOK, Merge
    PROVE  /\ queue' \in Seq(Jobs) /\ Len(queue') <= QueueDepth
           /\ \A chs : Waits(chs) = Waits(chs)' + IF building \in chs THEN 1 ELSE 0
<1>1. queue \in Seq(Jobs) /\ deferred \in Seq(Jobs) /\ Len(queue) <= QueueDepth
      /\ queue # <<>> /\ Head(queue) = building /\ queue' = Tail(queue)
      /\ UNCHANGED deferred
  BY DEF TypeOK, Merge, Combines
<1>2. queue' \in Seq(Jobs) /\ Len(queue') <= QueueDepth
  BY <1>1
<1>3. ASSUME NEW chs PROVE Waits(chs) = Waits(chs)' + IF building \in chs THEN 1 ELSE 0
  <2>1. CountIn(queue, chs) = CountIn(queue', chs) + IF building \in chs THEN 1 ELSE 0
    BY <1>1, CountTail
  <2>2. CountIn(deferred', chs) = CountIn(deferred, chs)
    BY <1>1
  <2>3. CountIn(queue', chs) \in Nat /\ CountIn(deferred, chs) \in Nat
    BY <1>1, <1>2, CountNat
  <2> QED BY <2>1, <2>2, <2>3 DEF Waits
<1> QED BY <1>2, <1>3

LEMMA DeferredJob ==
    ASSUME TypeOK, Defer
    PROVE  /\ queue' \in Seq(Jobs) /\ Len(queue') <= QueueDepth
           /\ deferred' \in Seq(Jobs) /\ Len(deferred') <= 1
           /\ \A chs : Waits(chs)' = Waits(chs)
<1> DEFINE job == Head(queue)
<1>1. /\ queue \in Seq(Jobs) /\ Len(queue) <= QueueDepth /\ queue # <<>>
      /\ deferred = <<>> /\ queue' = Tail(queue) /\ deferred' = <<job>>
  BY DEF TypeOK, Defer, Combines
<1>2. queue' \in Seq(Jobs) /\ Len(queue') <= QueueDepth /\ job \in Jobs
  BY <1>1
<1>3. deferred' \in Seq(Jobs) /\ Len(deferred') <= 1
  BY <1>1, <1>2
<1> HIDE DEF job
<1>4. ASSUME NEW chs PROVE Waits(chs)' = Waits(chs)
  <2>1. CountIn(queue, chs) = CountIn(queue', chs) + IF job \in chs THEN 1 ELSE 0
    BY <1>1, CountTail DEF job
  <2>2. CountIn(deferred', chs) = IF job \in chs THEN 1 ELSE 0
    BY <1>1, <1>2, CountOne
  <2>3. CountIn(deferred, chs) = 0
    BY <1>1, CountEmpty
  <2>4. CountIn(queue', chs) \in Nat
    BY <1>2, CountNat
  <2> QED BY <2>1, <2>2, <2>3, <2>4 DEF Waits
<1> QED BY <1>2, <1>3, <1>4

LEMMA GivenSlot == TypeOK /\ GiveSlot => slots' \in 0 .. SlotDepth
  BY DEF TypeOK, GiveSlot

LEMMA Uncounted ==
    ASSUME TypeOK, NEW ch \in Ethernet, Uncount(ch)
    PROVE  queued' \in [Ethernet -> Nat]
  BY DEF TypeOK, Uncount

-----------------------------------------------------------------------------
(* Type correctness.                                                       *)

LEMMA FrameDoneTypes ==
    ASSUME TypeOK, FrameDone
    PROVE  /\ building \in Ethernet /\ units \in Nat
           /\ building' = NoChannel /\ units' = 0
           /\ queued' \in [Ethernet -> Nat] /\ stale' \in [Ethernet -> Nat]
<1>1. building \in Ethernet /\ units \in Nat
  BY DEF TypeOK, FrameDone, Jobs
<1>2. queued' \in [Ethernet -> Nat]
  BY <1>1, Uncounted DEF FrameDone
<1>3. stale' \in [Ethernet -> Nat]
  BY <1>1 DEF TypeOK, FrameDone
<1> QED BY <1>1, <1>2, <1>3 DEF FrameDone

LEMMA OwedNat == TypeOK => \A ch \in Ethernet : Owed(ch) \in Nat
  BY CountNat DEF TypeOK, Owed

LEMMA ReplacedTypes ==
    ASSUME TypeOK, ReplaceCredit
    PROVE  credit' \in [Ethernet -> 0 .. MaxCredit] /\ stale' \in [Ethernet -> Nat]
  BY OwedNat DEF ReplaceCredit

(* The state of HostEthernetTx has its type in every behaviour.            *)
THEOREM TypeCorrect == Spec => []TypeOK
<1>1. ASSUME Init PROVE TypeOK
  <2>1. <<>> \in Seq(Jobs) /\ Len(<<>>) = 0
    OBVIOUS
  <2> QED BY <1>1, <2>1 DEF Init, TypeOK, Jobs
<1>2. TypeOK /\ [Next]_vars => TypeOK'
  <2> SUFFICES ASSUME TypeOK, [Next]_vars PROVE TypeOK'
    OBVIOUS
  <2> USE DEF Jobs
  <2>1. ASSUME NEW t \in Threads, NEW ch \in Ethernet, TakeSlot(t, ch) PROVE TypeOK'
    BY <2>1 DEF TakeSlot, TypeOK
  <2>2. ASSUME NEW t \in Threads, Admit(t) PROVE TypeOK'
    <3>1. thread[t] \in Ethernet
      BY <2>2 DEF Admit, TypeOK
    <3>2. queue' \in Seq(Jobs) /\ Len(queue') <= QueueDepth
      BY <2>2, <3>1, AddedJob DEF Admit
    <3>3. queued' \in [Ethernet -> Nat]
      BY <2>2, <3>1 DEF Admit, TypeOK
    <3> QED BY <2>2, <3>2, <3>3 DEF Admit, TypeOK
  <2>3. ASSUME NEW t \in Threads, Refuse(t) PROVE TypeOK'
    BY <2>3, GivenSlot DEF Refuse, TypeOK
  <2>4. CASE OtherJob
    <3>1. queue' \in Seq(Jobs) /\ Len(queue') <= QueueDepth
      BY <2>4, AddedJob DEF OtherJob
    <3> QED BY <2>4, <3>1 DEF OtherJob, TypeOK
  <2>5. ASSUME NEW ch \in Ethernet, BeginFrame(ch) PROVE TypeOK'
    BY <2>5, TakenJob DEF BeginFrame, TypeOK
  <2>6. CASE Merge
    <3>1. queued' \in [Ethernet -> Nat]
      BY <2>6, Uncounted DEF Merge, Combines, TypeOK
    <3> QED BY <2>6, <3>1, MergedJob, GivenSlot DEF Merge, TypeOK
  <2>7. CASE Defer
    BY <2>7, DeferredJob DEF Defer, TypeOK
  <2>8. CASE FrameSent
    <3>1. credit' \in [Ethernet -> 0 .. MaxCredit]
      BY <2>8, FrameDoneTypes DEF FrameSent, TypeOK
    <3> QED BY <2>8, <3>1, FrameDoneTypes DEF FrameSent, TypeOK
  <2>9. CASE FrameFails
    BY <2>9, FrameDoneTypes, GivenSlot DEF FrameFails, TypeOK
  <2>10. CASE HandleOther
    <3>1. credit' \in [Ethernet -> 0 .. MaxCredit]
      <4>1. CASE CreditUpdate
        <5>1. credit \in [Ethernet -> 0 .. MaxCredit]
          BY DEF TypeOK
        <5>2. \A n \in 0 .. MaxCredit : AddOneCredit(n) \in 0 .. MaxCredit
          BY HostEthernetTxAssumption DEF AddOneCredit
        <5> QED BY <4>1, <5>1, <5>2 DEF CreditUpdate
      <4>2. CASE credit' = credit
        BY <4>2 DEF TypeOK
      <4> QED BY <2>10, <4>1, <4>2, ReplacedTypes DEF HandleOther
    <3>2. stale' \in [Ethernet -> Nat] /\ queued' \in [Ethernet -> Nat]
      BY <2>10, ReplacedTypes DEF HandleOther, CreditUpdate, ReplaceCredit, TypeOK
    <3> QED BY <2>10, <3>1, <3>2, TakenJob DEF HandleOther, TypeOK
  <2>11. CASE HandleStop
    BY <2>11, TakenJob DEF HandleStop, TypeOK
  <2>12. CASE HeartbeatTimeout
    BY <2>12, ReplacedTypes DEF HeartbeatTimeout, ReplaceCredit, TypeOK
  <2>13. CASE TxComplete
    BY <2>13, GivenSlot DEF TxComplete, TypeOK
  <2>14. CASE StopReturns
    <3>1. <<>> \in Seq(Jobs) /\ Len(<<>>) = 0
      OBVIOUS
    <3>2. orphaned' \in [Ethernet -> Nat]
      BY <2>14, OwedNat DEF StopReturns, TypeOK
    <3> QED BY <2>14, <3>1, <3>2 DEF StopReturns, TypeOK
  <2>15. CASE Start
    BY <2>15 DEF Start, TypeOK
  <2>16. CASE UNCHANGED vars
    BY <2>16 DEF vars, TypeOK
  <2> QED
    BY <2>1, <2>2, <2>3, <2>4, <2>5, <2>6, <2>7, <2>8, <2>9, <2>10, <2>11, <2>12,
       <2>13, <2>14, <2>15, <2>16 DEF Next, EthernetSend, Worker
<1> QED BY <1>1, <1>2, PTL DEF Spec

-----------------------------------------------------------------------------
(* Slots.                                                                  *)

(* Nothing is left over when the queue and the semaphore are destroyed:    *)
(* the fresh semaphore of the next start then accounts for everything.     *)
StopInv ==
    /\ building # NoChannel => phase = "running"
    /\ phase = "stopped" =>
          Sending = {} /\ inflight = 0 /\ queue = <<>> /\ deferred = <<>>

(* The slots in use, and conservation in terms of them.                    *)
Used == Cardinality(Sending) + Waits(Ethernet)
            + (IF building = NoChannel THEN 0 ELSE 1) + inflight

LEMMA UsedType ==
    TypeOK => Used \in Nat /\ (SlotsConserved <=> (phase # "stopped" => slots + Used = SlotDepth))
<1> SUFFICES ASSUME TypeOK
             PROVE  Used \in Nat /\ (SlotsConserved <=> (phase # "stopped" => slots + Used = SlotDepth))
  OBVIOUS
<1>1. /\ CountIn(deferred, Ethernet) \in Nat /\ CountIn(queue, Ethernet) \in Nat
      /\ Cardinality(Sending) \in Nat /\ inflight \in Nat /\ slots \in Nat
  BY CountNat, SendingType DEF TypeOK
<1> QED BY <1>1 DEF Used, Waits, SlotsConserved

LEMMA SlotGivenBack ==
    ASSUME TypeOK, slots + Used = SlotDepth, Used > 0, GiveSlot
    PROVE  slots' = slots + 1
  BY UsedType DEF TypeOK, GiveSlot

LEMMA SlotStep ==
    ASSUME TypeOK, TypeOK', StopInv, SlotsConserved, [Next]_vars
    PROVE  StopInv' /\ SlotsConserved'
<1> DEFINE Conserved == phase # "stopped" => slots + Used = SlotDepth
<1> SUFFICES StopInv' /\ Conserved'
  BY UsedType, PTL
<1>a. /\ Conserved /\ Used \in Nat /\ slots \in 0 .. SlotDepth
      /\ Cardinality(Sending) \in Nat /\ inflight \in Nat /\ Waits(Ethernet) \in Nat
  BY UsedType, SendingType, WaitsType DEF TypeOK
<1>b. Waits(Ethernet)' \in Nat
  BY CountNat DEF TypeOK, Waits
<1>1. ASSUME NEW t \in Threads, NEW ch \in Ethernet, TakeSlot(t, ch)
      PROVE  StopInv' /\ Conserved'
  <2>1. Cardinality(Sending)' = Cardinality(Sending) + 1 /\ Waits(Ethernet)' = Waits(Ethernet)
    BY <1>1, SendingEnters DEF TakeSlot, Waits
  <2>2. Used' = Used + 1
    BY <1>1, <1>a, <2>1 DEF TakeSlot, Used
  <2> QED BY <1>1, <1>a, <2>2 DEF TakeSlot, StopInv
<1>2. ASSUME NEW t \in Threads, Admit(t) PROVE StopInv' /\ Conserved'
  <2>1. phase # "stopped" /\ thread[t] \in Ethernet /\ thread[t] \in Jobs
    BY <1>2 DEF Admit, StopInv, Sending, TypeOK, Jobs
  <2>2. /\ Cardinality(Sending) > 0
        /\ Cardinality(Sending)' = Cardinality(Sending) - 1
    BY <1>2, SendingLeaves DEF Admit
  <2>3. Waits(Ethernet)' = Waits(Ethernet) + 1
    BY <1>2, <2>1, AddedJob DEF Admit
  <2>4. Used' = Used
    BY <1>2, <1>a, <2>2, <2>3 DEF Admit, Used
  <2> QED BY <1>2, <1>a, <2>1, <2>4 DEF Admit, StopInv
<1>3. ASSUME NEW t \in Threads, Refuse(t) PROVE StopInv' /\ Conserved'
  <2>1. phase # "stopped"
    BY <1>3 DEF Refuse, StopInv, Sending, TypeOK
  <2>2. /\ Cardinality(Sending) > 0 /\ Waits(Ethernet)' = Waits(Ethernet)
        /\ Cardinality(Sending)' = Cardinality(Sending) - 1
    BY <1>3, SendingLeaves DEF Refuse, Waits
  <2>3. Used > 0 /\ Used' = Used - 1
    BY <1>3, <1>a, <2>2 DEF Refuse, Used
  <2>4. slots' = slots + 1
    BY <1>3, <1>a, <2>1, <2>3, SlotGivenBack DEF Refuse
  <2> QED BY <1>3, <1>a, <2>1, <2>3, <2>4 DEF Refuse, StopInv
<1>4. CASE OtherJob
  <2>1. Waits(Ethernet)' = Waits(Ethernet)
    BY <1>4, <1>a, AddedJob DEF OtherJob, Jobs
  <2>2. Used' = Used
    BY <1>4, <2>1 DEF OtherJob, Used, Sending
  <2>3. /\ slots' = slots /\ phase' = phase /\ phase # "stopped"
        /\ building' = building
    BY <1>4 DEF OtherJob
  <2> QED BY <1>a, <2>2, <2>3 DEF StopInv
<1>5. ASSUME NEW ch \in Ethernet, BeginFrame(ch) PROVE StopInv' /\ Conserved'
  <2>1. Waits(Ethernet) = Waits(Ethernet)' + 1
    BY <1>5, TakenJob DEF BeginFrame, Jobs
  <2>2. Used' = Used
    BY <1>5, <1>a, <1>b, <2>1 DEF BeginFrame, TakesNext, Used, Sending
  <2>3. slots' = slots /\ phase' = phase /\ phase = "running"
    BY <1>5 DEF BeginFrame, TakesNext
  <2> QED BY <1>5, <1>a, <2>2, <2>3 DEF BeginFrame, TakesNext, StopInv
<1>6. CASE Merge
  <2>1. Waits(Ethernet) = Waits(Ethernet)' + 1 /\ building # NoChannel /\ phase = "running"
    BY <1>6, MergedJob DEF Merge, Combines, TypeOK, Jobs, StopInv
  <2>2. Used > 0 /\ Used' = Used - 1
    <3>1. Sending' = Sending /\ building' = building /\ inflight' = inflight
      BY <1>6 DEF Merge, Sending
    <3> QED BY <1>a, <1>b, <2>1, <3>1 DEF Used
  <2>3. slots' = slots + 1
    BY <1>6, <1>a, <2>1, <2>2, SlotGivenBack DEF Merge
  <2> QED BY <1>6, <1>a, <2>1, <2>2, <2>3 DEF Merge, StopInv
<1>7. CASE Defer
  <2>1. Waits(Ethernet)' = Waits(Ethernet)
    BY <1>7, DeferredJob
  <2>2. Used' = Used /\ phase = "running"
    BY <1>7, <2>1 DEF Defer, Combines, Used, Sending, StopInv
  <2> QED BY <1>7, <1>a, <2>2 DEF Defer, StopInv
<1>8. CASE FrameSent
  <2>1. Waits(Ethernet)' = Waits(Ethernet) /\ phase = "running" /\ building # NoChannel
    BY <1>8 DEF FrameSent, FrameDone, Waits, StopInv
  <2>2. Used' = Used
    BY <1>8, <1>a, <2>1 DEF FrameSent, FrameDone, Used, Sending
  <2> QED BY <1>8, <1>a, <2>1, <2>2 DEF FrameSent, FrameDone, StopInv
<1>9. CASE FrameFails
  <2>1. Waits(Ethernet)' = Waits(Ethernet) /\ phase = "running" /\ building # NoChannel
    BY <1>9 DEF FrameFails, FrameDone, Waits, StopInv
  <2>2. Used > 0 /\ Used' = Used - 1
    BY <1>9, <1>a, <2>1 DEF FrameFails, FrameDone, Used, Sending
  <2>3. slots' = slots + 1
    BY <1>9, <1>a, <2>1, <2>2, SlotGivenBack DEF FrameFails
  <2> QED BY <1>9, <1>a, <2>1, <2>2, <2>3 DEF FrameFails, FrameDone, StopInv
<1>10. CASE HandleOther \/ HandleStop
  <2>1. TakesNext(NoChannel) /\ NoChannel \in Jobs
    BY <1>10 DEF HandleOther, HandleStop, Jobs
  <2>2. Waits(Ethernet)' = Waits(Ethernet)
    BY <1>b, <2>1, TakenJob
  <2>3. Used' = Used
    BY <1>10, <2>2 DEF HandleOther, HandleStop, Used, Sending
  <2> QED BY <1>10, <1>a, <2>1, <2>3 DEF HandleOther, HandleStop, TakesNext, StopInv
<1>11. CASE HeartbeatTimeout \/ UNCHANGED vars
  <2>1. UNCHANGED <<phase, slots, thread, queue, deferred, building, inflight>>
    BY <1>11 DEF HeartbeatTimeout, vars
  <2>2. Used' = Used
    BY <2>1 DEF Used, Sending, Waits
  <2> QED BY <1>a, <2>1, <2>2 DEF StopInv, Sending
<1>12. CASE TxComplete
  <2>1. Waits(Ethernet)' = Waits(Ethernet) /\ phase # "stopped"
    BY <1>12 DEF TxComplete, Waits, StopInv
  <2>2. Used > 0 /\ Used' = Used - 1
    BY <1>12, <1>a, <2>1 DEF TxComplete, Used, Sending
  <2>3. slots' = slots + 1
    BY <1>12, <1>a, <2>1, <2>2, SlotGivenBack DEF TxComplete
  <2> QED BY <1>12, <1>a, <2>1, <2>2, <2>3 DEF TxComplete, StopInv
<1>13. CASE StopReturns
  BY <1>13 DEF StopReturns, StopInv, Sending
<1>14. CASE Start
  <2>1. /\ Sending' = {} /\ Waits(Ethernet)' = 0 /\ building' = NoChannel
        /\ inflight' = 0 /\ slots' = SlotDepth
    BY <1>14, CountEmpty DEF Start, StopInv, Sending, Waits
  <2>2. Used' = 0
    BY <2>1, FS_EmptySet DEF Used
  <2> QED BY <1>14, <2>1, <2>2 DEF Start, StopInv
<1> QED
  BY <1>1, <1>2, <1>3, <1>4, <1>5, <1>6, <1>7, <1>8, <1>9, <1>10, <1>11, <1>12,
     <1>13, <1>14 DEF Next, EthernetSend, Worker

(* Conservation, with what makes it inductive.                             *)
LEMMA SlotInvariant == Spec => [](StopInv /\ SlotsConserved)
<1>1. Init => StopInv /\ SlotsConserved
  <2> SUFFICES ASSUME Init PROVE StopInv /\ SlotsConserved
    OBVIOUS
  <2>1. Cardinality(Sending) = 0
    BY FS_EmptySet DEF Init, Sending
  <2>2. CountIn(queue, Ethernet) = 0 /\ CountIn(deferred, Ethernet) = 0
    BY CountEmpty DEF Init
  <2> QED BY <2>1, <2>2 DEF Init, StopInv, SlotsConserved
<1> QED BY <1>1, SlotStep, TypeCorrect, PTL DEF Spec

(* The slots are conserved, whatever is merged, deferred, refused, failed, *)
(* completed or restarted (ethernet_tx_slots).                             *)
THEOREM SlotsAreConserved == Spec => []SlotsConserved
  BY SlotInvariant, PTL

-----------------------------------------------------------------------------
(* Credit.                                                                 *)

(* The records of a channel the counter stands for, and both properties in *)
(* terms of the records that wait.                                         *)
Counted(ch) == Waits({ch}) + IF building = ch THEN 1 ELSE 0

CreditInv ==
    \A ch \in Ethernet :
        /\ queued[ch] = Counted(ch) + orphaned[ch]
        /\ Owed(ch) > stale[ch] => Owed(ch) <= credit[ch]

LEMMA CreditParts == CreditInv <=> CountersExact /\ AdmittedIsCovered
<1>1. \A ch \in Ethernet : Counted(ch) + orphaned[ch] =
          CountIn(deferred, {ch}) + CountIn(queue, {ch})
              + (IF building = ch THEN 1 ELSE 0) + orphaned[ch]
  BY DEF Counted, Waits
<1> QED BY <1>1 DEF CreditInv, CountersExact, AdmittedIsCovered

LEMMA OwedType ==
    ASSUME TypeOK, NEW ch \in Ethernet
    PROVE  /\ Owed(ch) = Waits({ch}) + IF building = ch THEN units ELSE 0
           /\ Owed(ch) \in Nat /\ Waits({ch}) \in Nat /\ Counted(ch) \in Nat
           /\ queued[ch] \in Nat /\ stale[ch] \in Nat /\ credit[ch] \in Nat
<1>1. Waits({ch}) \in Nat /\ units \in Nat
  BY WaitsType DEF TypeOK
<1>2. Owed(ch) = Waits({ch}) + IF building = ch THEN units ELSE 0
  BY DEF Owed, Waits
<1> QED BY <1>1, <1>2 DEF Counted, TypeOK

LEMMA CreditStep ==
    ASSUME TypeOK, TypeOK', StopInv, CreditInv, [Next]_vars
    PROVE  CreditInv'
<1> SUFFICES ASSUME NEW ch \in Ethernet
             PROVE  /\ queued'[ch] = Counted(ch)' + orphaned'[ch]
                    /\ Owed(ch)' > stale'[ch] => Owed(ch)' <= credit'[ch]
  BY DEF CreditInv
<1> DEFINE W == Waits({ch})
           Goal == /\ queued'[ch] = Counted(ch)' + orphaned'[ch]
                   /\ Owed(ch)' > stale'[ch] => Owed(ch)' <= credit'[ch]
<1>a. /\ Owed(ch) = W + IF building = ch THEN units ELSE 0
      /\ Counted(ch) = W + IF building = ch THEN 1 ELSE 0
      /\ W \in Nat /\ units \in Nat
      /\ queued[ch] \in Nat /\ stale[ch] \in Nat /\ credit[ch] \in Nat
      /\ orphaned[ch] \in Nat
  BY OwedType DEF Counted, TypeOK
<1>b. /\ Owed(ch)' = W' + IF building' = ch THEN units' ELSE 0
      /\ Counted(ch)' = W' + IF building' = ch THEN 1 ELSE 0
      /\ W' \in Nat /\ units' \in Nat
  <2>1. W' \in Nat
    <3>1. queue' \in Seq(Jobs) /\ deferred' \in Seq(Jobs)
      BY DEF TypeOK
    <3>2. CountIn(queue', {ch}) \in Nat /\ CountIn(deferred', {ch}) \in Nat
      BY <3>1, CountNat
    <3> QED BY <3>2 DEF Waits
  <2>2. units' \in Nat
    BY DEF TypeOK
  <2>3. Owed(ch)' = W' + IF building' = ch THEN units' ELSE 0
    BY Zenon DEF Owed, Waits
  <2>4. Counted(ch)' = W' + IF building' = ch THEN 1 ELSE 0
    BY Zenon DEF Counted
  <2> QED BY <2>1, <2>2, <2>3, <2>4
<1>c. /\ queued[ch] = Counted(ch) + orphaned[ch]
      /\ (Owed(ch) > stale[ch] => Owed(ch) <= credit[ch])
  BY DEF CreditInv
<1>d. ch \in Jobs /\ NoChannel \in Jobs /\ NoChannel # ch
  BY DEF Jobs
<1>1. ASSUME W' = W, UNCHANGED <<building, units, queued, credit, stale, orphaned>>
      PROVE  Goal
  BY <1>1, <1>a, <1>b, <1>c
<1>2. ASSUME NEW t \in Threads, Admit(t) PROVE Goal
  <2>1. thread[t] \in Ethernet /\ thread[t] \in Jobs
    BY <1>2 DEF Admit, TypeOK, Jobs
  <2>2. W' = W + IF thread[t] = ch THEN 1 ELSE 0
    BY <1>2, <2>1, AddedJob DEF Admit
  <2>3. queued'[ch] = queued[ch] + IF thread[t] = ch THEN 1 ELSE 0
    BY <1>2, <1>a, <2>1 DEF Admit, TypeOK
  <2>4. /\ building = NoChannel /\ UNCHANGED <<building, units, credit, stale, orphaned>>
        /\ thread[t] = ch => credit[ch] > queued[ch]
    BY <1>2 DEF Admit, HasCredit
  <2> HIDE DEF W
  <2>5. CASE thread[t] = ch
    BY <1>a, <1>b, <1>c, <1>d, <2>2, <2>3, <2>4, <2>5
  <2>6. CASE thread[t] # ch
    BY <1>a, <1>b, <1>c, <1>d, <2>2, <2>3, <2>4, <2>6
  <2> QED BY <2>5, <2>6
<1>3. CASE OtherJob
  <2>1. W' = W
    BY <1>3, <1>a, <1>d, AddedJob DEF OtherJob
  <2> QED BY <1>1, <1>3, <2>1 DEF OtherJob
<1>4. ASSUME NEW d \in Ethernet, BeginFrame(d) PROVE Goal
  <2>1. W = W' + IF d = ch THEN 1 ELSE 0
    BY <1>4, TakenJob DEF BeginFrame, Jobs
  <2>2. /\ building = NoChannel /\ building' = d /\ units' = 1
        /\ UNCHANGED <<queued, credit, stale, orphaned>>
    BY <1>4 DEF BeginFrame, TakesNext
  <2> HIDE DEF W
  <2> QED BY <1>a, <1>b, <1>c, <1>d, <2>1, <2>2
<1>5. CASE Merge
  <2>1. W = W' + IF building = ch THEN 1 ELSE 0
    BY <1>5, MergedJob
  <2>2. units' = units + 1 /\ UNCHANGED <<building, credit, stale, orphaned>>
    BY <1>5 DEF Merge
  <2>3. queued'[ch] = IF building = ch /\ queued[ch] > 0 THEN queued[ch] - 1 ELSE queued[ch]
    BY <1>5 DEF Merge, Uncount, TypeOK
  <2> HIDE DEF W
  <2>4. CASE building = ch
    BY <1>a, <1>b, <1>c, <2>1, <2>2, <2>3, <2>4
  <2>5. CASE building # ch
    BY <1>a, <1>b, <1>c, <2>1, <2>2, <2>3, <2>5
  <2> QED BY <2>4, <2>5
<1>6. CASE Defer
  <2>1. W' = W
    BY <1>6, DeferredJob
  <2> QED BY <1>1, <1>6, <2>1 DEF Defer
<1>7. ASSUME FrameDone, W' = W, orphaned' = orphaned,
             credit'[ch] = credit[ch] - IF building = ch /\ credit'[ch] # credit[ch]
                                          THEN units ELSE 0
      PROVE  Goal
  <2>1. /\ building' = NoChannel
        /\ queued'[ch] = IF building = ch /\ queued[ch] > 0 THEN queued[ch] - 1 ELSE queued[ch]
        /\ stale'[ch] = IF building = ch
                          THEN IF stale[ch] > units THEN stale[ch] - units ELSE 0
                          ELSE stale[ch]
    BY <1>7 DEF FrameDone, Uncount, TypeOK
  <2> HIDE DEF W
  <2>2. CASE building = ch
    BY <1>7, <1>a, <1>b, <1>c, <1>d, <2>1, <2>2
  <2>3. CASE building # ch
    BY <1>7, <1>a, <1>b, <1>c, <1>d, <2>1, <2>3
  <2> QED BY <2>2, <2>3
<1>8. CASE FrameSent
  <2>1. /\ FrameDone /\ W' = W /\ orphaned' = orphaned
        /\ credit'[ch] = IF building = ch THEN credit[ch] - units ELSE credit[ch]
    BY <1>8 DEF FrameSent, Waits, TypeOK
  <2>2. credit'[ch] = credit[ch] - IF building = ch /\ credit'[ch] # credit[ch]
                                     THEN units ELSE 0
    BY <2>1, <1>a
  <2> QED BY <1>7, <2>1, <2>2
<1>9. CASE FrameFails
  <2>1. FrameDone /\ W' = W /\ credit'[ch] = credit[ch] /\ orphaned' = orphaned
    BY <1>9 DEF FrameFails, Waits
  <2> QED BY <1>7, <1>a, <2>1
<1>10. ASSUME ReplaceCredit, W' = W, UNCHANGED <<building, units, orphaned>> PROVE Goal
  <2>1. stale'[ch] = Owed(ch) /\ queued' = queued
    BY <1>10 DEF ReplaceCredit
  <2> HIDE DEF W
  <2> QED BY <1>10, <1>a, <1>b, <1>c, <2>1
<1>11. CASE HandleOther
  <2>1. W' = W /\ UNCHANGED <<building, units, orphaned>>
    BY <1>11, <1>b, <1>d, TakenJob DEF HandleOther
  <2>2. CASE CreditUpdate
    <3>1. /\ queued' = queued /\ stale' = stale
          /\ credit'[ch] >= credit[ch] /\ credit'[ch] \in Nat
      <4>1. credit'[ch] \in {credit[ch], AddOneCredit(credit[ch])}
        BY <2>2 DEF CreditUpdate, TypeOK
      <4> QED BY <1>a, <2>2, <4>1 DEF CreditUpdate, AddOneCredit
    <3> HIDE DEF W
    <3> QED BY <1>a, <1>b, <1>c, <2>1, <3>1
  <2> QED BY <1>1, <1>10, <1>11, <2>1, <2>2 DEF HandleOther
<1>12. CASE HandleStop
  <2>1. W' = W
    BY <1>12, <1>b, <1>d, TakenJob DEF HandleStop
  <2> QED BY <1>1, <1>12, <2>1 DEF HandleStop
<1>13. CASE HeartbeatTimeout
  BY <1>10, <1>13 DEF HeartbeatTimeout, Waits
<1>14. CASE StopReturns
  <2>1. W' = 0 /\ building = NoChannel
    BY <1>14, CountEmpty DEF StopReturns, StopInv, Waits
  <2>2. /\ UNCHANGED <<building, units, queued, credit, stale>>
        /\ orphaned'[ch] = orphaned[ch] + Owed(ch)
    BY <1>14 DEF StopReturns
  <2> HIDE DEF W
  <2> QED BY <1>a, <1>b, <1>c, <1>d, <2>1, <2>2
<1>15. CASE \/ TxComplete \/ Start \/ UNCHANGED vars
            \/ \E t \in Threads : Refuse(t) \/ \E d \in Ethernet : TakeSlot(t, d)
  <2>1. W' = W /\ UNCHANGED <<building, units, queued, credit, stale, orphaned>>
    BY <1>15 DEF TxComplete, Start, vars, Refuse, TakeSlot, Waits
  <2> QED BY <1>1, <2>1
<1> QED
  BY <1>2, <1>3, <1>4, <1>5, <1>6, <1>8, <1>9, <1>11, <1>12, <1>13, <1>14, <1>15
     DEF Next, EthernetSend, Worker

(* Both credit properties together; each needs the other.                  *)
LEMMA CreditInvariant == Spec => []CreditInv
<1>1. Init => CreditInv
  <2> SUFFICES ASSUME Init, NEW ch \in Ethernet
               PROVE  queued[ch] = Counted(ch) + orphaned[ch] /\ ~(Owed(ch) > stale[ch])
    BY DEF CreditInv
  <2>1. CountIn(queue, {ch}) = 0 /\ CountIn(deferred, {ch}) = 0 /\ building # ch
    BY CountEmpty DEF Init
  <2> QED BY <2>1 DEF Init, Counted, Waits, Owed
<1> QED BY <1>1, CreditStep, TypeCorrect, SlotInvariant, PTL DEF Spec

(* The admission counter of a channel is the number of its records that    *)
(* wait, over any number of threads, channels and runs, but for those that *)
(* went with the queue of an earlier run (ethernet_tx_queued).             *)
THEOREM CountersAreExact == Spec => []CountersExact
<1>1. CreditInv => CountersExact
  BY CreditParts
<1> QED BY <1>1, CreditInvariant, PTL

(* Success of ethernet_send means there is credit for the record, unless   *)
(* the credit itself has been replaced since (host.h:317).                 *)
THEOREM AdmissionIsSafe == Spec => []AdmittedIsCovered
<1>1. CreditInv => AdmittedIsCovered
  BY CreditParts
<1> QED BY <1>1, CreditInvariant, PTL

-----------------------------------------------------------------------------
(* Order.                                                                  *)

Removes(n) == Waiting' = SubSeq(Waiting, n + 1, Len(Waiting))

InOrder == \/ \E n \in 0 .. Len(Waiting) : Removes(n)
           \/ \E job \in Jobs : Waiting' = Append(Waiting, job)

LEMMA WaitingType ==
    ASSUME TypeOK
    PROVE  /\ deferred \in Seq(Jobs) /\ queue \in Seq(Jobs) /\ Waiting \in Seq(Jobs)
           /\ deferred = <<>> => Waiting = queue
  BY DEF TypeOK, Waiting

LEMMA SameOrder == ASSUME TypeOK, Waiting' = Waiting PROVE InOrder
<1>1. Removes(0) /\ 0 \in 0 .. Len(Waiting)
  BY WaitingType DEF Removes
<1> QED BY <1>1 DEF InOrder

LEMMA HeadServed == ASSUME TypeOK, Waiting # <<>>, Waiting' = Tail(Waiting) PROVE InOrder
<1>1. Removes(1) /\ 1 \in 0 .. Len(Waiting)
  BY WaitingType DEF Removes
<1> QED BY <1>1 DEF InOrder

LEMMA JobAdded ==
    ASSUME TypeOK, NEW job \in Jobs, queue' = Append(queue, job), UNCHANGED deferred
    PROVE  InOrder
<1>1. Waiting' = Append(Waiting, job)
  BY WaitingType DEF Waiting
<1> QED BY <1>1 DEF InOrder

LEMMA NextServed ==
    ASSUME TypeOK, NEW job \in Jobs, TakesNext(job)
    PROVE  InOrder
<1>1. CASE deferred = <<job>> /\ deferred' = <<>> /\ UNCHANGED queue
  <2>1. Waiting # <<>> /\ Waiting' = Tail(Waiting)
    BY <1>1, WaitingType DEF Waiting
  <2> QED BY <2>1, HeadServed
<1>2. CASE /\ deferred = <<>> /\ UNCHANGED deferred
           /\ queue # <<>> /\ Head(queue) = job /\ queue' = Tail(queue)
  <2>1. Waiting # <<>> /\ Waiting' = Tail(Waiting)
    BY <1>2, WaitingType DEF Waiting
  <2> QED BY <2>1, HeadServed
<1> QED BY <1>1, <1>2 DEF TakesNext

(* Jobs are served in the order they were queued, whatever is combined or  *)
(* deferred (host.c:215-219).                                              *)
THEOREM JobsServedInOrder == Spec => ServedInOrder
<1>1. TypeOK /\ [Next]_vars => InOrder
  <2> SUFFICES ASSUME TypeOK, [Next]_vars PROVE InOrder
    OBVIOUS
  <2>1. ASSUME NEW t \in Threads, Admit(t) PROVE InOrder
    BY <2>1, JobAdded DEF Admit, TypeOK
  <2>2. CASE OtherJob
    BY <2>2, JobAdded DEF OtherJob, Jobs
  <2>3. ASSUME NEW ch \in Ethernet, BeginFrame(ch) PROVE InOrder
    BY <2>3, NextServed DEF BeginFrame, Jobs
  <2>4. CASE HandleOther \/ HandleStop
    BY <2>4, NextServed DEF HandleOther, HandleStop, Jobs
  <2>5. CASE Merge
    <3>1. Waiting # <<>> /\ Waiting' = Tail(Waiting)
      BY <2>5, WaitingType DEF Merge, Combines, Waiting
    <3> QED BY <3>1, HeadServed
  <2>6. CASE Defer
    <3>1. /\ queue \in Seq(Jobs) /\ queue # <<>> /\ deferred = <<>>
          /\ deferred' = <<Head(queue)>> /\ queue' = Tail(queue)
      BY <2>6, WaitingType DEF Defer, Combines
    <3>2. <<Head(queue)>> \o Tail(queue) = queue
      BY <3>1
    <3>3. Waiting' = Waiting
      BY <3>1, <3>2 DEF Waiting
    <3> QED BY <3>3, SameOrder
  <2>7. CASE StopReturns
    <3>1. Waiting' = <<>> /\ Waiting \in Seq(Jobs)
      BY <2>7, WaitingType DEF StopReturns, Waiting
    <3>2. Removes(Len(Waiting)) /\ Len(Waiting) \in 0 .. Len(Waiting)
      BY <3>1 DEF Removes
    <3> QED BY <3>2 DEF InOrder
  <2>8. CASE \/ FrameSent \/ FrameFails \/ HeartbeatTimeout \/ TxComplete \/ Start
             \/ UNCHANGED vars
             \/ \E t \in Threads : Refuse(t) \/ \E ch \in Ethernet : TakeSlot(t, ch)
    <3>1. Waiting' = Waiting
      BY <2>8 DEF FrameSent, FrameFails, HeartbeatTimeout, TxComplete, Start, vars,
                  Refuse, TakeSlot, Waiting
    <3> QED BY <3>1, SameOrder
  <2> QED
    BY <2>1, <2>2, <2>3, <2>4, <2>5, <2>6, <2>7, <2>8 DEF Next, EthernetSend, Worker
<1>2. InOrder => [\/ \E n \in 0 .. Len(Waiting) :
                        Waiting' = SubSeq(Waiting, n + 1, Len(Waiting))
                  \/ \E job \in Jobs : Waiting' = Append(Waiting, job)]_vars
  BY DEF InOrder, Removes
<1> QED BY <1>1, <1>2, TypeCorrect, PTL DEF Spec, ServedInOrder

HIDE HostEthernetTxAssumption

-----------------------------------------------------------------------------
(***************************************************************************)
(* HostCalls: its types, that every buffer has one holder, and that every  *)
(* callback runs once, for every set of calls and buffers, queue depth and *)
(* pending limit.                                                          *)
(***************************************************************************)

USE HostCallsAssumption

-----------------------------------------------------------------------------
(* Types.                                                                  *)

LinkTyped == running \in BOOLEAN /\ stopping \in BOOLEAN /\ supported \in BOOLEAN
CallerTyped ==
    /\ at \in [Calls -> {"unmade", "allocating", "releasing", "returned"}]
    /\ shape \in [Calls -> Shapes] /\ needs \in [Calls -> SUBSET RoleSet]
    /\ holding \in [Calls -> [RoleSet -> Pointers]] /\ accepted \in [Calls -> BOOLEAN]
BufferTyped == buffer \in [Buffers -> Uses \cup {Free}]
QueueTyped == coreQueue \in Seq(RequestJobs) /\ Len(coreQueue) <= CoreQueueDepth
PendingTyped ==
    /\ pending \in SUBSET Slots /\ IsFiniteSet(pending) /\ Cardinality(pending) <= MaxPending
PostedTyped == posted \in Seq(Tasks) /\ task \in Running \cup {NoTask}
EndsTyped ==
    called \in [Calls -> Nat] /\ lostJobs \in SUBSET RequestJobs /\ IsFiniteSet(lostJobs)

(* A call that is still the caller's has not been accepted, and one that   *)
(* gets its buffers needs one for the job.                                 *)
CallerKnows == \A c \in Calls :
    /\ at[c] \in {"unmade", "allocating"} => ~accepted[c]
    /\ at[c] = "allocating" => "job" \in needs[c]

CallsTypeInv ==
    /\ LinkTyped /\ CallerTyped /\ BufferTyped /\ QueueTyped /\ PendingTyped
    /\ PostedTyped /\ EndsTyped /\ CallerKnows

LEMMA RoleFacts ==
    /\ RoleSet = {"request", "message", "payload", "job"} /\ RoleSet \subseteq Roles
    /\ "task" \in Roles /\ "decoded" \in Roles
    /\ \A i \in 1 .. 4 : CallerRoles[i] \in RoleSet
    /\ \A r \in RoleSet : \E i \in 1 .. 4 : CallerRoles[i] = r
    /\ CallerRoles[4] = "job"
<1>1. \A i \in 1 .. 4 : i = 1 \/ i = 2 \/ i = 3 \/ i = 4
  OBVIOUS
<1>2. /\ CallerRoles[1] = "request" /\ CallerRoles[2] = "message"
      /\ CallerRoles[3] = "payload" /\ CallerRoles[4] = "job"
  BY DEF CallerRoles
<1>3. 1 \in 1 .. 4 /\ 2 \in 1 .. 4 /\ 3 \in 1 .. 4 /\ 4 \in 1 .. 4
  OBVIOUS
<1> QED BY <1>1, <1>2, <1>3 DEF RoleSet, Roles

LEMMA PointerFacts ==
    /\ Null \notin Buffers /\ Pointers = Buffers \cup {Null} /\ Buffers \subseteq Pointers
    /\ FreeBuffers \subseteq Buffers
  BY DEF Null, Pointers, FreeBuffers

LEMMA PlainShape == Plain \in Shapes
<1>1. "scan" \in DOMAIN WifiMethods /\ WifiMethods["scan"] = Plain
  BY DEF WifiMethods
<1>2. Plain \in Methods(WifiMethods)
  BY <1>1 DEF Methods
<1> QED BY <1>2 DEF Shapes

LEMMA CallsTypeInit == CallsInit => CallsTypeInv
<1> SUFFICES ASSUME CallsInit PROVE CallsTypeInv
  OBVIOUS
<1>1. LinkTyped /\ BufferTyped
  BY DEF CallsInit, LinkTyped, BufferTyped
<1>2. CallerTyped
  BY PlainShape DEF CallsInit, CallerTyped, NoneHeld, Pointers
<1>3. <<>> \in Seq(RequestJobs) /\ <<>> \in Seq(Tasks) /\ Len(<<>>) = 0
  OBVIOUS
<1>4. QueueTyped /\ PostedTyped
  BY <1>3 DEF CallsInit, QueueTyped, PostedTyped
<1>5. IsFiniteSet({}) /\ Cardinality({}) = 0
  BY FS_EmptySet
<1>6. PendingTyped /\ EndsTyped
  BY <1>5 DEF CallsInit, PendingTyped, EndsTyped
<1>7. CallerKnows
  BY DEF CallsInit, CallerKnows
<1> QED BY <1>1, <1>2, <1>4, <1>6, <1>7 DEF CallsTypeInv

(* Nothing is missing when the job is queued.                              *)
LEMMA JobInHand ==
    ASSUME CallsTypeInv, NEW c \in Calls, QueueJob(c)
    PROVE  holding[c]["job"] \in Buffers /\ holding[c]["request"] \in Pointers
<1>1. at[c] = "allocating" /\ Missing(c) = {}
  BY DEF QueueJob
<1>2. "job" \in needs[c] /\ holding[c] \in [RoleSet -> Pointers]
  BY <1>1 DEF CallsTypeInv, CallerKnows, CallerTyped
<1>3. 4 \in 1 .. 4 /\ CallerRoles[4] = "job" /\ "job" \in RoleSet /\ "request" \in RoleSet
  BY RoleFacts
<1>4. holding[c]["job"] # Null
  BY <1>1, <1>2, <1>3 DEF Missing
<1> QED BY <1>2, <1>3, <1>4, PointerFacts

LEMMA FreedTyped ==
    ASSUME BufferTyped, NEW bs
    PROVE  /\ Freed(bs) \in [Buffers -> Uses \cup {Free}]
           /\ \A b \in Buffers : Freed(bs)[b] = IF b \in bs THEN Free ELSE buffer[b]
  BY DEF Freed, BufferTyped

(* The caller's steps.                                                     *)
LEMMA CallerKeepsType ==
    ASSUME CallsTypeInv, NEW c \in Calls, Caller(c) PROVE CallsTypeInv'
<1>1. /\ at \in [Calls -> {"unmade", "allocating", "releasing", "returned"}]
      /\ shape \in [Calls -> Shapes] /\ needs \in [Calls -> SUBSET RoleSet]
      /\ holding \in [Calls -> [RoleSet -> Pointers]] /\ accepted \in [Calls -> BOOLEAN]
      /\ buffer \in [Buffers -> Uses \cup {Free}] /\ CallerKnows
  BY DEF CallsTypeInv, CallerTyped, BufferTyped
<1>2. ASSUME NEW s \in Shapes, Call(c, s) PROVE CallsTypeInv'
  <2>1. /\ at[c] = "unmade" /\ shape' = [shape EXCEPT ![c] = s]
        /\ UNCHANGED <<linkVars, buffer, holding, accepted, coreVars, executorVars, called>>
    BY <1>2 DEF Call
  <2>2. \/ at' = [at EXCEPT ![c] = "returned"] /\ needs' = needs
        \/ /\ at' = [at EXCEPT ![c] = "allocating"]
           /\ \E payload \in SUBSET {"payload"} :
                 needs' = [needs EXCEPT ![c] =
                     {r \in {"request", "message"} : s[r]} \cup payload \cup {"job"}]
    BY <1>2 DEF Call
  <2>3. CASE at' = [at EXCEPT ![c] = "returned"] /\ needs' = needs
    <3>1. CallerTyped' /\ CallerKnows'
      BY <1>1, <2>1, <2>3 DEF CallerTyped, CallerKnows
    <3> QED BY <2>1, <3>1 DEF CallsTypeInv, LinkTyped, BufferTyped, QueueTyped, PendingTyped,
                   PostedTyped, EndsTyped, linkVars, coreVars, executorVars
  <2>4. ASSUME NEW payload \in SUBSET {"payload"}, at' = [at EXCEPT ![c] = "allocating"],
               needs' = [needs EXCEPT ![c] =
                   {r \in {"request", "message"} : s[r]} \cup payload \cup {"job"}]
        PROVE  CallsTypeInv'
    <3> DEFINE set == {r \in {"request", "message"} : s[r]} \cup payload \cup {"job"}
    <3>1. set \in SUBSET RoleSet /\ "job" \in set
      BY DEF RoleSet
    <3> HIDE DEF set
    <3>2. needs' = [needs EXCEPT ![c] = set]
      BY <2>4 DEF set
    <3>3. CallerTyped' /\ CallerKnows'
      BY <1>1, <2>1, <2>4, <3>1, <3>2 DEF CallerTyped, CallerKnows
    <3> QED BY <2>1, <3>3 DEF CallsTypeInv, LinkTyped, BufferTyped, QueueTyped, PendingTyped,
                   PostedTyped, EndsTyped, linkVars, coreVars, executorVars
  <2> QED BY <2>2, <2>3, <2>4
<1>3. CASE Allocate(c)
  <2>1. PICK i \in 1 .. 4, b \in FreeBuffers :
            /\ buffer' = Taken(b, CallerRoles[i], c)
            /\ holding' = [holding EXCEPT ![c][CallerRoles[i]] = b]
    BY <1>3 DEF Allocate
  <2>2. UNCHANGED <<linkVars, at, shape, needs, accepted, coreVars, executorVars, called>>
    BY <1>3 DEF Allocate
  <2>3. PICK r \in RoleSet : r = CallerRoles[i] /\ r \in Roles
    BY RoleFacts
  <2>4. [role |-> r, of |-> c] \in Uses /\ b \in Buffers /\ b \in Pointers
    BY <2>3, PointerFacts DEF Uses
  <2>5. BufferTyped'
    BY <1>1, <2>1, <2>3, <2>4 DEF Taken, BufferTyped
  <2>6. CallerTyped' /\ CallerKnows'
    BY <1>1, <2>1, <2>2, <2>3, <2>4 DEF CallerTyped, CallerKnows
  <2> QED BY <2>2, <2>5, <2>6 DEF CallsTypeInv, LinkTyped, QueueTyped, PendingTyped,
                   PostedTyped, EndsTyped, linkVars, coreVars, executorVars
<1>4. CASE RefuseCall(c) \/ Return(c)
  <2>1. /\ UNCHANGED <<linkVars, buffer, shape, needs, holding, accepted, coreVars,
                       executorVars, called>>
        /\ \/ at' = [at EXCEPT ![c] = "releasing"]
           \/ at' = [at EXCEPT ![c] = "returned"]
    BY <1>4 DEF RefuseCall, Return
  <2>2. CallerTyped' /\ CallerKnows'
    BY <1>1, <2>1 DEF CallerTyped, CallerKnows
  <2> QED BY <2>1, <2>2 DEF CallsTypeInv, LinkTyped, BufferTyped, QueueTyped, PendingTyped,
                   PostedTyped, EndsTyped, linkVars, coreVars, executorVars
<1>5. CASE QueueJob(c)
  <2>1. /\ at[c] = "allocating" /\ Missing(c) = {} /\ Len(coreQueue) < CoreQueueDepth
        /\ coreQueue' = Append(coreQueue, [of |-> c, job |-> holding[c]["job"],
                                           request |-> holding[c]["request"]])
        /\ holding' = [holding EXCEPT ![c]["job"] = Null, ![c]["request"] = Null]
        /\ accepted' = [accepted EXCEPT ![c] = TRUE] /\ at' = [at EXCEPT ![c] = "releasing"]
        /\ UNCHANGED <<linkVars, buffer, shape, needs, pending, lostJobs, executorVars, called>>
    BY <1>5 DEF QueueJob, Queued
  <2>2. holding[c]["job"] \in Buffers /\ holding[c]["request"] \in Pointers
    BY <1>5, JobInHand
  <2>3. QueueTyped'
    <3>1. [of |-> c, job |-> holding[c]["job"], request |-> holding[c]["request"]] \in RequestJobs
      BY <2>2 DEF RequestJobs
    <3>2. coreQueue \in Seq(RequestJobs) /\ Len(coreQueue) \in Nat
      BY DEF CallsTypeInv, QueueTyped
    <3>3. coreQueue' \in Seq(RequestJobs) /\ Len(coreQueue') = Len(coreQueue) + 1
      BY <2>1, <3>1, <3>2
    <3> QED BY <2>1, <3>2, <3>3 DEF QueueTyped
  <2>4. CallerTyped' /\ CallerKnows'
    <3>1. "job" \in RoleSet /\ "request" \in RoleSet /\ Null \in Pointers
      BY DEF RoleSet, Pointers
    <3>2. holding' \in [Calls -> [RoleSet -> Pointers]]
      BY <1>1, <2>1, <3>1
    <3> QED BY <1>1, <2>1, <3>2 DEF CallerTyped, CallerKnows
  <2> QED BY <2>1, <2>3, <2>4 DEF CallsTypeInv, LinkTyped, BufferTyped, PendingTyped,
                   PostedTyped, EndsTyped, linkVars, executorVars
<1>6. CASE Release(c)
  <2>1. PICK i \in 1 .. 4 :
            /\ buffer' = Freed({holding[c][CallerRoles[i]]})
            /\ holding' = [holding EXCEPT ![c][CallerRoles[i]] = Null]
    BY <1>6 DEF Release
  <2>2. UNCHANGED <<linkVars, at, shape, needs, accepted, coreVars, executorVars, called>>
    BY <1>6 DEF Release
  <2>3. CallerRoles[i] \in RoleSet /\ Null \in Pointers
    BY RoleFacts DEF Pointers
  <2>4. BufferTyped'
    BY <1>1, <2>1, FreedTyped DEF BufferTyped
  <2>5. CallerTyped' /\ CallerKnows'
    BY <1>1, <2>1, <2>2, <2>3 DEF CallerTyped, CallerKnows
  <2> QED BY <2>2, <2>4, <2>5 DEF CallsTypeInv, LinkTyped, QueueTyped, PendingTyped,
                   PostedTyped, EndsTyped, linkVars, coreVars, executorVars
<1> QED BY <1>2, <1>3, <1>4, <1>5, <1>6 DEF Caller

(* What dispatch_completion does.                                          *)
Dispatched(p, b, ok, bs) ==
    /\ b \in FreeBuffers
    /\ buffer' = [Freed(bs) EXCEPT ![b] = [role |-> "task", of |-> p.of]]
    /\ posted' = Append(posted, [of |-> p.of, task |-> b, request |-> p.request, ok |-> ok])
    /\ called' = called
CompletedHere(p, bs) ==
    Complete(p.of) /\ posted' = posted /\ buffer' = Freed(bs \cup {p.request})

LEMMA DispatchIs ==
    ASSUME NEW p, NEW ok, NEW bs, Dispatch(p, ok, bs)
    PROVE  (\E b : Dispatched(p, b, ok, bs)) \/ CompletedHere(p, bs)
  BY DEF Dispatch, Dispatched, CompletedHere

LEMMA DispatchTyped ==
    ASSUME CallsTypeInv, NEW p \in Slots, NEW ok \in BOOLEAN, NEW bs, Dispatch(p, ok, bs)
    PROVE  /\ BufferTyped' /\ posted' \in Seq(Tasks) /\ called' \in [Calls -> Nat]
<1>1. BufferTyped /\ posted \in Seq(Tasks) /\ called \in [Calls -> Nat]
  BY DEF CallsTypeInv, PostedTyped, EndsTyped
<1>2. p.of \in Calls /\ p.request \in Pointers
  BY DEF Slots
<1>3. ASSUME NEW b, Dispatched(p, b, ok, bs)
      PROVE  BufferTyped' /\ posted' \in Seq(Tasks) /\ called' \in [Calls -> Nat]
  <2>1. b \in Buffers /\ [role |-> "task", of |-> p.of] \in Uses
    BY <1>2, <1>3, RoleFacts, PointerFacts DEF Dispatched, Uses
  <2>2. [of |-> p.of, task |-> b, request |-> p.request, ok |-> ok] \in Tasks
    BY <1>2, <2>1 DEF Tasks
  <2>3. buffer' = [Freed(bs) EXCEPT ![b] = [role |-> "task", of |-> p.of]]
    BY <1>3 DEF Dispatched
  <2>4. BufferTyped'
    BY <1>1, <2>1, <2>3, FreedTyped DEF BufferTyped
  <2> QED BY <1>1, <1>3, <2>2, <2>4 DEF Dispatched
<1>4. CASE CompletedHere(p, bs)
  <2>1. BufferTyped'
    BY <1>1, <1>4, FreedTyped DEF CompletedHere, BufferTyped
  <2>2. called' = [called EXCEPT ![p.of] = @ + 1]
    BY <1>4 DEF CompletedHere, Complete
  <2> QED BY <1>1, <1>2, <1>4, <2>1, <2>2 DEF CompletedHere
<1> QED BY <1>3, <1>4, DispatchIs

LEMMA JobAtHead ==
    ASSUME CallsTypeInv, coreQueue # <<>>
    PROVE  /\ Head(coreQueue) \in RequestJobs /\ Tail(coreQueue) \in Seq(RequestJobs)
           /\ Len(Tail(coreQueue)) <= CoreQueueDepth
           /\ [of |-> Head(coreQueue).of, request |-> Head(coreQueue).request] \in Slots
           /\ Head(coreQueue).job \in Buffers
<1>1. coreQueue \in Seq(RequestJobs) /\ Len(coreQueue) <= CoreQueueDepth
  BY DEF CallsTypeInv, QueueTyped
<1>2. Head(coreQueue) \in RequestJobs /\ Tail(coreQueue) \in Seq(RequestJobs)
      /\ Len(Tail(coreQueue)) <= CoreQueueDepth
  BY <1>1
<1> QED BY <1>2 DEF RequestJobs, Slots

LEMMA CoreTaskKeepsType ==
    ASSUME CallsTypeInv, CoreTask PROVE CallsTypeInv'
<1>1. PendingTyped
  BY DEF CallsTypeInv
<1>2. CASE ProcessRpcRequest
  <2> DEFINE j == Head(coreQueue)
             p == [of |-> j.of, request |-> j.request]
  <2>1. /\ coreQueue # <<>> /\ coreQueue' = Tail(coreQueue)
        /\ UNCHANGED <<linkVars, callerVars, task, lostJobs>>
        /\ \/ /\ HasSlot
              /\ pending' = pending \cup {p} /\ buffer' = Freed({j.job})
              /\ UNCHANGED <<posted, called>>
           \/ Dispatch(p, FALSE, {j.job}) /\ UNCHANGED pending
    BY <1>2 DEF ProcessRpcRequest
  <2>2. p \in Slots /\ QueueTyped'
    BY <2>1, JobAtHead DEF QueueTyped
  <2> HIDE DEF j, p
  <2>3. CASE /\ HasSlot
             /\ pending' = pending \cup {p} /\ buffer' = Freed({j.job})
             /\ UNCHANGED <<posted, called>>
    <3>1. BufferTyped'
      BY <2>3, FreedTyped DEF CallsTypeInv, BufferTyped
    <3>2. PendingTyped'
      <4>1. IsFiniteSet(pending) /\ Cardinality(pending) < MaxPending /\ pending \in SUBSET Slots
        BY <1>1, <2>3 DEF HasSlot, PendingTyped
      <4>2. Cardinality(pending) \in Nat /\ IsFiniteSet(pending \cup {p})
            /\ Cardinality(pending \cup {p}) = IF p \in pending THEN Cardinality(pending)
                                                               ELSE Cardinality(pending) + 1
        BY <4>1, FS_AddElement, FS_CardinalityType
      <4>3. Cardinality(pending \cup {p}) <= MaxPending
        BY <4>1, <4>2
      <4> QED BY <2>2, <2>3, <4>1, <4>2, <4>3 DEF PendingTyped
    <3> QED BY <2>1, <2>2, <2>3, <3>1, <3>2 DEF CallsTypeInv, LinkTyped, CallerTyped,
                 PostedTyped, EndsTyped, CallerKnows, linkVars, callerVars
  <2>4. CASE Dispatch(p, FALSE, {j.job}) /\ UNCHANGED pending
    <3>1. BufferTyped' /\ posted' \in Seq(Tasks) /\ called' \in [Calls -> Nat]
      BY <2>2, <2>4, DispatchTyped
    <3> QED BY <2>1, <2>2, <2>4, <3>1 DEF CallsTypeInv, LinkTyped, CallerTyped, PendingTyped,
                 PostedTyped, EndsTyped, CallerKnows, linkVars, callerVars
  <2> QED BY <2>1, <2>3, <2>4
<1>3. ASSUME NEW p \in pending, Settle(p) PROVE CallsTypeInv'
  <2>1. /\ pending' = pending \ {p}
        /\ UNCHANGED <<linkVars, callerVars, task, coreQueue, lostJobs>>
        /\ \E ok \in BOOLEAN : Dispatch(p, ok, {})
    BY <1>3 DEF Settle
  <2>2. p \in Slots
    BY <1>1 DEF PendingTyped
  <2>3. BufferTyped' /\ posted' \in Seq(Tasks) /\ called' \in [Calls -> Nat]
    BY <2>1, <2>2, DispatchTyped
  <2>4. PendingTyped'
    <3>1. IsFiniteSet(pending) /\ Cardinality(pending) <= MaxPending /\ pending \in SUBSET Slots
          /\ Cardinality(pending) \in Nat
      BY <1>1, FS_CardinalityType DEF PendingTyped
    <3>2. IsFiniteSet(pending \ {p}) /\ Cardinality(pending \ {p}) = Cardinality(pending) - 1
      BY <3>1, FS_RemoveElement
    <3>3. Cardinality(pending \ {p}) <= MaxPending
      BY <3>1, <3>2
    <3> QED BY <2>1, <3>1, <3>2, <3>3 DEF PendingTyped
  <2> QED BY <2>1, <2>3, <2>4 DEF CallsTypeInv, LinkTyped, CallerTyped, QueueTyped,
                 PostedTyped, EndsTyped, CallerKnows, linkVars, callerVars
<1> QED BY <1>2, <1>3 DEF CoreTask

(* What RunTask does, with the buffer of the decoded response or none.     *)
Runs(b) ==
    /\ task = NoTask /\ posted # <<>> /\ posted' = Tail(posted)
    /\ task' = [of |-> Head(posted).of, task |-> Head(posted).task,
                request |-> Head(posted).request, decoded |-> b]
    /\ \/ b = Null /\ buffer' = buffer
       \/ b \in FreeBuffers /\ buffer' = Taken(b, "decoded", Head(posted).of)
    /\ UNCHANGED <<linkVars, callerVars, coreVars, called>>

LEMMA RunTaskIs == ASSUME RunTask PROVE \E b : Runs(b)
  BY DEF RunTask, Runs

LEMMA ExecutorKeepsType ==
    ASSUME CallsTypeInv, Executor PROVE CallsTypeInv'
<1>1. PostedTyped /\ BufferTyped /\ EndsTyped
  BY DEF CallsTypeInv
<1>2. ASSUME NEW b, Runs(b) PROVE CallsTypeInv'
  <2>1. Head(posted) \in Tasks /\ Tail(posted) \in Seq(Tasks)
    BY <1>1, <1>2 DEF Runs, PostedTyped
  <2>2. Head(posted).of \in Calls /\ Head(posted).task \in Buffers
        /\ Head(posted).request \in Pointers
    BY <2>1 DEF Tasks
  <2>3. b \in Pointers
    BY <1>2, PointerFacts DEF Runs
  <2>4. PostedTyped'
    BY <1>2, <2>1, <2>2, <2>3 DEF Runs, PostedTyped, Running
  <2>5. BufferTyped'
    <3>1. [role |-> "decoded", of |-> Head(posted).of] \in Uses
      BY <2>2, RoleFacts DEF Uses
    <3> QED BY <1>1, <1>2, <3>1, PointerFacts DEF Runs, Taken, BufferTyped
  <2> QED BY <1>2, <2>4, <2>5 DEF Runs, CallsTypeInv, LinkTyped, CallerTyped, QueueTyped,
                 PendingTyped, EndsTyped, CallerKnows, linkVars, callerVars, coreVars
<1>3. CASE TaskReturns
  <2>1. /\ task # NoTask /\ task' = NoTask /\ called' = [called EXCEPT ![task.of] = @ + 1]
        /\ buffer' = Freed(TaskBuffers)
        /\ UNCHANGED <<linkVars, callerVars, coreVars, posted>>
    BY <1>3 DEF TaskReturns, Complete
  <2>2. task.of \in Calls
    BY <1>1, <2>1 DEF PostedTyped, Running
  <2>3. BufferTyped' /\ PostedTyped' /\ EndsTyped'
    BY <1>1, <2>1, <2>2, FreedTyped DEF BufferTyped, PostedTyped, EndsTyped, coreVars
  <2> QED BY <2>1, <2>3 DEF CallsTypeInv, LinkTyped, CallerTyped, QueueTyped,
                 PendingTyped, CallerKnows, linkVars, callerVars, coreVars
<1> QED BY <1>2, <1>3, RunTaskIs DEF Executor

LEMMA HostKeepsType ==
    ASSUME CallsTypeInv, HostStarts \/ BeginStop \/ HostStopReturns \/ SessionChanges
    PROVE  CallsTypeInv'
<1>1. LinkTyped /\ QueueTyped /\ EndsTyped
  BY DEF CallsTypeInv
<1>2. CASE HostStarts \/ BeginStop \/ SessionChanges
  <2>1. LinkTyped'
    BY <1>1, <1>2 DEF HostStarts, BeginStop, SessionChanges, LinkTyped
  <2>2. UNCHANGED <<buffer, callerVars, coreVars, executorVars, called>>
    BY <1>2 DEF HostStarts, BeginStop, SessionChanges
  <2> QED BY <2>1, <2>2 DEF CallsTypeInv, BufferTyped, CallerTyped, QueueTyped, PendingTyped,
                 PostedTyped, EndsTyped, CallerKnows, callerVars, coreVars, executorVars
<1>3. CASE HostStopReturns
  <2>1. /\ running' = FALSE /\ coreQueue' = <<>>
        /\ lostJobs' = lostJobs \cup {coreQueue[i] : i \in DOMAIN coreQueue}
        /\ UNCHANGED <<stopping, supported, buffer, callerVars, pending, executorVars, called>>
    BY <1>3 DEF HostStopReturns
  <2>2. LinkTyped'
    BY <1>1, <2>1 DEF LinkTyped
  <2>3. <<>> \in Seq(RequestJobs) /\ Len(<<>>) = 0
    OBVIOUS
  <2>4. QueueTyped'
    BY <2>1, <2>3 DEF QueueTyped
  <2>5. EndsTyped'
    <3>1. coreQueue \in Seq(RequestJobs) /\ DOMAIN coreQueue = 1 .. Len(coreQueue)
          /\ Len(coreQueue) \in Nat
      BY <1>1 DEF QueueTyped
    <3>2. {coreQueue[i] : i \in DOMAIN coreQueue} \in SUBSET RequestJobs
      BY <3>1
    <3>3. IsFiniteSet(1 .. Len(coreQueue))
      BY <3>1, FS_Interval
    <3>4. IsFiniteSet({coreQueue[i] : i \in DOMAIN coreQueue})
      <4> DEFINE get == [i \in 1 .. Len(coreQueue) |-> coreQueue[i]]
                 jobs == {coreQueue[i] : i \in DOMAIN coreQueue}
      <4>1. get \in Surjection(1 .. Len(coreQueue), jobs)
        BY <3>1 DEF Surjection
      <4> HIDE DEF get, jobs
      <4>2. IsFiniteSet(jobs)
        BY <3>3, <4>1, FS_Surjection
      <4> QED BY <4>2 DEF jobs
    <3>5. IsFiniteSet(lostJobs')
      BY <1>1, <2>1, <3>4, FS_Union DEF EndsTyped
    <3> QED BY <1>1, <2>1, <3>2, <3>5 DEF EndsTyped
  <2> QED BY <2>1, <2>2, <2>4, <2>5 DEF CallsTypeInv, BufferTyped, CallerTyped, PendingTyped,
                 PostedTyped, CallerKnows, callerVars, executorVars
<1> QED BY <1>2, <1>3

LEMMA CallsTypeStep == CallsTypeInv /\ [CallsNext]_callsVars => CallsTypeInv'
<1> SUFFICES ASSUME CallsTypeInv, [CallsNext]_callsVars PROVE CallsTypeInv'
  OBVIOUS
<1>1. CASE UNCHANGED callsVars
  BY <1>1 DEF callsVars, linkVars, callerVars, coreVars, executorVars, CallsTypeInv, LinkTyped,
      CallerTyped, BufferTyped, QueueTyped, PendingTyped, PostedTyped, EndsTyped, CallerKnows
<1> QED BY <1>1, CallerKeepsType, CoreTaskKeepsType, ExecutorKeepsType, HostKeepsType
           DEF CallsNext

(* What the calls, the core task and the executor keep has its type: the   *)
(* queue and the table of pending requests within their limits included.   *)
THEOREM CallsTypeCorrect == CallsSpec => []CallsTypeOK
<1>1. CallsTypeInv => CallsTypeOK
  BY DEF CallsTypeInv, CallsTypeOK, LinkTyped, CallerTyped, BufferTyped, QueueTyped,
         PendingTyped, PostedTyped, EndsTyped
<1> QED BY <1>1, CallsTypeInit, CallsTypeStep, PTL DEF CallsSpec

-----------------------------------------------------------------------------
(* How often a call is where.                                              *)

InSeq(q, c) == Cardinality({i \in DOMAIN q : q[i].of = c})
InSet(set, c) == Cardinality({x \in set : x.of = c})
InTask(k, c) == IF k.of = c THEN 1 ELSE 0

LEMMA InSeqIsCount ==
    ASSUME NEW T, NEW q \in Seq(T), NEW c
    PROVE  InSeq(q, c) = CountIn(q, {x \in T : x.of = c}) /\ InSeq(q, c) \in Nat
<1>1. {i \in DOMAIN q : q[i].of = c} = {i \in DOMAIN q : q[i] \in {x \in T : x.of = c}}
  OBVIOUS
<1> QED BY <1>1, CountType DEF InSeq, CountIn

LEMMA InSeqAppend ==
    ASSUME NEW T, NEW q \in Seq(T), NEW x \in T, NEW c
    PROVE  InSeq(Append(q, x), c) = InSeq(q, c) + IF x.of = c THEN 1 ELSE 0
<1> DEFINE S == {y \in T : y.of = c}
<1>1. Append(q, x) \in Seq(T) /\ (x \in S <=> x.of = c)
  OBVIOUS
<1>2. CountIn(Append(q, x), S) = CountIn(q, S) + IF x \in S THEN 1 ELSE 0
  BY CountAppend
<1>3. InSeq(q, c) = CountIn(q, S) /\ InSeq(Append(q, x), c) = CountIn(Append(q, x), S)
  BY <1>1, InSeqIsCount
<1> HIDE DEF S
<1> QED BY <1>1, <1>2, <1>3

LEMMA InSeqTail ==
    ASSUME NEW T, NEW q \in Seq(T), q # <<>>, NEW c
    PROVE  InSeq(q, c) = InSeq(Tail(q), c) + IF Head(q).of = c THEN 1 ELSE 0
<1> DEFINE S == {y \in T : y.of = c}
<1>1. Tail(q) \in Seq(T) /\ Head(q) \in T /\ (Head(q) \in S <=> Head(q).of = c)
  OBVIOUS
<1>2. CountIn(q, S) = CountIn(Tail(q), S) + IF Head(q) \in S THEN 1 ELSE 0
  BY CountTail
<1>3. InSeq(q, c) = CountIn(q, S) /\ InSeq(Tail(q), c) = CountIn(Tail(q), S)
  BY <1>1, InSeqIsCount
<1> HIDE DEF S
<1> QED BY <1>1, <1>2, <1>3

LEMMA InSeqZero ==
    ASSUME NEW T, NEW q \in Seq(T), NEW c, InSeq(q, c) = 0
    PROVE  \A i \in DOMAIN q : q[i].of # c
<1> DEFINE at_c == {i \in DOMAIN q : q[i].of = c}
<1>1. IsFiniteSet(DOMAIN q)
  BY FS_Interval
<1>2. at_c \subseteq DOMAIN q
  OBVIOUS
<1>3. IsFiniteSet(at_c) /\ Cardinality(at_c) = 0
  BY <1>1, <1>2, FS_Subset DEF InSeq
<1>4. at_c = {}
  <2> HIDE DEF at_c
  <2> QED BY <1>3, FS_EmptySet
<1> QED BY <1>4

LEMMA InSetType ==
    ASSUME NEW S, IsFiniteSet(S), NEW c
    PROVE  IsFiniteSet({x \in S : x.of = c}) /\ InSet(S, c) \in Nat
<1>1. {x \in S : x.of = c} \subseteq S
  OBVIOUS
<1> QED BY <1>1, FS_Subset, FS_CardinalityType DEF InSet

LEMMA InSetZero ==
    ASSUME NEW S, IsFiniteSet(S), NEW c
    PROVE  InSet(S, c) = 0 <=> \A x \in S : x.of # c
<1> DEFINE of_c == {x \in S : x.of = c}
<1>1. IsFiniteSet(of_c)
  BY InSetType
<1>2. Cardinality(of_c) = 0 <=> of_c = {}
  <2> HIDE DEF of_c
  <2> QED BY <1>1, FS_EmptySet
<1> QED BY <1>2 DEF InSet

LEMMA InSetAdd ==
    ASSUME NEW S, IsFiniteSet(S), NEW p, p \notin S, NEW c
    PROVE  InSet(S \cup {p}, c) = InSet(S, c) + IF p.of = c THEN 1 ELSE 0
<1> DEFINE of_c == {x \in S : x.of = c}
<1>1. {x \in S \cup {p} : x.of = c} = IF p.of = c THEN of_c \cup {p} ELSE of_c
  OBVIOUS
<1>2. IsFiniteSet(of_c) /\ p \notin of_c /\ Cardinality(of_c) \in Nat
  BY InSetType DEF InSet
<1> HIDE DEF of_c
<1>3. Cardinality(of_c \cup {p}) = Cardinality(of_c) + 1
  BY <1>2, FS_AddElement
<1> QED BY <1>1, <1>2, <1>3 DEF InSet, of_c

LEMMA InSetRemove ==
    ASSUME NEW S, IsFiniteSet(S), NEW p \in S, NEW c
    PROVE  InSet(S, c) = InSet(S \ {p}, c) + IF p.of = c THEN 1 ELSE 0
<1>1. (S \ {p}) \cup {p} = S /\ p \notin S \ {p}
  OBVIOUS
<1>2. IsFiniteSet(S \ {p})
  BY FS_RemoveElement
<1> QED BY <1>1, <1>2, InSetAdd

-----------------------------------------------------------------------------
(* Every accepted call is in one place until its completion has run.       *)

LEMMA PlacesAre ==
    ASSUME CallsTypeInv, NEW c \in Calls
    PROVE  /\ PlacesOf(c) = InSeq(coreQueue, c) + InSet(pending, c) + InSeq(posted, c)
                                + InTask(task, c) + InSet(lostJobs, c)
           /\ InSeq(coreQueue, c) \in Nat /\ InSet(pending, c) \in Nat
           /\ InSeq(posted, c) \in Nat /\ InTask(task, c) \in Nat
           /\ InSet(lostJobs, c) \in Nat /\ called[c] \in Nat /\ PlacesOf(c) \in Nat
<1>1. coreQueue \in Seq(RequestJobs) /\ posted \in Seq(Tasks) /\ IsFiniteSet(pending)
      /\ IsFiniteSet(lostJobs) /\ called[c] \in Nat
  BY DEF CallsTypeInv, QueueTyped, PostedTyped, PendingTyped, EndsTyped
<1>2. InSeq(coreQueue, c) \in Nat /\ InSeq(posted, c) \in Nat
  BY <1>1, InSeqIsCount
<1>3. InSet(pending, c) \in Nat /\ InSet(lostJobs, c) \in Nat
  BY <1>1, InSetType
<1>4. InTask(task, c) \in Nat
  BY DEF InTask
<1>5. PlacesOf(c) = InSeq(coreQueue, c) + InSet(pending, c) + InSeq(posted, c)
                        + InTask(task, c) + InSet(lostJobs, c)
  BY DEF PlacesOf, InSeq, InSet, InTask
<1> QED BY <1>1, <1>2, <1>3, <1>4, <1>5

(* A call that is somewhere was accepted, is there once and nowhere else,  *)
(* and its completion has not run.                                         *)
OnlyOnce(c) ==
    called[c] + InSeq(coreQueue, c) + InSet(pending, c) + InSeq(posted, c)
        + InTask(task, c) + InSet(lostJobs, c) = IF accepted[c] THEN 1 ELSE 0

LEMMA OnceIs ==
    ASSUME CallsTypeInv PROVE CalledBackOnce <=> \A c \in Calls : OnlyOnce(c)
<1> SUFFICES ASSUME NEW c \in Calls
             PROVE  called[c] + PlacesOf(c) = (IF accepted[c] THEN 1 ELSE 0) <=> OnlyOnce(c)
  BY DEF CalledBackOnce
<1> QED BY PlacesAre DEF OnlyOnce

(* A dispatched completion is with the executor, or it has run.            *)
LEMMA DispatchCounts ==
    ASSUME CallsTypeInv, NEW p \in Slots, NEW ok \in BOOLEAN, NEW bs, Dispatch(p, ok, bs),
           NEW c \in Calls
    PROVE  /\ called'[c] \in Nat /\ InSeq(posted', c) \in Nat
           /\ called'[c] + InSeq(posted', c)
                  = called[c] + InSeq(posted, c) + IF p.of = c THEN 1 ELSE 0
<1>1. posted \in Seq(Tasks) /\ called \in [Calls -> Nat] /\ p.of \in Calls /\ p.request \in Pointers
  BY DEF CallsTypeInv, PostedTyped, EndsTyped, Slots
<1>2. called'[c] \in Nat /\ InSeq(posted', c) \in Nat
  BY DispatchTyped, InSeqIsCount
<1>3. called[c] \in Nat /\ InSeq(posted, c) \in Nat
  BY <1>1, InSeqIsCount
<1>4. ASSUME NEW b, Dispatched(p, b, ok, bs)
      PROVE  called'[c] + InSeq(posted', c)
                 = called[c] + InSeq(posted, c) + IF p.of = c THEN 1 ELSE 0
  <2> DEFINE k == [of |-> p.of, task |-> b, request |-> p.request, ok |-> ok]
  <2>1. k \in Tasks /\ k.of = p.of
    BY <1>1, <1>4, PointerFacts DEF Dispatched, Tasks
  <2>2. posted' = Append(posted, k) /\ called' = called
    BY <1>4 DEF Dispatched
  <2> HIDE DEF k
  <2>3. InSeq(posted', c) = InSeq(posted, c) + IF p.of = c THEN 1 ELSE 0
    BY <1>1, <2>1, <2>2, InSeqAppend
  <2> QED BY <1>3, <2>2, <2>3
<1>5. CASE CompletedHere(p, bs)
  <2>1. posted' = posted /\ called' = [called EXCEPT ![p.of] = @ + 1]
    BY <1>5 DEF CompletedHere, Complete
  <2>2. called'[c] = called[c] + IF p.of = c THEN 1 ELSE 0
    BY <1>1, <2>1
  <2> QED BY <1>3, <2>1, <2>2
<1> QED BY <1>2, <1>4, <1>5, DispatchIs

LEMMA OnceInit == CallsInit => \A c \in Calls : OnlyOnce(c)
<1> SUFFICES ASSUME CallsInit, NEW c \in Calls PROVE OnlyOnce(c)
  OBVIOUS
<1>1. coreQueue = <<>> /\ posted = <<>> /\ pending = {} /\ lostJobs = {} /\ task = NoTask
      /\ called[c] = 0 /\ accepted[c] = FALSE
  BY DEF CallsInit
<1>2. InSet({}, c) = 0
  BY FS_EmptySet, InSetZero
<1>3. InSeq(<<>>, c) = 0
  <2>1. {i \in DOMAIN <<>> : <<>>[i].of = c} = {}
    OBVIOUS
  <2> QED BY <2>1, FS_EmptySet DEF InSeq
<1>4. InTask(task, c) = 0
  BY <1>1 DEF InTask, NoTask
<1> QED BY <1>1, <1>2, <1>3, <1>4 DEF OnlyOnce

LEMMA OnceStep ==
    ASSUME CallsTypeInv, [CallsNext]_callsVars, NEW c \in Calls, OnlyOnce(c)
    PROVE  OnlyOnce(c)'
<1>1. /\ InSeq(coreQueue, c) \in Nat /\ InSet(pending, c) \in Nat
      /\ InSeq(posted, c) \in Nat /\ InTask(task, c) \in Nat
      /\ InSet(lostJobs, c) \in Nat /\ called[c] \in Nat
  BY PlacesAre
<1>2. /\ coreQueue \in Seq(RequestJobs) /\ posted \in Seq(Tasks) /\ IsFiniteSet(pending)
      /\ pending \in SUBSET Slots /\ task \in Running \cup {NoTask}
      /\ IsFiniteSet(lostJobs) /\ called \in [Calls -> Nat]
      /\ accepted \in [Calls -> BOOLEAN]
  BY DEF CallsTypeInv, QueueTyped, PostedTyped, PendingTyped, EndsTyped, CallerTyped
<1>3. CASE UNCHANGED <<accepted, coreQueue, pending, posted, task, called, lostJobs>>
  BY <1>3 DEF OnlyOnce
<1>4. ASSUME NEW d \in Calls, QueueJob(d) PROVE OnlyOnce(c)'
  <2> DEFINE j == [of |-> d, job |-> holding[d]["job"], request |-> holding[d]["request"]]
  <2>1. /\ at[d] = "allocating" /\ coreQueue' = Append(coreQueue, j)
        /\ accepted' = [accepted EXCEPT ![d] = TRUE]
        /\ UNCHANGED <<pending, lostJobs, executorVars, called>>
    BY <1>4 DEF QueueJob, Queued
  <2>2. j \in RequestJobs /\ j.of = d
    BY <1>4, JobInHand DEF RequestJobs
  <2> HIDE DEF j
  <2>3. InSeq(coreQueue', c) = InSeq(coreQueue, c) + IF d = c THEN 1 ELSE 0
    BY <1>2, <2>1, <2>2, InSeqAppend
  <2>6. /\ pending' = pending /\ lostJobs' = lostJobs /\ posted' = posted
        /\ task' = task /\ called' = called
    BY <2>1 DEF executorVars
  <2>4. CASE d = c
    <3>1. ~accepted[c] /\ accepted'[c]
      BY <1>2, <2>1, <2>4 DEF CallsTypeInv, CallerKnows
    <3> QED BY <1>1, <2>3, <2>4, <2>6, <3>1 DEF OnlyOnce
  <2>5. CASE d # c
    <3>1. accepted'[c] = accepted[c]
      BY <1>2, <2>1, <2>5
    <3>2. InSeq(coreQueue', c) = InSeq(coreQueue, c)
      BY <1>1, <2>3, <2>5
    <3> QED BY <2>6, <3>1, <3>2 DEF OnlyOnce
  <2> QED BY <2>4, <2>5
<1>5. CASE ProcessRpcRequest
  <2> DEFINE j == Head(coreQueue)
             p == [of |-> j.of, request |-> j.request]
             one == IF j.of = c THEN 1 ELSE 0
  <2>1. /\ coreQueue # <<>> /\ coreQueue' = Tail(coreQueue)
        /\ UNCHANGED <<linkVars, callerVars, task, lostJobs>>
        /\ \/ /\ pending' = pending \cup {p}
              /\ UNCHANGED <<posted, called>>
           \/ Dispatch(p, FALSE, {j.job}) /\ UNCHANGED pending
    BY <1>5 DEF ProcessRpcRequest
  <2>2. p \in Slots /\ p.of = j.of /\ Tail(coreQueue) \in Seq(RequestJobs)
    BY <2>1, JobAtHead
  <2>3. InSeq(coreQueue, c) = InSeq(coreQueue', c) + one /\ InSeq(coreQueue', c) \in Nat
    BY <1>2, <2>1, <2>2, InSeqTail, InSeqIsCount
  <2>4. accepted' = accepted
    BY <2>1 DEF callerVars
  <2>5. one \in {0, 1} /\ (one = 0 \/ j.of = c)
    OBVIOUS
  <2>6. CASE /\ pending' = pending \cup {p} /\ UNCHANGED <<posted, called>>
    <3>1. InSet(pending', c) = InSet(pending, c) + one
      <4>1. CASE j.of = c
        <5>1. InSet(pending, c) = 0
          BY <1>1, <2>3, <4>1 DEF OnlyOnce
        <5>2. p \notin pending
          BY <1>2, <2>2, <4>1, <5>1, InSetZero
        <5>3. InSet(pending \cup {p}, c) = InSet(pending, c) + IF p.of = c THEN 1 ELSE 0
          <6> HIDE DEF p
          <6> QED BY <1>2, <5>2, InSetAdd
        <5>4. pending' = pending \cup {p} /\ p.of = j.of
          BY <2>2, <2>6
        <5> HIDE DEF p, j
        <5> QED BY <4>1, <5>3, <5>4
      <4>2. CASE j.of # c
        <5>1. {x \in pending' : x.of = c} = {x \in pending : x.of = c}
          BY <2>2, <2>6, <4>2
        <5>2. InSet(pending', c) = InSet(pending, c)
          BY <5>1, Zenon DEF InSet
        <5> QED BY <1>1, <4>2, <5>2
      <4> QED BY <4>1, <4>2
    <3>2. task' = task /\ lostJobs' = lostJobs /\ posted' = posted /\ called' = called
      BY <2>1, <2>6
    <3>3. /\ InTask(task', c) = InTask(task, c) /\ InSet(lostJobs', c) = InSet(lostJobs, c)
          /\ InSeq(posted', c) = InSeq(posted, c) /\ called'[c] = called[c]
      BY <3>2
    <3> HIDE DEF one, j, p
    <3>4. called'[c] + InSeq(coreQueue', c) + InSet(pending', c) + InSeq(posted', c)
              + InTask(task', c) + InSet(lostJobs', c)
          = called[c] + InSeq(coreQueue, c) + InSet(pending, c) + InSeq(posted, c)
              + InTask(task, c) + InSet(lostJobs, c)
      BY <1>1, <2>3, <2>5, <3>1, <3>3
    <3> QED BY <2>4, <3>4 DEF OnlyOnce
  <2>7. CASE Dispatch(p, FALSE, {j.job}) /\ UNCHANGED pending
    <3>1. /\ called'[c] \in Nat /\ InSeq(posted', c) \in Nat
          /\ called'[c] + InSeq(posted', c) = called[c] + InSeq(posted, c) + one
      BY <2>2, <2>7, DispatchCounts
    <3>2. task' = task /\ lostJobs' = lostJobs /\ pending' = pending
      BY <2>1, <2>7
    <3>3. /\ InTask(task', c) = InTask(task, c) /\ InSet(lostJobs', c) = InSet(lostJobs, c)
          /\ InSet(pending', c) = InSet(pending, c)
      BY <3>2
    <3> HIDE DEF one, j, p
    <3>4. called'[c] + InSeq(coreQueue', c) + InSet(pending', c) + InSeq(posted', c)
              + InTask(task', c) + InSet(lostJobs', c)
          = called[c] + InSeq(coreQueue, c) + InSet(pending, c) + InSeq(posted, c)
              + InTask(task, c) + InSet(lostJobs, c)
      BY <1>1, <2>3, <2>5, <3>1, <3>3
    <3> QED BY <2>4, <3>4 DEF OnlyOnce
  <2> QED BY <2>1, <2>6, <2>7
<1>6. ASSUME NEW p \in pending, Settle(p) PROVE OnlyOnce(c)'
  <2> DEFINE one == IF p.of = c THEN 1 ELSE 0
  <2>1. /\ pending' = pending \ {p}
        /\ UNCHANGED <<linkVars, callerVars, task, coreQueue, lostJobs>>
        /\ \E ok \in BOOLEAN : Dispatch(p, ok, {})
    BY <1>6 DEF Settle
  <2>2. p \in Slots /\ one \in {0, 1}
    BY <1>2
  <2>3. /\ called'[c] \in Nat /\ InSeq(posted', c) \in Nat
        /\ called'[c] + InSeq(posted', c) = called[c] + InSeq(posted, c) + one
    BY <2>1, <2>2, DispatchCounts
  <2>4. InSet(pending, c) = InSet(pending', c) + one
    BY <1>2, <2>1, InSetRemove
  <2>5. InSet(pending', c) \in Nat
    BY <1>2, <2>1, FS_RemoveElement, InSetType
  <2>6. /\ accepted' = accepted /\ task' = task /\ coreQueue' = coreQueue
        /\ lostJobs' = lostJobs
    BY <2>1 DEF callerVars
  <2> HIDE DEF one
  <2>7. called'[c] + InSeq(coreQueue', c) + InSet(pending', c) + InSeq(posted', c)
            + InTask(task', c) + InSet(lostJobs', c)
        = called[c] + InSeq(coreQueue, c) + InSet(pending, c) + InSeq(posted, c)
            + InTask(task, c) + InSet(lostJobs, c)
    BY <1>1, <2>2, <2>3, <2>4, <2>5, <2>6
  <2> QED BY <2>6, <2>7 DEF OnlyOnce
<1>7. ASSUME NEW b, Runs(b) PROVE OnlyOnce(c)'
  <2> DEFINE one == IF Head(posted).of = c THEN 1 ELSE 0
  <2>1. /\ task = NoTask /\ posted # <<>> /\ posted' = Tail(posted)
        /\ task'.of = Head(posted).of
        /\ UNCHANGED <<linkVars, callerVars, coreVars, called>>
    BY <1>7 DEF Runs
  <2>2. Tail(posted) \in Seq(Tasks) /\ one \in {0, 1}
    BY <1>2, <2>1
  <2>3. InSeq(posted, c) = InSeq(posted', c) + one /\ InSeq(posted', c) \in Nat
    BY <1>2, <2>1, <2>2, InSeqTail, InSeqIsCount
  <2>4. InTask(task, c) = 0 /\ InTask(task', c) = one
    BY <2>1 DEF InTask, NoTask
  <2>5. /\ accepted' = accepted /\ called' = called /\ coreQueue' = coreQueue
        /\ pending' = pending /\ lostJobs' = lostJobs
    BY <2>1 DEF callerVars, coreVars
  <2>7. /\ called'[c] = called[c] /\ InSeq(coreQueue', c) = InSeq(coreQueue, c)
        /\ InSet(pending', c) = InSet(pending, c) /\ InSet(lostJobs', c) = InSet(lostJobs, c)
    BY <2>5
  <2>8. one \in Nat
    BY <2>2
  <2> HIDE DEF one
  <2>6. called'[c] + InSeq(coreQueue', c) + InSet(pending', c) + InSeq(posted', c)
            + InTask(task', c) + InSet(lostJobs', c)
        = called[c] + InSeq(coreQueue, c) + InSet(pending, c) + InSeq(posted, c)
            + InTask(task, c) + InSet(lostJobs, c)
    BY <1>1, <2>3, <2>4, <2>7, <2>8
  <2> QED BY <2>5, <2>6 DEF OnlyOnce
<1>8. CASE TaskReturns
  <2>1. /\ task # NoTask /\ task' = NoTask /\ called' = [called EXCEPT ![task.of] = @ + 1]
        /\ UNCHANGED <<linkVars, callerVars, coreVars, posted>>
    BY <1>8 DEF TaskReturns, Complete
  <2>2. task.of \in Calls
    BY <1>2, <2>1 DEF Running
  <2>3. called'[c] = called[c] + InTask(task, c) /\ InTask(task', c) = 0
    BY <1>2, <2>1, <2>2 DEF InTask, NoTask
  <2>4. /\ accepted' = accepted /\ coreQueue' = coreQueue /\ pending' = pending
        /\ posted' = posted /\ lostJobs' = lostJobs
    BY <2>1 DEF callerVars, coreVars
  <2>5. called'[c] + InSeq(coreQueue', c) + InSet(pending', c) + InSeq(posted', c)
            + InTask(task', c) + InSet(lostJobs', c)
        = called[c] + InSeq(coreQueue, c) + InSet(pending, c) + InSeq(posted, c)
            + InTask(task, c) + InSet(lostJobs, c)
    BY <1>1, <2>3, <2>4
  <2> QED BY <2>4, <2>5 DEF OnlyOnce
<1>9. CASE HostStopReturns
  <2> DEFINE jobs == {coreQueue[i] : i \in DOMAIN coreQueue}
  <2>1. /\ coreQueue' = <<>> /\ lostJobs' = lostJobs \cup jobs
        /\ UNCHANGED <<callerVars, pending, executorVars, called>>
    BY <1>9 DEF HostStopReturns
  <2>2. InSeq(<<>>, c) = 0
    <3>1. {i \in DOMAIN <<>> : <<>>[i].of = c} = {}
      OBVIOUS
    <3> QED BY <3>1, FS_EmptySet DEF InSeq
  <2>3. InSet(lostJobs', c) = InSet(lostJobs, c) + InSeq(coreQueue, c)
    <3>1. CASE InSeq(coreQueue, c) = 0
      <4>1. \A j \in jobs : j.of # c
        BY <1>2, <3>1, InSeqZero
      <4>2. {x \in lostJobs' : x.of = c} = {x \in lostJobs : x.of = c}
        BY <2>1, <4>1
      <4>3. InSet(lostJobs', c) = InSet(lostJobs, c)
        BY <4>2, Zenon DEF InSet
      <4> QED BY <1>1, <3>1, <4>3
    <3>2. CASE InSeq(coreQueue, c) # 0
      <4>1. InSeq(coreQueue, c) = 1 /\ InSet(lostJobs, c) = 0
        BY <1>1, <3>2 DEF OnlyOnce
      <4>2. \A x \in lostJobs : x.of # c
        BY <1>2, <4>1, InSetZero
      <4>3. PICK k : {i \in DOMAIN coreQueue : coreQueue[i].of = c} = {k}
        <5>1. IsFiniteSet({i \in DOMAIN coreQueue : coreQueue[i].of = c})
          <6>1. IsFiniteSet(DOMAIN coreQueue)
            BY <1>2, FS_Interval
          <6> QED BY <6>1, FS_Subset
        <5> QED BY <4>1, <5>1, FS_Singleton DEF InSeq
      <4>4. {x \in lostJobs' : x.of = c} = {coreQueue[k]}
        <5>1. k \in DOMAIN coreQueue /\ coreQueue[k].of = c
          BY <4>3
        <5>2. \A i \in DOMAIN coreQueue : coreQueue[i].of = c => i = k
          BY <4>3
        <5> QED BY <2>1, <4>2, <5>1, <5>2
      <4>5. Cardinality({coreQueue[k]}) = 1
        BY FS_Singleton
      <4>6. InSet(lostJobs', c) = 1
        BY <4>4, <4>5, Zenon DEF InSet
      <4> QED BY <4>1, <4>6
    <3> QED BY <3>1, <3>2
  <2>4. /\ accepted' = accepted /\ called' = called /\ pending' = pending
        /\ posted' = posted /\ task' = task /\ coreQueue' = <<>>
    BY <2>1 DEF callerVars, executorVars
  <2>5. InSeq(coreQueue', c) = 0
    BY <2>2, <2>4
  <2> HIDE DEF jobs
  <2>6. called'[c] + InSeq(coreQueue', c) + InSet(pending', c) + InSeq(posted', c)
            + InTask(task', c) + InSet(lostJobs', c)
        = called[c] + InSeq(coreQueue, c) + InSet(pending, c) + InSeq(posted, c)
            + InTask(task, c) + InSet(lostJobs, c)
    BY <1>1, <2>3, <2>4, <2>5
  <2> QED BY <2>4, <2>6 DEF OnlyOnce
<1>10. \A d \in Calls : Caller(d) => QueueJob(d)
           \/ UNCHANGED <<accepted, coreQueue, pending, posted, task, called, lostJobs>>
  BY DEF Caller, Call, Allocate, RefuseCall, Release, Return, coreVars, executorVars
<1>11. HostStarts \/ BeginStop \/ SessionChanges \/ UNCHANGED callsVars
           => UNCHANGED <<accepted, coreQueue, pending, posted, task, called, lostJobs>>
  BY DEF HostStarts, BeginStop, SessionChanges, callsVars, callerVars, coreVars, executorVars
<1> QED BY <1>3, <1>4, <1>5, <1>6, <1>7, <1>8, <1>9, <1>10, <1>11, RunTaskIs
        DEF CallsNext, CoreTask, Executor

(* The callback of an accepted call runs exactly once, unless the call     *)
(* went with a destroyed queue, and that of a refused call never           *)
(* (host.c:130-165, host_rpc.c:203).                                       *)
THEOREM CallbacksRunOnce == CallsSpec => []CalledBackOnce
<1> DEFINE Inv == CallsTypeInv /\ \A c \in Calls : OnlyOnce(c)
<1>1. CallsInit => Inv
  BY CallsTypeInit, OnceInit
<1>2. Inv /\ [CallsNext]_callsVars => Inv'
  <2> SUFFICES ASSUME Inv, [CallsNext]_callsVars PROVE Inv'
    OBVIOUS
  <2>1. CallsTypeInv'
    BY CallsTypeStep
  <2>2. ASSUME NEW c \in Calls PROVE OnlyOnce(c)'
    BY OnceStep
  <2> QED BY <2>1, <2>2
<1>3. Inv => CalledBackOnce
  BY OnceIs
<1> QED BY <1>1, <1>2, <1>3, PTL DEF CallsSpec

-----------------------------------------------------------------------------
(* Which buffer is held by whom.  Because an accepted call is in one place *)
(* only, it is enough to keep track of what each buffer is held for.       *)

AtIndex(q, c) == \E i \in DOMAIN q : q[i].of = c
Among(set, c) == \E x \in set : x.of = c

(* What OnlyOnce says of the places of a call.                             *)
Apart(q, pend, posts, k, lost, n, acc, c) ==
    /\ AtIndex(q, c) => /\ acc /\ n = 0 /\ ~Among(pend, c) /\ ~AtIndex(posts, c)
                        /\ k.of # c /\ ~Among(lost, c)
    /\ Among(pend, c) => /\ acc /\ n = 0 /\ ~AtIndex(q, c) /\ ~AtIndex(posts, c)
                         /\ k.of # c /\ ~Among(lost, c)
    /\ AtIndex(posts, c) => /\ acc /\ n = 0 /\ ~AtIndex(q, c) /\ ~Among(pend, c)
                            /\ k.of # c /\ ~Among(lost, c)
    /\ k.of = c => /\ acc /\ n = 0 /\ ~AtIndex(q, c) /\ ~Among(pend, c)
                   /\ ~AtIndex(posts, c) /\ ~Among(lost, c)
    /\ Among(lost, c) => /\ acc /\ n = 0 /\ ~AtIndex(q, c) /\ ~Among(pend, c)
                         /\ ~AtIndex(posts, c) /\ k.of # c
    /\ n # 0 => /\ ~AtIndex(q, c) /\ ~Among(pend, c) /\ ~AtIndex(posts, c)
                /\ k.of # c /\ ~Among(lost, c)

LEMMA OnceIsApart ==
    ASSUME NEW q \in Seq(RequestJobs), NEW pend, IsFiniteSet(pend), NEW posts \in Seq(Tasks),
           NEW k, NEW lost, IsFiniteSet(lost), NEW n \in Nat, NEW acc, NEW c,
           n + InSeq(q, c) + InSet(pend, c) + InSeq(posts, c) + InTask(k, c) + InSet(lost, c)
               = IF acc THEN 1 ELSE 0
    PROVE  Apart(q, pend, posts, k, lost, n, acc, c)
<1> DEFINE a == InSeq(q, c)
           b == InSet(pend, c)
           d == InSeq(posts, c)
           e == InTask(k, c)
           f == InSet(lost, c)
<1>1. a \in Nat /\ b \in Nat /\ d \in Nat /\ e \in Nat /\ f \in Nat
  BY InSeqIsCount, InSetType DEF InTask
<1>2. (a = 0 => ~AtIndex(q, c)) /\ (d = 0 => ~AtIndex(posts, c))
  BY InSeqZero DEF AtIndex
<1>3. (b = 0 => ~Among(pend, c)) /\ (f = 0 => ~Among(lost, c))
  BY InSetZero DEF Among
<1>4. e = 0 => k.of # c
  BY DEF InTask
<1>5. n + a + b + d + e + f = IF acc THEN 1 ELSE 0
  OBVIOUS
<1> HIDE DEF a, b, d, e, f
<1>6. /\ a # 0 => acc /\ n = 0 /\ b = 0 /\ d = 0 /\ e = 0 /\ f = 0
      /\ b # 0 => acc /\ n = 0 /\ a = 0 /\ d = 0 /\ e = 0 /\ f = 0
      /\ d # 0 => acc /\ n = 0 /\ a = 0 /\ b = 0 /\ e = 0 /\ f = 0
      /\ e # 0 => acc /\ n = 0 /\ a = 0 /\ b = 0 /\ d = 0 /\ f = 0
      /\ f # 0 => acc /\ n = 0 /\ a = 0 /\ b = 0 /\ d = 0 /\ e = 0
      /\ n # 0 => a = 0 /\ b = 0 /\ d = 0 /\ e = 0 /\ f = 0
  BY <1>1, <1>5
<1> QED BY <1>2, <1>3, <1>4, <1>6 DEF Apart

CallApart(c) ==
    Apart(coreQueue, pending, posted, task, lostJobs, called[c], accepted[c], c)

(* Who holds buffer b in role r for call c.                                *)
CallerHolds(b, r, c) == r \in RoleSet /\ holding[c][r] = b
QueueHolds(b, r, c) == \E i \in DOMAIN coreQueue :
    /\ coreQueue[i].of = c
    /\ (r = "job" /\ coreQueue[i].job = b) \/ (r = "request" /\ coreQueue[i].request = b)
LostHolds(b, r, c) == \E j \in lostJobs :
    j.of = c /\ ((r = "job" /\ j.job = b) \/ (r = "request" /\ j.request = b))
PendingHolds(b, r, c) == \E p \in pending : p.of = c /\ r = "request" /\ p.request = b
PostedHolds(b, r, c) == \E i \in DOMAIN posted :
    /\ posted[i].of = c
    /\ (r = "task" /\ posted[i].task = b) \/ (r = "request" /\ posted[i].request = b)
ExecutorHolds(b, r, c) ==
    /\ task.of = c
    /\ \/ r = "task" /\ task.task = b
       \/ r = "request" /\ task.request = b
       \/ r = "decoded" /\ task.decoded = b

HeldFor(b, r, c) ==
    \/ CallerHolds(b, r, c) \/ QueueHolds(b, r, c) \/ LostHolds(b, r, c)
    \/ PendingHolds(b, r, c) \/ PostedHolds(b, r, c) \/ ExecutorHolds(b, r, c)

Use(r, c) == [role |-> r, of |-> c]

(* A buffer is in use for what somebody holds it for, and for nothing else.*)
Kept == \A b \in Buffers, r \in Roles, c \in Calls : HeldFor(b, r, c) <=> buffer[b] = Use(r, c)

(* The job and the request buffer of a call that was accepted are not the  *)
(* caller's any more.                                                      *)
HandsOver == \A c \in Calls :
    accepted[c] => holding[c]["job"] = Null /\ holding[c]["request"] = Null

BuffersInv ==
    /\ CallsTypeInv /\ (\A c \in Calls : OnlyOnce(c)) /\ (\A c \in Calls : CallApart(c))
    /\ HandsOver /\ Kept

LEMMA UseFacts ==
    /\ \A r, s, c, d : Use(r, c) = Use(s, d) <=> r = s /\ c = d
    /\ \A r \in Roles, c \in Calls : Use(r, c) # Free
<1>1. \A r, s, c, d : Use(r, c) = Use(s, d) <=> r = s /\ c = d
  BY DEF Use
<1>2. ASSUME NEW r \in Roles, NEW c \in Calls PROVE Use(r, c) # Free
  <2>1. Use(r, c).role = r /\ Free.role = "free" /\ r # "free"
    BY DEF Use, Free, Roles, RoleSet
  <2> QED BY <2>1
<1> QED BY <1>1, <1>2

(* Nobody holds a free buffer, and one buffer is held for one use.         *)
LEMMA KeptFacts ==
    ASSUME BuffersInv, NEW b \in Buffers, NEW r \in Roles, NEW c \in Calls, HeldFor(b, r, c)
    PROVE  /\ buffer[b] = Use(r, c) /\ buffer[b] # Free /\ b \notin FreeBuffers
           /\ \A s \in Roles, d \in Calls : HeldFor(b, s, d) => s = r /\ d = c
<1>1. Kept
  BY DEF BuffersInv
<1>2. buffer[b] = Use(r, c)
  BY <1>1 DEF Kept
<1>3. ASSUME NEW s \in Roles, NEW d \in Calls, HeldFor(b, s, d) PROVE s = r /\ d = c
  BY <1>1, <1>2, <1>3, UseFacts DEF Kept
<1> QED BY <1>2, <1>3, UseFacts DEF FreeBuffers

LEMMA ApartIs ==
    ASSUME CallsTypeInv, NEW c \in Calls, OnlyOnce(c) PROVE CallApart(c)
<1>1. /\ coreQueue \in Seq(RequestJobs) /\ posted \in Seq(Tasks) /\ IsFiniteSet(pending)
      /\ IsFiniteSet(lostJobs) /\ called[c] \in Nat
  BY DEF CallsTypeInv, QueueTyped, PostedTyped, PendingTyped, EndsTyped
<1> QED BY <1>1, OnceIsApart DEF OnlyOnce, CallApart

(* The same after a step.                                                  *)
LEMMA ApartAfter ==
    ASSUME CallsTypeInv', NEW c \in Calls, OnlyOnce(c)' PROVE CallApart(c)'
<1>1. /\ coreQueue' \in Seq(RequestJobs) /\ posted' \in Seq(Tasks) /\ IsFiniteSet(pending')
      /\ IsFiniteSet(lostJobs') /\ called'[c] \in Nat
  BY DEF CallsTypeInv, QueueTyped, PostedTyped, PendingTyped, EndsTyped
<1>2. called'[c] + InSeq(coreQueue', c) + InSet(pending', c) + InSeq(posted', c)
          + InTask(task', c) + InSet(lostJobs', c) = IF accepted'[c] THEN 1 ELSE 0
  BY DEF OnlyOnce
<1>3. Apart(coreQueue', pending', posted', task', lostJobs', called'[c], accepted'[c], c)
  BY <1>1, <1>2, OnceIsApart
<1> QED BY <1>3 DEF CallApart

LEMMA HandsOverStep ==
    ASSUME BuffersInv, [CallsNext]_callsVars PROVE HandsOver'
<1>1. /\ HandsOver /\ CallerKnows /\ holding \in [Calls -> [RoleSet -> Pointers]]
      /\ accepted \in [Calls -> BOOLEAN]
  BY DEF BuffersInv, CallsTypeInv, CallerTyped
<1>2. "job" \in RoleSet /\ "request" \in RoleSet
  BY DEF RoleSet
<1>3. CASE UNCHANGED <<accepted, holding>>
  BY <1>1, <1>3 DEF HandsOver
<1>4. ASSUME NEW c \in Calls, Allocate(c) PROVE HandsOver'
  <2>1. PICK i \in 1 .. 4, b \in FreeBuffers : holding' = [holding EXCEPT ![c][CallerRoles[i]] = b]
    BY <1>4 DEF Allocate
  <2>2. ~accepted[c] /\ accepted' = accepted
    BY <1>1, <1>4 DEF Allocate, CallerKnows
  <2>3. \A d \in Calls : d # c => holding'[d] = holding[d]
    BY <1>1, <2>1
  <2> QED BY <1>1, <2>2, <2>3 DEF HandsOver
<1>5. ASSUME NEW c \in Calls, QueueJob(c) PROVE HandsOver'
  <2>1. /\ holding' = [holding EXCEPT ![c]["job"] = Null, ![c]["request"] = Null]
        /\ accepted' = [accepted EXCEPT ![c] = TRUE]
    BY <1>5 DEF QueueJob
  <2>2. \A d \in Calls : d # c => holding'[d] = holding[d] /\ accepted'[d] = accepted[d]
    BY <1>1, <2>1
  <2>3. holding'[c]["job"] = Null /\ holding'[c]["request"] = Null
    BY <1>1, <1>2, <2>1
  <2> QED BY <1>1, <2>2, <2>3 DEF HandsOver
<1>6. ASSUME NEW c \in Calls, Release(c) PROVE HandsOver'
  <2>1. PICK i \in 1 .. 4 : holding' = [holding EXCEPT ![c][CallerRoles[i]] = Null]
    BY <1>6 DEF Release
  <2>2. accepted' = accepted
    BY <1>6 DEF Release
  <2>3. \A d \in Calls, r \in RoleSet : holding'[d][r] = holding[d][r] \/ holding'[d][r] = Null
    BY <1>1, <2>1
  <2> QED BY <1>1, <1>2, <2>2, <2>3 DEF HandsOver
<1>7. \A c \in Calls : Caller(c) => Allocate(c) \/ QueueJob(c) \/ Release(c)
                                      \/ UNCHANGED <<accepted, holding>>
  BY DEF Caller, Call, RefuseCall, Return
<1>8. CoreTask \/ Executor => UNCHANGED <<accepted, holding>>
  BY DEF CoreTask, ProcessRpcRequest, Settle, Executor, RunTask, TaskReturns, callerVars
<1>9. HostStarts \/ BeginStop \/ HostStopReturns \/ SessionChanges \/ UNCHANGED callsVars
           => UNCHANGED <<accepted, holding>>
  BY DEF HostStarts, BeginStop, HostStopReturns, SessionChanges, callsVars, callerVars
<1> QED BY <1>3, <1>4, <1>5, <1>6, <1>7, <1>8, <1>9 DEF CallsNext

LEMMA BuffersInit == CallsInit => BuffersInv
<1> SUFFICES ASSUME CallsInit PROVE BuffersInv
  OBVIOUS
<1>1. CallsTypeInv /\ \A c \in Calls : OnlyOnce(c)
  BY CallsTypeInit, OnceInit
<1>2. \A c \in Calls : CallApart(c)
  BY <1>1, ApartIs
<1>3. coreQueue = <<>> /\ posted = <<>> /\ pending = {} /\ lostJobs = {} /\ task = NoTask
      /\ holding = [c \in Calls |-> NoneHeld] /\ accepted = [c \in Calls |-> FALSE]
      /\ buffer = [b \in Buffers |-> Free]
  BY DEF CallsInit
<1>4. HandsOver
  BY <1>3 DEF HandsOver
<1>5. ASSUME NEW b \in Buffers, NEW r \in Roles, NEW c \in Calls
      PROVE  ~HeldFor(b, r, c) /\ buffer[b] # Use(r, c)
  <2>1. buffer[b] # Use(r, c)
    BY <1>3, UseFacts
  <2>2. ~CallerHolds(b, r, c)
    BY <1>3, PointerFacts DEF CallerHolds, NoneHeld
  <2>3. DOMAIN coreQueue = {} /\ DOMAIN posted = {}
    BY <1>3
  <2>4. ~QueueHolds(b, r, c) /\ ~PostedHolds(b, r, c)
    BY <2>3 DEF QueueHolds, PostedHolds
  <2>5. ~LostHolds(b, r, c) /\ ~PendingHolds(b, r, c)
    BY <1>3 DEF LostHolds, PendingHolds
  <2>6. ~ExecutorHolds(b, r, c)
    BY <1>3 DEF ExecutorHolds, NoTask
  <2> QED BY <2>1, <2>2, <2>4, <2>5, <2>6 DEF HeldFor
<1> QED BY <1>1, <1>2, <1>4, <1>5 DEF BuffersInv, Kept

(* How the caller's steps move buffers.                                    *)
LEMMA AllocateKeeps ==
    ASSUME BuffersInv, NEW d \in Calls, Allocate(d) PROVE Kept'
<1>1. /\ holding \in [Calls -> [RoleSet -> Pointers]] /\ buffer \in [Buffers -> Uses \cup {Free}]
      /\ Kept
  BY DEF BuffersInv, CallsTypeInv, CallerTyped, BufferTyped
<1>2. PICK i \in 1 .. 4, e \in FreeBuffers :
          /\ IsNext(i, d) /\ buffer' = Taken(e, CallerRoles[i], d)
          /\ holding' = [holding EXCEPT ![d][CallerRoles[i]] = e]
  BY DEF Allocate
<1>3. PICK s \in RoleSet : s = CallerRoles[i] /\ s \in Roles
  BY RoleFacts
<1>4. holding[d][s] = Null
  BY <1>2, <1>3 DEF IsNext, Missing
<1>5. UNCHANGED <<coreQueue, pending, posted, task, lostJobs>>
  BY DEF Allocate, coreVars, executorVars
<1>6. e \in Buffers /\ buffer[e] = Free /\ buffer' = [buffer EXCEPT ![e] = Use(s, d)]
  BY <1>2, <1>3 DEF FreeBuffers, Taken, Use
<1>7. ASSUME NEW b \in Buffers, NEW r \in Roles, NEW c \in Calls
      PROVE  HeldFor(b, r, c)' <=> buffer'[b] = Use(r, c)
  <2>1. CallerHolds(b, r, c)' <=> CallerHolds(b, r, c) \/ (b = e /\ r = s /\ c = d)
    <3>1. b # Null
      BY PointerFacts
    <3>2. r \in RoleSet => holding'[c][r] = IF c = d /\ r = s THEN e ELSE holding[c][r]
      BY <1>1, <1>2, <1>3
    <3> QED BY <1>3, <1>4, <3>1, <3>2 DEF CallerHolds
  <2>2. HeldFor(b, r, c)' <=> HeldFor(b, r, c) \/ (b = e /\ r = s /\ c = d)
    BY <1>5, <2>1 DEF HeldFor, QueueHolds, LostHolds, PendingHolds, PostedHolds, ExecutorHolds
  <2>3. HeldFor(b, r, c) <=> buffer[b] = Use(r, c)
    BY <1>1 DEF Kept
  <2>4. CASE b = e
    <3>1. buffer'[b] = Use(s, d) /\ buffer[b] # Use(r, c)
      BY <1>1, <1>6, <2>4, UseFacts
    <3> QED BY <2>2, <2>3, <2>4, <3>1, UseFacts
  <2>5. CASE b # e
    <3>1. buffer'[b] = buffer[b]
      BY <1>1, <1>6, <2>5
    <3> QED BY <2>2, <2>3, <2>5, <3>1
  <2> QED BY <2>4, <2>5
<1> QED BY <1>7 DEF Kept

LEMMA QueueJobKeeps ==
    ASSUME BuffersInv, NEW d \in Calls, QueueJob(d) PROVE Kept'
<1> DEFINE j == [of |-> d, job |-> holding[d]["job"], request |-> holding[d]["request"]]
<1>1. /\ holding \in [Calls -> [RoleSet -> Pointers]] /\ Kept /\ coreQueue \in Seq(RequestJobs)
  BY DEF BuffersInv, CallsTypeInv, CallerTyped, QueueTyped
<1>2. /\ holding' = [holding EXCEPT ![d]["job"] = Null, ![d]["request"] = Null]
      /\ coreQueue' = Append(coreQueue, j) /\ buffer' = buffer
      /\ UNCHANGED <<pending, posted, task, lostJobs>>
  BY DEF QueueJob, Queued, executorVars
<1>3. j \in RequestJobs
  BY JobInHand DEF BuffersInv, RequestJobs
<1>4. "job" \in RoleSet /\ "request" \in RoleSet
  BY DEF RoleSet
<1>5. j.of = d /\ j.job = holding[d]["job"] /\ j.request = holding[d]["request"]
  OBVIOUS
<1> HIDE DEF j
<1>6. ASSUME NEW b \in Buffers, NEW r \in Roles, NEW c \in Calls
      PROVE  HeldFor(b, r, c)' <=> HeldFor(b, r, c)
  <2> DEFINE mine == c = d /\ r \in {"job", "request"} /\ holding[d][r] = b
  <2>1. b # Null
    BY PointerFacts
  <2>2. CallerHolds(b, r, c)' <=> CallerHolds(b, r, c) /\ ~mine
    <3>1. r \in RoleSet => holding'[c][r] = IF c = d /\ r \in {"job", "request"} THEN Null
                                             ELSE holding[c][r]
      BY <1>1, <1>2, <1>4
    <3> QED BY <1>4, <2>1, <3>1 DEF CallerHolds
  <2>3. mine => CallerHolds(b, r, c)
    BY <1>4 DEF CallerHolds
  <2>4. QueueHolds(b, r, c)' <=> QueueHolds(b, r, c) \/ mine
    <3>1. /\ DOMAIN coreQueue' = DOMAIN coreQueue \cup {Len(coreQueue) + 1}
          /\ coreQueue'[Len(coreQueue) + 1] = j
          /\ \A i \in DOMAIN coreQueue : coreQueue'[i] = coreQueue[i]
      BY <1>1, <1>2, <1>3
    <3>2. mine <=> /\ j.of = c
                   /\ (r = "job" /\ j.job = b) \/ (r = "request" /\ j.request = b)
      BY <1>5
    <3> HIDE DEF mine
    <3> QED BY <3>1, <3>2 DEF QueueHolds
  <2> HIDE DEF mine
  <2>5. /\ LostHolds(b, r, c)' <=> LostHolds(b, r, c)
        /\ PendingHolds(b, r, c)' <=> PendingHolds(b, r, c)
        /\ PostedHolds(b, r, c)' <=> PostedHolds(b, r, c)
        /\ ExecutorHolds(b, r, c)' <=> ExecutorHolds(b, r, c)
    BY <1>2 DEF LostHolds, PendingHolds, PostedHolds, ExecutorHolds
  <2> QED BY <2>2, <2>3, <2>4, <2>5 DEF HeldFor
<1> QED BY <1>1, <1>2, <1>6 DEF Kept

LEMMA ReleaseKeeps ==
    ASSUME BuffersInv, NEW d \in Calls, Release(d) PROVE Kept'
<1>1. /\ holding \in [Calls -> [RoleSet -> Pointers]] /\ buffer \in [Buffers -> Uses \cup {Free}]
      /\ Kept /\ HandsOver /\ BufferTyped /\ CallApart(d)
  BY DEF BuffersInv, CallsTypeInv, CallerTyped, BufferTyped
<1>2. PICK s \in RoleSet :
          /\ holding[d][s] # Null /\ buffer' = Freed({holding[d][s]})
          /\ holding' = [holding EXCEPT ![d][s] = Null]
  BY RoleFacts DEF Release
<1>3. PICK e \in Buffers : e = holding[d][s]
  <2>1. holding[d][s] \in Pointers
    BY <1>1
  <2> QED BY <1>2, <2>1, PointerFacts
<1>4. s \in Roles
  BY RoleFacts
<1>5. UNCHANGED <<coreQueue, pending, posted, task, lostJobs>>
  BY DEF Release, coreVars, executorVars
<1>6. CallerHolds(e, s, d) /\ HeldFor(e, s, d)
  BY <1>3 DEF CallerHolds, HeldFor
<1>7. /\ ~QueueHolds(e, s, d) /\ ~LostHolds(e, s, d) /\ ~PendingHolds(e, s, d)
      /\ ~PostedHolds(e, s, d) /\ ~ExecutorHolds(e, s, d)
  <2>1. CASE s \in {"job", "request"}
    <3>1. ~accepted[d]
      BY <1>1, <1>2, <2>1 DEF HandsOver
    <3> QED BY <1>1, <3>1 DEF CallApart, Apart, AtIndex, Among, QueueHolds, LostHolds,
                PendingHolds, PostedHolds, ExecutorHolds
  <2>2. CASE s \in {"message", "payload"}
    BY <2>2 DEF QueueHolds, LostHolds, PendingHolds, PostedHolds, ExecutorHolds
  <2> QED BY <2>1, <2>2 DEF RoleSet
<1>8. ASSUME NEW b \in Buffers, NEW r \in Roles, NEW c \in Calls
      PROVE  HeldFor(b, r, c)' <=> buffer'[b] = Use(r, c)
  <2>1. b # Null
    BY PointerFacts
  <2>2. CallerHolds(b, r, c)' <=> CallerHolds(b, r, c) /\ ~(r = s /\ c = d)
    <3>1. r \in RoleSet => holding'[c][r] = IF c = d /\ r = s THEN Null ELSE holding[c][r]
      BY <1>1, <1>2
    <3> QED BY <2>1, <3>1 DEF CallerHolds
  <2>3. /\ QueueHolds(b, r, c)' <=> QueueHolds(b, r, c)
        /\ LostHolds(b, r, c)' <=> LostHolds(b, r, c)
        /\ PendingHolds(b, r, c)' <=> PendingHolds(b, r, c)
        /\ PostedHolds(b, r, c)' <=> PostedHolds(b, r, c)
        /\ ExecutorHolds(b, r, c)' <=> ExecutorHolds(b, r, c)
    BY <1>5 DEF QueueHolds, LostHolds, PendingHolds, PostedHolds, ExecutorHolds
  <2>4. HeldFor(b, r, c) <=> buffer[b] = Use(r, c)
    BY <1>1 DEF Kept
  <2>5. buffer'[b] = IF b = e THEN Free ELSE buffer[b]
    BY <1>1, <1>2, <1>3, FreedTyped
  <2>6. CASE b = e
    <3>1. HeldFor(b, r, c)' => r = s /\ c = d
      <4>1. HeldFor(b, r, c)' => HeldFor(b, r, c)
        BY <2>2, <2>3 DEF HeldFor
      <4> QED BY <1>4, <1>6, <2>6, <4>1, KeptFacts
    <3>2. ~HeldFor(b, r, c)'
      <4>1. SUFFICES ASSUME r = s, c = d PROVE ~HeldFor(b, r, c)'
        BY <3>1
      <4> QED BY <1>7, <2>2, <2>3, <2>6, <4>1 DEF HeldFor
    <3> QED BY <2>5, <2>6, <3>2, UseFacts
  <2>7. CASE b # e
    <3>1. ~(CallerHolds(b, r, c) /\ r = s /\ c = d)
      BY <1>3, <2>7 DEF CallerHolds
    <3>2. HeldFor(b, r, c)' <=> HeldFor(b, r, c)
      BY <2>2, <2>3, <3>1 DEF HeldFor
    <3> QED BY <2>4, <2>5, <2>7, <3>2
  <2> QED BY <2>6, <2>7
<1> QED BY <1>8 DEF Kept

(* Who no longer holds anything after a step.                              *)
LEMMA NothingHeld ==
    ASSUME HandsOver', NEW c \in Calls, CallApart(c)', accepted'[c], NEW b \in Buffers
    PROVE  /\ Among(pending', c) \/ AtIndex(posted', c) => ~HeldFor(b, "job", c)'
           /\ called'[c] # 0 => \A r \in {"job", "request", "task", "decoded"} : ~HeldFor(b, r, c)'
<1>1. ~CallerHolds(b, "job", c)' /\ ~CallerHolds(b, "request", c)'
  BY PointerFacts DEF HandsOver, CallerHolds
<1>2. ~CallerHolds(b, "task", c)' /\ ~CallerHolds(b, "decoded", c)'
  BY DEF CallerHolds, RoleSet
<1>3. Apart(coreQueue', pending', posted', task', lostJobs', called'[c], accepted'[c], c)
  BY DEF CallApart
<1>4. /\ ~AtIndex(coreQueue', c) => \A r : ~QueueHolds(b, r, c)'
      /\ ~Among(lostJobs', c) => \A r : ~LostHolds(b, r, c)'
      /\ ~Among(pending', c) => \A r : ~PendingHolds(b, r, c)'
      /\ ~AtIndex(posted', c) => \A r : ~PostedHolds(b, r, c)'
      /\ task'.of # c => \A r : ~ExecutorHolds(b, r, c)'
  BY DEF AtIndex, Among, QueueHolds, LostHolds, PendingHolds, PostedHolds, ExecutorHolds
<1>5. ~PendingHolds(b, "job", c)' /\ ~PostedHolds(b, "job", c)' /\ ~ExecutorHolds(b, "job", c)'
  BY DEF PendingHolds, PostedHolds, ExecutorHolds
<1>6. ASSUME Among(pending', c) \/ AtIndex(posted', c) PROVE ~HeldFor(b, "job", c)'
  BY <1>1, <1>3, <1>4, <1>5, <1>6 DEF Apart, HeldFor
<1>7. ASSUME called'[c] # 0, NEW r \in {"job", "request", "task", "decoded"}
      PROVE  ~HeldFor(b, r, c)'
  <2>1. ~CallerHolds(b, r, c)'
    BY <1>1, <1>2
  <2> QED BY <1>3, <1>4, <1>7, <2>1 DEF Apart, HeldFor
<1> QED BY <1>6, <1>7

LEMMA TaskReturnsKeeps ==
    ASSUME BuffersInv, TaskReturns, HandsOver', \A c \in Calls : CallApart(c)' PROVE Kept'
<1>1. /\ Kept /\ HandsOver /\ BufferTyped /\ called \in [Calls -> Nat] /\ task \in Running \cup {NoTask}
      /\ \A c \in Calls : CallApart(c)
  BY DEF BuffersInv, CallsTypeInv, PostedTyped, EndsTyped
<1>2. /\ task # NoTask /\ task' = NoTask /\ called' = [called EXCEPT ![task.of] = @ + 1]
      /\ buffer' = Freed({task.task, task.request, task.decoded})
      /\ UNCHANGED <<accepted, holding, coreQueue, pending, posted, lostJobs>>
  BY DEF TaskReturns, Complete, TaskBuffers, callerVars, coreVars
<1>3. PICK d \in Calls : d = task.of
  BY <1>1, <1>2 DEF Running
<1>4. accepted[d] /\ called[d] = 0
  BY <1>1, <1>3 DEF CallApart, Apart
<1>5. accepted'[d] /\ called'[d] # 0
  BY <1>1, <1>2, <1>3, <1>4
<1>6. CallApart(d)'
  BY <1>3
<1>7. ASSUME NEW b \in Buffers, NEW r \in Roles, NEW c \in Calls
      PROVE  HeldFor(b, r, c)' <=> buffer'[b] = Use(r, c)
  <2> DEFINE gone == b \in {task.task, task.request, task.decoded}
  <2>1. /\ CallerHolds(b, r, c)' <=> CallerHolds(b, r, c)
        /\ QueueHolds(b, r, c)' <=> QueueHolds(b, r, c)
        /\ LostHolds(b, r, c)' <=> LostHolds(b, r, c)
        /\ PendingHolds(b, r, c)' <=> PendingHolds(b, r, c)
        /\ PostedHolds(b, r, c)' <=> PostedHolds(b, r, c)
    BY <1>2 DEF CallerHolds, QueueHolds, LostHolds, PendingHolds, PostedHolds
  <2>2. ~ExecutorHolds(b, r, c)'
    BY <1>2 DEF ExecutorHolds, NoTask
  <2>3. HeldFor(b, r, c) <=> buffer[b] = Use(r, c)
    BY <1>1 DEF Kept
  <2>4. buffer'[b] = IF gone THEN Free ELSE buffer[b]
    BY <1>1, <1>2, FreedTyped
  <2>5. CASE gone
    <3>1. PICK s \in {"task", "request", "decoded"} : ExecutorHolds(b, s, d)
      BY <1>3, <2>5 DEF ExecutorHolds
    <3>2. HeldFor(b, s, d) /\ s \in Roles
      BY <3>1, RoleFacts DEF HeldFor
    <3>3. HeldFor(b, r, c)' => r = s /\ c = d
      <4>1. HeldFor(b, r, c)' => HeldFor(b, r, c)
        BY <2>1, <2>2 DEF HeldFor
      <4> QED BY <3>2, <4>1, KeptFacts
    <3>4. \A t \in {"job", "request", "task", "decoded"} : ~HeldFor(b, t, d)'
      BY <1>5, <1>6, NothingHeld
    <3>5. ~HeldFor(b, s, d)'
      BY <3>4
    <3>6. ~HeldFor(b, r, c)'
      BY <3>3, <3>5
    <3> QED BY <2>4, <2>5, <3>6, UseFacts
  <2>6. CASE ~gone
    <3>1. ~ExecutorHolds(b, r, c)
      BY <2>6 DEF ExecutorHolds
    <3>2. HeldFor(b, r, c)' <=> HeldFor(b, r, c)
      BY <2>1, <2>2, <3>1 DEF HeldFor
    <3> QED BY <2>3, <2>4, <2>6, <3>2
  <2> QED BY <2>5, <2>6
<1> QED BY <1>7 DEF Kept

LEMMA TailIs ==
    ASSUME NEW T, NEW q \in Seq(T), q # <<>>
    PROVE  /\ Head(q) = q[1] /\ 1 \in DOMAIN q /\ Len(q) \in Nat /\ DOMAIN q = 1 .. Len(q)
           /\ DOMAIN Tail(q) = 1 .. Len(q) - 1
           /\ \A i \in 1 .. Len(q) - 1 : Tail(q)[i] = q[i + 1]
<1>1. Head(q) = q[1] /\ 1 \in DOMAIN q /\ Len(q) \in Nat /\ DOMAIN q = 1 .. Len(q)
  OBVIOUS
<1>2. Tail(q) \in Seq(T) /\ Len(Tail(q)) = Len(q) - 1
  OBVIOUS
<1>3. \A i \in 1 .. Len(q) - 1 : Tail(q)[i] = q[i + 1]
  BY <1>2
<1> QED BY <1>1, <1>2, <1>3

LEMMA RunTaskKeeps ==
    ASSUME BuffersInv, NEW e, Runs(e) PROVE Kept'
<1>1. /\ Kept /\ BufferTyped /\ buffer \in [Buffers -> Uses \cup {Free}] /\ posted \in Seq(Tasks)
  BY DEF BuffersInv, CallsTypeInv, PostedTyped, BufferTyped
<1> DEFINE k == Head(posted)
<1>2. /\ task = NoTask /\ posted # <<>> /\ posted' = Tail(posted)
      /\ task' = [of |-> k.of, task |-> k.task, request |-> k.request, decoded |-> e]
      /\ \/ e = Null /\ buffer' = buffer
         \/ e \in FreeBuffers /\ buffer' = [buffer EXCEPT ![e] = Use("decoded", k.of)]
      /\ UNCHANGED <<holding, coreQueue, pending, lostJobs>>
  BY DEF Runs, Taken, Use, callerVars, coreVars
<1>3. /\ k = posted[1] /\ 1 \in DOMAIN posted /\ k.of \in Calls
      /\ DOMAIN posted' = 1 .. Len(posted) - 1
      /\ DOMAIN posted = 1 .. Len(posted) /\ Len(posted) \in Nat
      /\ \A i \in 1 .. Len(posted) - 1 : posted'[i] = posted[i + 1]
  <2>1. k \in Tasks
    BY <1>1, <1>2
  <2>2. k.of \in Calls
    BY <2>1 DEF Tasks
  <2> QED BY <1>1, <1>2, <2>2, TailIs
<1> HIDE DEF k
<1>4. ASSUME NEW b \in Buffers, NEW r \in Roles, NEW c \in Calls
      PROVE  HeldFor(b, r, c)' <=> buffer'[b] = Use(r, c)
  <2> DEFINE head == /\ k.of = c
                     /\ (r = "task" /\ k.task = b) \/ (r = "request" /\ k.request = b)
             new == b = e /\ r = "decoded" /\ c = k.of
  <2>1. /\ CallerHolds(b, r, c)' <=> CallerHolds(b, r, c)
        /\ QueueHolds(b, r, c)' <=> QueueHolds(b, r, c)
        /\ LostHolds(b, r, c)' <=> LostHolds(b, r, c)
        /\ PendingHolds(b, r, c)' <=> PendingHolds(b, r, c)
    BY <1>2 DEF CallerHolds, QueueHolds, LostHolds, PendingHolds
  <2>2. PostedHolds(b, r, c) <=> PostedHolds(b, r, c)' \/ head
    <3>1. ASSUME PostedHolds(b, r, c) PROVE PostedHolds(b, r, c)' \/ head
      <4>1. PICK i \in DOMAIN posted :
                /\ posted[i].of = c
                /\ \/ r = "task" /\ posted[i].task = b
                   \/ r = "request" /\ posted[i].request = b
        BY <3>1 DEF PostedHolds
      <4>2. CASE i = 1
        BY <1>3, <4>1, <4>2
      <4>3. CASE i # 1
        <5>1. i - 1 \in DOMAIN posted' /\ posted'[i - 1] = posted[i]
          BY <1>3, <4>3
        <5> QED BY <4>1, <5>1 DEF PostedHolds
      <4> QED BY <4>2, <4>3
    <3>2. ASSUME PostedHolds(b, r, c)' PROVE PostedHolds(b, r, c)
      <4>1. PICK i \in DOMAIN posted' :
                /\ posted'[i].of = c
                /\ \/ r = "task" /\ posted'[i].task = b
                   \/ r = "request" /\ posted'[i].request = b
        BY <3>2 DEF PostedHolds
      <4>2. i + 1 \in DOMAIN posted /\ posted'[i] = posted[i + 1]
        BY <1>3
      <4> QED BY <4>1, <4>2 DEF PostedHolds
    <3>3. head => PostedHolds(b, r, c)
      BY <1>3 DEF PostedHolds
    <3> QED BY <3>1, <3>2, <3>3
  <2>3. ~ExecutorHolds(b, r, c)
    BY <1>2 DEF ExecutorHolds, NoTask
  <2>4. ExecutorHolds(b, r, c)' <=> head \/ new
    <3>1. /\ task'.of = k.of /\ task'.task = k.task /\ task'.request = k.request
          /\ task'.decoded = e
      BY <1>2
    <3> QED BY <3>1 DEF ExecutorHolds
  <2>5. HeldFor(b, r, c)' <=> HeldFor(b, r, c) \/ new
    <3> HIDE DEF head, new
    <3> QED BY <2>1, <2>2, <2>3, <2>4 DEF HeldFor
  <2>6. HeldFor(b, r, c) <=> buffer[b] = Use(r, c)
    BY <1>1 DEF Kept
  <2>7. CASE e = Null /\ buffer' = buffer
    BY <2>5, <2>6, <2>7, PointerFacts
  <2>8. CASE /\ e \in FreeBuffers /\ buffer' = [buffer EXCEPT ![e] = Use("decoded", k.of)]
             /\ b = e
    <3>1. buffer[b] = Free /\ buffer'[b] = Use("decoded", k.of)
      BY <1>1, <2>8 DEF FreeBuffers
    <3> QED BY <2>5, <2>6, <2>8, <3>1, UseFacts
  <2>9. CASE /\ e \in FreeBuffers /\ buffer' = [buffer EXCEPT ![e] = Use("decoded", k.of)]
             /\ b # e
    <3>1. buffer'[b] = buffer[b]
      BY <1>1, <2>9
    <3> QED BY <2>5, <2>6, <2>9, <3>1
  <2> QED BY <1>2, <2>7, <2>8, <2>9
<1> QED BY <1>4 DEF Kept

LEMMA StopKeeps ==
    ASSUME BuffersInv, HostStopReturns PROVE Kept'
<1>1. /\ coreQueue' = <<>> /\ buffer' = buffer
      /\ lostJobs' = lostJobs \cup {coreQueue[i] : i \in DOMAIN coreQueue}
      /\ UNCHANGED <<holding, pending, posted, task>>
  BY DEF HostStopReturns, callerVars, executorVars
<1>2. DOMAIN coreQueue' = {}
  BY <1>1
<1>3. ASSUME NEW b \in Buffers, NEW r \in Roles, NEW c \in Calls
      PROVE  HeldFor(b, r, c)' <=> HeldFor(b, r, c)
  <2>1. /\ CallerHolds(b, r, c)' <=> CallerHolds(b, r, c)
        /\ PendingHolds(b, r, c)' <=> PendingHolds(b, r, c)
        /\ PostedHolds(b, r, c)' <=> PostedHolds(b, r, c)
        /\ ExecutorHolds(b, r, c)' <=> ExecutorHolds(b, r, c)
    BY <1>1 DEF CallerHolds, PendingHolds, PostedHolds, ExecutorHolds
  <2>2. ~QueueHolds(b, r, c)'
    BY <1>2 DEF QueueHolds
  <2>3. LostHolds(b, r, c)' <=> LostHolds(b, r, c) \/ QueueHolds(b, r, c)
    BY <1>1 DEF LostHolds, QueueHolds
  <2> QED BY <2>1, <2>2, <2>3 DEF HeldFor
<1>4. Kept
  BY DEF BuffersInv
<1> QED BY <1>1, <1>3, <1>4 DEF Kept

(* A completion is dispatched: its request buffer goes with the task, or   *)
(* is freed; what the core task frees besides is the job's.                *)
RequestOf(p, b, r, c) == c = p.of /\ r = "request" /\ p.request = b
Others(b, r, c) ==
    \/ CallerHolds(b, r, c)' \/ QueueHolds(b, r, c)' \/ LostHolds(b, r, c)'
    \/ PendingHolds(b, r, c)' \/ PostedHolds(b, r, c) \/ ExecutorHolds(b, r, c)'

LEMMA DispatchKeeps ==
    ASSUME BuffersInv, HandsOver', NEW p \in Slots, CallApart(p.of)', accepted'[p.of],
           NEW ok \in BOOLEAN, NEW bs \in SUBSET Buffers, Dispatch(p, ok, bs),
           \A b \in Buffers, r \in Roles, c \in Calls :
               HeldFor(b, r, c) <=> \/ Others(b, r, c) \/ RequestOf(p, b, r, c)
                                  \/ (c = p.of /\ r = "job" /\ b \in bs)
    PROVE  Kept'
<1>1. /\ Kept /\ BufferTyped /\ posted \in Seq(Tasks)
      /\ called \in [Calls -> Nat] /\ p.of \in Calls
  BY DEF BuffersInv, CallsTypeInv, PostedTyped, EndsTyped, Slots
<1>2. /\ Freed(bs) \in [Buffers -> Uses \cup {Free}]
      /\ \A b \in Buffers : Freed(bs)[b] = IF b \in bs THEN Free ELSE buffer[b]
  BY <1>1, FreedTyped
<1>3. \A b \in bs : HeldFor(b, "job", p.of) /\ b \in Buffers
  BY <1>1, RoleFacts
<1>4. "job" \in Roles /\ "request" \in Roles /\ "task" \in Roles
  BY RoleFacts
<1>5. ASSUME NEW e, Dispatched(p, e, ok, bs) PROVE Kept'
  <2> DEFINE k == [of |-> p.of, task |-> e, request |-> p.request, ok |-> ok]
  <2>1. /\ e \in FreeBuffers /\ buffer' = [Freed(bs) EXCEPT ![e] = Use("task", p.of)]
        /\ posted' = Append(posted, k) /\ e \in Buffers
    BY <1>5, PointerFacts DEF Dispatched, Use
  <2>2. k \in Tasks
    BY <1>1, <2>1 DEF Tasks, Slots
  <2>3. k.of = p.of /\ k.task = e /\ k.request = p.request
    OBVIOUS
  <2> HIDE DEF k
  <2>4. /\ DOMAIN posted' = DOMAIN posted \cup {Len(posted) + 1}
        /\ posted'[Len(posted) + 1] = k
        /\ \A i \in DOMAIN posted : posted'[i] = posted[i]
    BY <1>1, <2>1, <2>2
  <2>5. AtIndex(posted', p.of)
    BY <2>3, <2>4 DEF AtIndex
  <2>6. ASSUME NEW b \in Buffers, NEW r \in Roles, NEW c \in Calls
        PROVE  HeldFor(b, r, c)' <=> buffer'[b] = Use(r, c)
    <3> DEFINE new == b = e /\ r = "task" /\ c = p.of
    <3>1. PostedHolds(b, r, c)' <=> PostedHolds(b, r, c) \/ RequestOf(p, b, r, c) \/ new
      BY <2>3, <2>4 DEF PostedHolds, RequestOf
    <3>2. HeldFor(b, r, c)' <=> Others(b, r, c) \/ RequestOf(p, b, r, c) \/ new
      <4> HIDE DEF new
      <4> QED BY <3>1 DEF HeldFor, Others
    <3>3. HeldFor(b, r, c) <=> buffer[b] = Use(r, c)
      BY <1>1 DEF Kept
    <3>4. CASE b = e
      <4>1. buffer'[b] = Use("task", p.of) /\ buffer[b] = Free
        BY <1>2, <2>1, <3>4 DEF FreeBuffers
      <4>2. ~HeldFor(b, r, c)
        BY <3>3, <4>1, UseFacts
      <4>3. HeldFor(b, r, c)' <=> new
        BY <3>2, <4>2
      <4> QED BY <3>4, <4>1, <4>3, UseFacts
    <3>5. CASE b # e /\ b \in bs
      <4>1. buffer'[b] = Free
        BY <1>2, <2>1, <3>5
      <4>2. HeldFor(b, r, c)' => HeldFor(b, r, c)
        BY <3>2, <3>5
      <4>3. HeldFor(b, r, c) => r = "job" /\ c = p.of
        BY <1>1, <1>3, <1>4, <3>5, KeptFacts
      <4>4. ~HeldFor(b, "job", p.of)'
        BY <1>1, <2>5, NothingHeld
      <4>5. ~HeldFor(b, r, c)'
        BY <4>2, <4>3, <4>4
      <4> QED BY <4>1, <4>5, UseFacts
    <3>6. CASE b # e /\ b \notin bs
      <4>1. buffer'[b] = buffer[b]
        BY <1>2, <2>1, <3>6
      <4>2. HeldFor(b, r, c)' <=> HeldFor(b, r, c)
        BY <3>2, <3>6
      <4> QED BY <3>3, <4>1, <4>2
    <3> QED BY <3>4, <3>5, <3>6
  <2> QED BY <2>6 DEF Kept
<1>6. CASE CompletedHere(p, bs)
  <2>1. /\ called' = [called EXCEPT ![p.of] = @ + 1] /\ posted' = posted
        /\ buffer' = Freed(bs \cup {p.request})
    BY <1>6 DEF CompletedHere, Complete
  <2>2. called'[p.of] # 0
    <3>1. called[p.of] \in Nat /\ called'[p.of] = called[p.of] + 1
      BY <1>1, <2>1
    <3> QED BY <3>1
  <2>3. ASSUME NEW b \in Buffers, NEW r \in Roles, NEW c \in Calls
        PROVE  HeldFor(b, r, c)' <=> buffer'[b] = Use(r, c)
    <3> DEFINE gone == b \in bs \cup {p.request}
    <3>1. HeldFor(b, r, c)' <=> Others(b, r, c)
      BY <2>1 DEF HeldFor, Others, PostedHolds
    <3>2. HeldFor(b, r, c) <=> buffer[b] = Use(r, c)
      BY <1>1 DEF Kept
    <3>3. buffer'[b] = IF gone THEN Free ELSE buffer[b]
      BY <1>1, <2>1, FreedTyped
    <3>4. CASE gone
      <4>1. PICK s \in {"job", "request"} : HeldFor(b, s, p.of)
        BY <1>1, <1>3, <1>4, <3>4 DEF RequestOf
      <4>2. HeldFor(b, r, c) => r = s /\ c = p.of
        BY <1>1, <1>4, <4>1, KeptFacts
      <4>3. HeldFor(b, r, c)' => HeldFor(b, r, c)
        BY <3>1
      <4>4. \A t \in {"job", "request", "task", "decoded"} : ~HeldFor(b, t, p.of)'
        BY <1>1, <2>2, NothingHeld
      <4>5. ~HeldFor(b, s, p.of)'
        BY <4>4
      <4>6. ~HeldFor(b, r, c)'
        BY <4>2, <4>3, <4>5
      <4> QED BY <3>3, <3>4, <4>6, UseFacts
    <3>5. CASE ~gone
      <4>1. HeldFor(b, r, c)' <=> HeldFor(b, r, c)
        BY <3>1, <3>5 DEF RequestOf
      <4> QED BY <3>2, <3>3, <3>5, <4>1
    <3> QED BY <3>4, <3>5
  <2> QED BY <2>3 DEF Kept
<1> QED BY <1>5, <1>6, DispatchIs

LEMMA ProcessRpcRequestKeeps ==
    ASSUME BuffersInv, ProcessRpcRequest, HandsOver', \A c \in Calls : CallApart(c)'
    PROVE  Kept'
<1>1. /\ Kept /\ BufferTyped /\ CallsTypeInv /\ coreQueue \in Seq(RequestJobs)
      /\ \A c \in Calls : CallApart(c)
  BY DEF BuffersInv, CallsTypeInv, QueueTyped
<1>0. coreQueue # <<>>
  BY DEF ProcessRpcRequest
<1> PICK j \in RequestJobs : j = Head(coreQueue)
  BY <1>0, <1>1, JobAtHead
<1> DEFINE p == [of |-> j.of, request |-> j.request]
<1>2. /\ coreQueue # <<>> /\ coreQueue' = Tail(coreQueue)
      /\ UNCHANGED <<holding, accepted, task, lostJobs>>
      /\ \/ /\ pending' = pending \cup {p} /\ buffer' = Freed({j.job})
            /\ UNCHANGED <<posted, called>>
         \/ Dispatch(p, FALSE, {j.job}) /\ UNCHANGED pending
  BY DEF ProcessRpcRequest, callerVars
<1>3. /\ p \in Slots /\ p.of = j.of /\ p.request = j.request
      /\ j.job \in Buffers /\ j.of \in Calls
  BY <1>1, <1>2, JobAtHead DEF RequestJobs
<1>4. /\ j = coreQueue[1] /\ 1 \in DOMAIN coreQueue /\ Len(coreQueue) \in Nat
      /\ DOMAIN coreQueue' = 1 .. Len(coreQueue) - 1 /\ DOMAIN coreQueue = 1 .. Len(coreQueue)
      /\ \A i \in 1 .. Len(coreQueue) - 1 : coreQueue'[i] = coreQueue[i + 1]
  BY <1>1, <1>2, TailIs
<1>5. AtIndex(coreQueue, j.of)
  BY <1>4 DEF AtIndex
<1>6. accepted[j.of]
  BY <1>1, <1>3, <1>5 DEF CallApart, Apart
<1>7. accepted'[p.of] /\ CallApart(p.of)'
  BY <1>2, <1>3, <1>6
<1> HIDE DEF p
<1>8. ASSUME NEW b \in Buffers, NEW r \in Roles, NEW c \in Calls
      PROVE  QueueHolds(b, r, c) <=> \/ QueueHolds(b, r, c)' \/ RequestOf(p, b, r, c)
                                     \/ (c = p.of /\ r = "job" /\ b \in {j.job})
  <2>1. ASSUME QueueHolds(b, r, c)
        PROVE  \/ QueueHolds(b, r, c)' \/ RequestOf(p, b, r, c)
               \/ (c = p.of /\ r = "job" /\ b \in {j.job})
    <3>1. PICK i \in DOMAIN coreQueue :
              /\ coreQueue[i].of = c
              /\ \/ r = "job" /\ coreQueue[i].job = b
                 \/ r = "request" /\ coreQueue[i].request = b
      BY <2>1 DEF QueueHolds
    <3>2. CASE i = 1
      BY <1>3, <1>4, <3>1, <3>2 DEF RequestOf
    <3>3. CASE i # 1
      <4>1. i - 1 \in DOMAIN coreQueue' /\ coreQueue'[i - 1] = coreQueue[i]
        BY <1>4, <3>3
      <4> QED BY <3>1, <4>1 DEF QueueHolds
    <3> QED BY <3>2, <3>3
  <2>2. ASSUME QueueHolds(b, r, c)' PROVE QueueHolds(b, r, c)
    <3>1. PICK i \in DOMAIN coreQueue' :
              /\ coreQueue'[i].of = c
              /\ \/ r = "job" /\ coreQueue'[i].job = b
                 \/ r = "request" /\ coreQueue'[i].request = b
      BY <2>2 DEF QueueHolds
    <3>2. i + 1 \in DOMAIN coreQueue /\ coreQueue'[i] = coreQueue[i + 1]
      BY <1>4
    <3> QED BY <3>1, <3>2 DEF QueueHolds
  <2>3. RequestOf(p, b, r, c) \/ (c = p.of /\ r = "job" /\ b \in {j.job}) => QueueHolds(b, r, c)
    BY <1>3, <1>4 DEF QueueHolds, RequestOf
  <2> QED BY <2>1, <2>2, <2>3
<1>9. CASE /\ pending' = pending \cup {p} /\ buffer' = Freed({j.job})
           /\ UNCHANGED <<posted, called>>
  <2>1. ASSUME NEW b \in Buffers, NEW r \in Roles, NEW c \in Calls
        PROVE  HeldFor(b, r, c)' <=> buffer'[b] = Use(r, c)
    <3> DEFINE jobs == c = p.of /\ r = "job" /\ b \in {j.job}
    <3>1. PendingHolds(b, r, c)' <=> PendingHolds(b, r, c) \/ RequestOf(p, b, r, c)
      BY <1>9 DEF PendingHolds, RequestOf
    <3>2. /\ CallerHolds(b, r, c)' <=> CallerHolds(b, r, c)
          /\ LostHolds(b, r, c)' <=> LostHolds(b, r, c)
          /\ PostedHolds(b, r, c)' <=> PostedHolds(b, r, c)
          /\ ExecutorHolds(b, r, c)' <=> ExecutorHolds(b, r, c)
      BY <1>2, <1>9 DEF CallerHolds, LostHolds, PostedHolds, ExecutorHolds
    <3>3. QueueHolds(b, r, c) <=> QueueHolds(b, r, c)' \/ RequestOf(p, b, r, c) \/ jobs
      BY <1>8
    <3>4. HeldFor(b, r, c) <=> HeldFor(b, r, c)' \/ jobs
      <4> HIDE DEF jobs
      <4> QED BY <3>1, <3>2, <3>3 DEF HeldFor
    <3>5. HeldFor(b, r, c) <=> buffer[b] = Use(r, c)
      BY <1>1 DEF Kept
    <3>6. buffer'[b] = IF b \in {j.job} THEN Free ELSE buffer[b]
      BY <1>1, <1>9, FreedTyped
    <3>7. CASE b = j.job
      <4>1. HeldFor(b, "job", p.of)
        <5>1. QueueHolds(b, "job", p.of)
          BY <1>3, <1>4, <3>7 DEF QueueHolds
        <5> QED BY <5>1 DEF HeldFor
      <4>2. HeldFor(b, r, c) => r = "job" /\ c = p.of
        BY <1>3, <4>1, KeptFacts, RoleFacts
      <4>3. Among(pending', p.of)
        BY <1>9 DEF Among
      <4>4. ~HeldFor(b, "job", p.of)'
        BY <1>3, <1>7, <4>3, NothingHeld
      <4>5. ~HeldFor(b, r, c)'
        BY <3>4, <4>2, <4>4
      <4> QED BY <3>6, <3>7, <4>5, UseFacts
    <3>8. CASE b # j.job
      BY <3>4, <3>5, <3>6, <3>8
    <3> QED BY <3>7, <3>8
  <2> QED BY <2>1 DEF Kept
<1>10. CASE Dispatch(p, FALSE, {j.job}) /\ UNCHANGED pending
  <2>1. ASSUME NEW b \in Buffers, NEW r \in Roles, NEW c \in Calls
        PROVE  HeldFor(b, r, c) <=> \/ Others(b, r, c) \/ RequestOf(p, b, r, c)
                                  \/ (c = p.of /\ r = "job" /\ b \in {j.job})
    <3> DEFINE jobs == c = p.of /\ r = "job" /\ b \in {j.job}
    <3>1. QueueHolds(b, r, c) <=> QueueHolds(b, r, c)' \/ RequestOf(p, b, r, c) \/ jobs
      BY <1>8
    <3>2. /\ CallerHolds(b, r, c)' <=> CallerHolds(b, r, c)
          /\ LostHolds(b, r, c)' <=> LostHolds(b, r, c)
          /\ PendingHolds(b, r, c)' <=> PendingHolds(b, r, c)
          /\ ExecutorHolds(b, r, c)' <=> ExecutorHolds(b, r, c)
      BY <1>2, <1>10 DEF CallerHolds, LostHolds, PendingHolds, ExecutorHolds
    <3>3. HeldFor(b, r, c) <=> Others(b, r, c) \/ RequestOf(p, b, r, c) \/ jobs
      <4> HIDE DEF jobs
      <4> QED BY <3>1, <3>2 DEF HeldFor, Others
    <3> QED BY <3>3
  <2>2. {j.job} \in SUBSET Buffers /\ FALSE \in BOOLEAN
    BY <1>3
  <2> QED BY <1>3, <1>7, <1>10, <2>1, <2>2, DispatchKeeps
<1> QED BY <1>2, <1>9, <1>10

LEMMA SettleKeeps ==
    ASSUME BuffersInv, NEW p \in pending, Settle(p), HandsOver', \A c \in Calls : CallApart(c)'
    PROVE  Kept'
<1>1. p \in Slots /\ p.of \in Calls /\ \A c \in Calls : CallApart(c)
  BY DEF BuffersInv, CallsTypeInv, PendingTyped, Slots
<1>2. /\ pending' = pending \ {p}
      /\ UNCHANGED <<holding, accepted, task, coreQueue, lostJobs>>
  BY DEF Settle, callerVars
<1>3. PICK ok \in BOOLEAN : Dispatch(p, ok, {})
  BY DEF Settle
<1>4. Among(pending, p.of)
  BY DEF Among
<1>5. accepted[p.of]
  BY <1>1, <1>4 DEF CallApart, Apart
<1>6. accepted'[p.of] /\ CallApart(p.of)'
  BY <1>1, <1>2, <1>5
<1>7. ASSUME NEW b \in Buffers, NEW r \in Roles, NEW c \in Calls
      PROVE  HeldFor(b, r, c) <=> \/ Others(b, r, c) \/ RequestOf(p, b, r, c)
                                \/ (c = p.of /\ r = "job" /\ b \in {})
  <2>1. PendingHolds(b, r, c) <=> PendingHolds(b, r, c)' \/ RequestOf(p, b, r, c)
    BY <1>2 DEF PendingHolds, RequestOf
  <2>2. /\ CallerHolds(b, r, c)' <=> CallerHolds(b, r, c)
        /\ QueueHolds(b, r, c)' <=> QueueHolds(b, r, c)
        /\ LostHolds(b, r, c)' <=> LostHolds(b, r, c)
        /\ ExecutorHolds(b, r, c)' <=> ExecutorHolds(b, r, c)
    BY <1>2 DEF CallerHolds, QueueHolds, LostHolds, ExecutorHolds
  <2> QED BY <2>1, <2>2 DEF HeldFor, Others
<1>8. {} \in SUBSET Buffers
  OBVIOUS
<1> QED BY <1>1, <1>3, <1>6, <1>7, <1>8, DispatchKeeps

LEMMA BuffersStep ==
    ASSUME BuffersInv, [CallsNext]_callsVars PROVE BuffersInv'
<1>1. CallsTypeInv'
  BY CallsTypeStep DEF BuffersInv
<1>2. ASSUME NEW c \in Calls PROVE OnlyOnce(c)'
  BY OnceStep DEF BuffersInv
<1>3. ASSUME NEW c \in Calls PROVE CallApart(c)'
  BY <1>1, <1>2, ApartAfter
<1>4. HandsOver'
  BY HandsOverStep
<1>5. ASSUME UNCHANGED <<buffer, holding, coreQueue, pending, posted, task, lostJobs>>
      PROVE  Kept'
  <2>1. ASSUME NEW b, NEW r, NEW c PROVE HeldFor(b, r, c)' <=> HeldFor(b, r, c)
    <3>1. /\ CallerHolds(b, r, c)' <=> CallerHolds(b, r, c)
          /\ QueueHolds(b, r, c)' <=> QueueHolds(b, r, c)
          /\ LostHolds(b, r, c)' <=> LostHolds(b, r, c)
      BY <1>5 DEF CallerHolds, QueueHolds, LostHolds
    <3>2. /\ PendingHolds(b, r, c)' <=> PendingHolds(b, r, c)
          /\ PostedHolds(b, r, c)' <=> PostedHolds(b, r, c)
          /\ ExecutorHolds(b, r, c)' <=> ExecutorHolds(b, r, c)
      BY <1>5 DEF PendingHolds, PostedHolds, ExecutorHolds
    <3> QED BY <3>1, <3>2 DEF HeldFor
  <2>2. Kept /\ buffer' = buffer
    BY <1>5 DEF BuffersInv
  <2> QED BY <2>1, <2>2 DEF Kept
<1>6. \A c \in Calls : Caller(c) =>
          \/ Allocate(c) \/ QueueJob(c) \/ Release(c)
          \/ UNCHANGED <<buffer, holding, coreQueue, pending, posted, task, lostJobs>>
  BY DEF Caller, Call, RefuseCall, Return, coreVars, executorVars
<1>7. HostStarts \/ BeginStop \/ SessionChanges \/ UNCHANGED callsVars
          => UNCHANGED <<buffer, holding, coreQueue, pending, posted, task, lostJobs>>
  BY DEF HostStarts, BeginStop, SessionChanges, callsVars, callerVars, coreVars, executorVars
<1>8. ASSUME NEW c \in Calls, Caller(c) PROVE Kept'
  BY <1>5, <1>6, <1>8, AllocateKeeps, QueueJobKeeps, ReleaseKeeps
<1>9. ASSUME CoreTask PROVE Kept'
  BY <1>3, <1>4, <1>9, ProcessRpcRequestKeeps, SettleKeeps DEF CoreTask
<1>10. ASSUME Executor PROVE Kept'
  BY <1>3, <1>4, <1>10, RunTaskIs, RunTaskKeeps, TaskReturnsKeeps DEF Executor
<1>11. ASSUME HostStopReturns PROVE Kept'
  BY <1>11, StopKeeps
<1>12. Kept'
  BY <1>5, <1>7, <1>8, <1>9, <1>10, <1>11 DEF CallsNext
<1> QED BY <1>1, <1>2, <1>3, <1>4, <1>12 DEF BuffersInv

(* The same place by place, as Holders has it.                             *)
InPlace(w, b, r, c) ==
    \/ w = "caller" /\ CallerHolds(b, r, c)
    \/ w = "queue" /\ QueueHolds(b, r, c)
    \/ w = "lost" /\ LostHolds(b, r, c)
    \/ w = "pending" /\ PendingHolds(b, r, c)
    \/ w = "posted" /\ PostedHolds(b, r, c)
    \/ w = "executor" /\ ExecutorHolds(b, r, c)

LEMMA OnePlace ==
    ASSUME BuffersInv, NEW b \in Buffers, NEW r \in Roles, NEW c \in Calls,
           NEW v, NEW w, InPlace(v, b, r, c), InPlace(w, b, r, c)
    PROVE  v = w
<1>1. HandsOver /\ CallApart(c)
  BY DEF BuffersInv
<1>2. Apart(coreQueue, pending, posted, task, lostJobs, called[c], accepted[c], c)
  BY <1>1 DEF CallApart
<1>3. /\ QueueHolds(b, r, c) => AtIndex(coreQueue, c) /\ r \in {"job", "request"}
      /\ LostHolds(b, r, c) => Among(lostJobs, c) /\ r \in {"job", "request"}
      /\ PendingHolds(b, r, c) => Among(pending, c) /\ r = "request"
      /\ PostedHolds(b, r, c) => AtIndex(posted, c) /\ r \in {"task", "request"}
      /\ ExecutorHolds(b, r, c) => task.of = c /\ r \in {"task", "request", "decoded"}
  BY DEF AtIndex, Among, QueueHolds, LostHolds, PendingHolds, PostedHolds, ExecutorHolds
<1>4. /\ CallerHolds(b, r, c) => r \in RoleSet
      /\ CallerHolds(b, r, c) /\ accepted[c] => r \notin {"job", "request"}
  BY <1>1, PointerFacts DEF HandsOver, CallerHolds
<1>5. "task" \notin RoleSet /\ "decoded" \notin RoleSet
  BY DEF RoleSet
<1>6. /\ AtIndex(coreQueue, c) => accepted[c]
      /\ Among(lostJobs, c) => accepted[c]
      /\ Among(pending, c) => accepted[c]
      /\ AtIndex(posted, c) => accepted[c]
      /\ task.of = c => accepted[c]
  BY <1>2 DEF Apart
<1>7. CallerHolds(b, r, c) => /\ ~QueueHolds(b, r, c) /\ ~LostHolds(b, r, c)
                              /\ ~PendingHolds(b, r, c) /\ ~PostedHolds(b, r, c)
                              /\ ~ExecutorHolds(b, r, c)
  BY <1>3, <1>4, <1>5, <1>6
<1> QED BY <1>2, <1>3, <1>7 DEF InPlace, Apart

LEMMA HoldsInPlace ==
    ASSUME NEW b, NEW r, NEW c PROVE HeldFor(b, r, c) <=> \E w : InPlace(w, b, r, c)
  BY DEF HeldFor, InPlace

PlaceNames == {"caller", "queue", "lost", "pending", "posted", "executor"}
Placed(h) == \E w \in PlaceNames, b \in Buffers, r \in Roles, c \in Calls :
    h = Holder(w, b, r, c) /\ InPlace(w, b, r, c)

LEMMA HolderIs ==
    ASSUME BuffersInv, NEW h \in Holders
    PROVE  Placed(h)
<1>1. /\ holding \in [Calls -> [RoleSet -> Pointers]] /\ coreQueue \in Seq(RequestJobs)
      /\ lostJobs \in SUBSET RequestJobs /\ pending \in SUBSET Slots
      /\ posted \in Seq(Tasks) /\ task \in Running \cup {NoTask}
  BY DEF BuffersInv, CallsTypeInv, CallerTyped, QueueTyped, PendingTyped, PostedTyped, EndsTyped
<1>2. \A w, b, r, c : Holder(w, b, r, c).b = b
  BY DEF Holder
<1>3. h.b # Null
  BY DEF Holders
<1>4. ASSUME NEW w, NEW b \in Pointers, NEW r \in Roles, NEW c \in Calls,
             h = Holder(w, b, r, c), InPlace(w, b, r, c)
      PROVE  Placed(h)
  <2>1. b \in Buffers
    BY <1>2, <1>3, <1>4, PointerFacts
  <2>2. w \in PlaceNames
    BY <1>4 DEF InPlace, PlaceNames
  <2> QED BY <1>4, <2>1, <2>2 DEF Placed
<1>5. /\ RoleSet \subseteq Roles /\ "job" \in Roles /\ "request" \in Roles
      /\ "task" \in Roles /\ "decoded" \in Roles
  BY RoleFacts
<1>6. ASSUME NEW c \in Calls, NEW r \in RoleSet, h = Holder("caller", holding[c][r], r, c)
      PROVE  Placed(h)
  <2>1. holding[c][r] \in Pointers /\ CallerHolds(holding[c][r], r, c)
    BY <1>1 DEF CallerHolds
  <2>2. InPlace("caller", holding[c][r], r, c)
    BY <2>1 DEF InPlace
  <2> QED BY <1>4, <1>5, <1>6, <2>1, <2>2
<1>7. ASSUME NEW i \in DOMAIN coreQueue, h \in OfJob("queue", coreQueue[i])
      PROVE  Placed(h)
  <2> PICK j \in RequestJobs : j = coreQueue[i]
    BY <1>1
  <2>1. j.of \in Calls /\ j.job \in Pointers /\ j.request \in Pointers
    BY PointerFacts DEF RequestJobs
  <2>2. InPlace("queue", j.job, "job", j.of) /\ InPlace("queue", j.request, "request", j.of)
    BY DEF InPlace, QueueHolds
  <2>3. h = Holder("queue", j.job, "job", j.of) \/ h = Holder("queue", j.request, "request", j.of)
    BY <1>7 DEF OfJob
  <2> QED BY <1>4, <1>5, <2>1, <2>2, <2>3
<1>8. ASSUME NEW j \in lostJobs, h \in OfJob("lost", j)
      PROVE  Placed(h)
  <2>1. j.of \in Calls /\ j.job \in Pointers /\ j.request \in Pointers
    BY <1>1, PointerFacts DEF RequestJobs
  <2>2. InPlace("lost", j.job, "job", j.of) /\ InPlace("lost", j.request, "request", j.of)
    BY DEF InPlace, LostHolds
  <2>3. h = Holder("lost", j.job, "job", j.of) \/ h = Holder("lost", j.request, "request", j.of)
    BY <1>8 DEF OfJob
  <2> QED BY <1>4, <1>5, <2>1, <2>2, <2>3
<1>9. ASSUME NEW p \in pending, h = Holder("pending", p.request, "request", p.of)
      PROVE  Placed(h)
  <2>1. p.of \in Calls /\ p.request \in Pointers
    BY <1>1 DEF Slots
  <2>2. InPlace("pending", p.request, "request", p.of)
    BY DEF InPlace, PendingHolds
  <2> QED BY <1>4, <1>5, <1>9, <2>1, <2>2
<1>10. ASSUME NEW i \in DOMAIN posted,
              \/ h = Holder("posted", posted[i].task, "task", posted[i].of)
              \/ h = Holder("posted", posted[i].request, "request", posted[i].of)
       PROVE  Placed(h)
  <2> PICK k \in Tasks : k = posted[i]
    BY <1>1
  <2>1. k.of \in Calls /\ k.task \in Pointers /\ k.request \in Pointers
    BY PointerFacts DEF Tasks
  <2>2. InPlace("posted", k.task, "task", k.of) /\ InPlace("posted", k.request, "request", k.of)
    BY DEF InPlace, PostedHolds
  <2> QED BY <1>4, <1>5, <1>10, <2>1, <2>2
<1>11. ASSUME task # NoTask,
              \/ h = Holder("executor", task.task, "task", task.of)
              \/ h = Holder("executor", task.request, "request", task.of)
              \/ h = Holder("executor", task.decoded, "decoded", task.of)
       PROVE  Placed(h)
  <2>1. task.of \in Calls /\ task.task \in Pointers /\ task.request \in Pointers
        /\ task.decoded \in Pointers
    BY <1>1, <1>11, PointerFacts DEF Running
  <2>2. /\ InPlace("executor", task.task, "task", task.of)
        /\ InPlace("executor", task.request, "request", task.of)
        /\ InPlace("executor", task.decoded, "decoded", task.of)
    BY DEF InPlace, ExecutorHolds
  <2> QED BY <1>4, <1>5, <1>11, <2>1, <2>2
<1> QED BY <1>6, <1>7, <1>8, <1>9, <1>10, <1>11 DEF Holders

(* Whoever holds a buffer is among the holders.                            *)
LEMMA InPlaceIsHolder ==
    ASSUME BuffersInv, NEW b \in Buffers, NEW r \in Roles, NEW c \in Calls,
           NEW w, InPlace(w, b, r, c)
    PROVE  \E h \in Holders : h.b = b
<1>1. /\ Holder(w, b, r, c).b = b /\ b # Null
  BY PointerFacts DEF Holder
<1>2. Holder(w, b, r, c) \in Holders
  <2>1. CASE w = "caller" /\ CallerHolds(b, r, c)
    BY <1>1, <2>1 DEF CallerHolds, Holders
  <2>2. CASE w = "queue" /\ QueueHolds(b, r, c)
    <3>1. PICK i \in DOMAIN coreQueue : Holder(w, b, r, c) \in OfJob("queue", coreQueue[i])
      BY <2>2 DEF QueueHolds, OfJob
    <3> QED BY <1>1, <3>1 DEF Holders
  <2>3. CASE w = "lost" /\ LostHolds(b, r, c)
    <3>1. PICK j \in lostJobs : Holder(w, b, r, c) \in OfJob("lost", j)
      BY <2>3 DEF LostHolds, OfJob
    <3> QED BY <1>1, <3>1 DEF Holders
  <2>4. CASE w = "pending" /\ PendingHolds(b, r, c)
    BY <1>1, <2>4 DEF PendingHolds, Holders
  <2>5. CASE w = "posted" /\ PostedHolds(b, r, c)
    <3>1. PICK i \in DOMAIN posted :
              Holder(w, b, r, c) \in {Holder("posted", posted[i].task, "task", posted[i].of),
                                      Holder("posted", posted[i].request, "request", posted[i].of)}
      BY <2>5 DEF PostedHolds
    <3> QED BY <1>1, <3>1 DEF Holders
  <2>6. CASE w = "executor" /\ ExecutorHolds(b, r, c)
    <3>1. task # NoTask
      BY <2>6 DEF ExecutorHolds, NoTask
    <3>2. Holder(w, b, r, c) \in {Holder("executor", task.task, "task", task.of),
                                  Holder("executor", task.request, "request", task.of),
                                  Holder("executor", task.decoded, "decoded", task.of)}
      BY <2>6 DEF ExecutorHolds
    <3> QED BY <1>1, <3>1, <3>2 DEF Holders
  <2> QED BY <2>1, <2>2, <2>3, <2>4, <2>5, <2>6 DEF InPlace
<1> QED BY <1>1, <1>2

LEMMA InvBuffersHeld == BuffersInv => BuffersHeld
<1> SUFFICES ASSUME BuffersInv PROVE BuffersHeld
  OBVIOUS
<1>1. \A w, b, r, c : Holder(w, b, r, c).b = b /\ Holder(w, b, r, c).use = Use(r, c)
  BY DEF Holder, Use
<1>2. ASSUME NEW h \in Holders PROVE buffer[h.b] = h.use
  <2>1. PICK w \in PlaceNames, b \in Buffers, r \in Roles, c \in Calls :
            h = Holder(w, b, r, c) /\ InPlace(w, b, r, c)
    BY HolderIs DEF Placed
  <2>2. h.b = b /\ h.use = Use(r, c)
    BY <1>1, <2>1
  <2>3. HeldFor(b, r, c)
    BY <2>1, HoldsInPlace
  <2>4. buffer[b] = Use(r, c)
    BY <2>3, KeptFacts
  <2> QED BY <2>2, <2>4
<1>3. ASSUME NEW g \in Holders, NEW h \in Holders, g.b = h.b PROVE g = h
  <2>1. PICK v \in PlaceNames, a \in Buffers, s \in Roles, d \in Calls :
            g = Holder(v, a, s, d) /\ InPlace(v, a, s, d)
    BY HolderIs DEF Placed
  <2>2. PICK w \in PlaceNames, b \in Buffers, r \in Roles, c \in Calls :
            h = Holder(w, b, r, c) /\ InPlace(w, b, r, c)
    BY HolderIs DEF Placed
  <2>3. a = b
    BY <1>1, <1>3, <2>1, <2>2
  <2>4. s = r /\ d = c
    <3>1. HeldFor(b, r, c) /\ HeldFor(b, s, d)
      BY <2>1, <2>2, <2>3, HoldsInPlace
    <3> QED BY <3>1, KeptFacts
  <2>5. v = w
    BY <2>1, <2>2, <2>3, <2>4, OnePlace
  <2> QED BY <2>1, <2>2, <2>3, <2>4, <2>5
<1>4. ASSUME NEW b \in Buffers, buffer[b] # Free PROVE \E h \in Holders : h.b = b
  <2>1. Kept /\ buffer[b] \in Uses
    BY <1>4 DEF BuffersInv, CallsTypeInv, BufferTyped
  <2>2. PICK r \in Roles, c \in Calls : buffer[b] = Use(r, c)
    BY <2>1 DEF Uses, Use
  <2>3. HeldFor(b, r, c)
    BY <2>1, <2>2 DEF Kept
  <2> QED BY <2>3, HoldsInPlace, InPlaceIsHolder
<1> QED BY <1>2, <1>3, <1>4 DEF BuffersHeld

(* Every buffer in use has exactly one holder, who has it for what it was  *)
(* allocated for: no request, message, payload, job or task buffer is      *)
(* freed twice, used after it was freed or forgotten, except by the queue  *)
(* that wlh_host_stop destroys (host.c:585).                               *)
THEOREM BuffersAreHeldOnce == CallsSpec => []BuffersHeld
  BY BuffersInit, BuffersStep, InvBuffersHeld, PTL DEF CallsSpec
=============================================================================
