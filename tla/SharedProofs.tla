---------------------------- MODULE SharedProofs ----------------------------
(***************************************************************************)
(* What the host and the coprocessor are built on, for every value of the  *)
(* constants: the windows of the link between them, in the gathered credit *)
(* of CoprocEthernetRx and in the units of LinkSession from the grant of a *)
(* session to their return, and the objects of the OSAL, in PosixObjects.  *)
(***************************************************************************)
EXTENDS CoprocEthernetRx, LinkSession, PosixObjects, QueueCountsProofs, FiniteSetTheorems,
        SequenceTheorems, TLAPS

-----------------------------------------------------------------------------
(***************************************************************************)
(* CoprocEthernetRx: its safety properties for every set of channels,      *)
(* queue depth, window, batch and number of sessions and backend threads.  *)
(***************************************************************************)

USE CoprocEthernetRxAssumption

-----------------------------------------------------------------------------
(* The job queue.                                                          *)

(* Every Hello in the queue may still open a session.                      *)
HellosBounded == opened + CountIn(queue, {Hello}) <= MaxSession

QueueOK == queue \in Seq(Jobs) /\ Len(queue) <= Depth

LEMMA BatchIsPositive == Batch \in Nat \ {0}
  BY DEF Batch

LEMMA HelloIsJob == Hello \in Jobs
  BY DEF Hello, Jobs

(* A job leaves the queue; when it is a Hello there is one less.           *)
LEMMA TakenJob ==
    ASSUME QueueOK, queue # <<>>, queue' = Tail(queue)
    PROVE  /\ QueueOK' /\ Head(queue) \in Jobs
           /\ CountIn(queue, {Hello}) \in Nat /\ CountIn(queue', {Hello}) \in Nat
           /\ CountIn(queue, {Hello})
                  = CountIn(queue', {Hello}) + IF Head(queue) = Hello THEN 1 ELSE 0
<1>1. QueueOK' /\ Head(queue) \in Jobs
  BY DEF QueueOK
<1>2. CountIn(queue, {Hello})
          = CountIn(Tail(queue), {Hello}) + IF Head(queue) \in {Hello} THEN 1 ELSE 0
  BY CountTail DEF QueueOK
<1>3. CountIn(queue, {Hello}) \in Nat
  BY CountType DEF QueueOK
<1>4. CountIn(queue', {Hello}) \in Nat
  BY <1>1, CountType DEF QueueOK
<1> QED BY <1>1, <1>2, <1>3, <1>4

(* A job enters it.                                                        *)
LEMMA AddedJob ==
    ASSUME QueueOK, Len(queue) < Depth, NEW job \in Jobs, queue' = Append(queue, job)
    PROVE  /\ QueueOK' /\ CountIn(queue, {Hello}) \in Nat
           /\ CountIn(queue', {Hello})
                  = CountIn(queue, {Hello}) + IF job = Hello THEN 1 ELSE 0
<1>1. QueueOK'
  BY DEF QueueOK
<1>2. CountIn(Append(queue, job), {Hello})
          = CountIn(queue, {Hello}) + IF job \in {Hello} THEN 1 ELSE 0
  BY CountAppend DEF QueueOK
<1>3. CountIn(queue, {Hello}) \in Nat
  BY CountType DEF QueueOK
<1> QED BY <1>1, <1>2, <1>3

LEMMA EmptyQueue ==
    ASSUME queue' = <<>>, HellosBounded, QueueOK, opened \in Nat, opened' = opened
    PROVE  QueueOK' /\ HellosBounded'
<1>1. QueueOK'
  BY DEF QueueOK
<1>2. CountIn(<<>>, {Hello}) = 0
  BY CountEmpty
<1>3. CountIn(queue, {Hello}) \in Nat
  BY CountType DEF QueueOK
<1>4. CountIn(queue', {Hello}) = 0
  BY <1>2
<1> QED BY <1>1, <1>3, <1>4 DEF HellosBounded

LEMMA EnqueuedJob == \A job : queue \in Seq(Jobs) /\ Enqueue(job) => queue' # <<>>
  BY DEF Enqueue

-----------------------------------------------------------------------------
(* Type correctness: the ids of sessions stay in their bound because every *)
(* Hello is counted when it arrives.                                       *)
TypeInv == TypeOK /\ HellosBounded

LEMMA RecordsTyped ==
    ASSUME TypeOK, HandleRecords
    PROVE  /\ held' \in [Ethernet -> [Sessions -> Nat]] /\ owed' \in [Ethernet -> Int]
           /\ Head(queue) # Hello
<1>1. Head(queue) \in Jobs /\ Head(queue).kind = "RECORDS"
  BY DEF HandleRecords, Takes, TypeOK
<1>2. Head(queue).ch \in Ethernet /\ Head(queue).units \in Nat
  BY <1>1 DEF Jobs
<1>3. PICK n \in 0 .. Head(queue).units :
          /\ held' = [held EXCEPT ![Head(queue).ch][session] = @ + n]
          /\ owed' = [owed EXCEPT ![Head(queue).ch] = @ + n]
  BY DEF HandleRecords
<1>4. held' \in [Ethernet -> [Sessions -> Nat]]
  BY <1>2, <1>3 DEF TypeOK
<1>5. owed' \in [Ethernet -> Int]
  BY <1>2, <1>3 DEF TypeOK
<1> QED BY <1>1, <1>4, <1>5 DEF Hello

LEMMA CompletionTyped ==
    ASSUME TypeOK, NEW ch \in Ethernet, NEW s \in Sessions, NEW n \in 1 .. InitialCredit,
           RxComplete(ch, s, n)
    PROVE  /\ held' \in [Ethernet -> [Sessions -> Nat]]
           /\ gathered' \in [Ethernet -> Nat] /\ wakeQueued' \in BOOLEAN /\ wakers' \in Nat
<1>1. held' \in [Ethernet -> [Sessions -> Nat]]
  BY DEF RxComplete, TypeOK
<1>2. gathered' \in [Ethernet -> Nat] /\ wakers' \in Nat
  <2>1. gathered' = gathered \/ gathered' = [gathered EXCEPT ![ch] = @ + n]
    BY DEF RxComplete, rxVars
  <2>2. wakers' = wakers \/ wakers' = wakers + 1
    BY DEF RxComplete, rxVars
  <2>3. gathered \in [Ethernet -> Nat] /\ wakers \in Nat
    BY DEF TypeOK
  <2> QED BY <2>1, <2>2, <2>3
<1>3. wakeQueued' \in BOOLEAN
  BY DEF RxComplete, rxVars, TypeOK
<1> QED BY <1>1, <1>2, <1>3

LEMMA TypeInvariant == Spec => []TypeInv
<1>1. ASSUME Init PROVE TypeInv
  <2>1. queue \in Seq(Jobs) /\ Len(queue) <= Depth
    BY <1>1 DEF Init
  <2>2. CountIn(queue, {Hello}) = 0
    BY <1>1, CountEmpty DEF Init
  <2>3. /\ held \in [Ethernet -> [Sessions -> Nat]]
        /\ gathered \in [Ethernet -> Nat] /\ owed \in [Ethernet -> Int]
        /\ discarded \in [Ethernet -> Nat]
    BY <1>1 DEF Init, None
  <2>4. session \in Sessions /\ opened \in Sessions /\ HellosBounded
    BY <1>1, <2>2 DEF Init, Sessions, HellosBounded
  <2> QED BY <1>1, <2>1, <2>3, <2>4 DEF Init, TypeInv, TypeOK
<1>2. TypeInv /\ [Next]_vars => TypeInv'
  <2> SUFFICES ASSUME TypeInv, [Next]_vars PROVE TypeInv'
    OBVIOUS
  <2>0. TypeOK /\ HellosBounded /\ QueueOK
    BY DEF TypeInv, TypeOK, QueueOK
  <2>1. CASE Start
    <3>1. QueueOK' /\ HellosBounded'
      BY <2>0, <2>1, EmptyQueue DEF Start, TypeOK, Sessions
    <3>2. /\ gathered' \in [Ethernet -> Nat] /\ wakeQueued' \in BOOLEAN
          /\ ready' \in BOOLEAN
          /\ worker' \in {"top", "waiting", "exited", "stopped"}
      BY <2>0, <2>1 DEF Start, ResetCompletions, None, rxVars, TypeOK
    <3> QED BY <2>0, <2>1, <3>1, <3>2 DEF Start, unitVars, TypeInv, TypeOK, QueueOK
  <2>2. CASE StopReturns
    <3>1. QueueOK' /\ HellosBounded'
      BY <2>0, <2>2, EmptyQueue DEF StopReturns, TypeOK, Sessions
    <3>2. /\ gathered' \in [Ethernet -> Nat] /\ wakeQueued' \in BOOLEAN
          /\ ready' \in BOOLEAN
          /\ worker' \in {"top", "waiting", "exited", "stopped"}
      BY <2>0, <2>2 DEF StopReturns, ResetCompletions, None, rxVars, TypeOK
    <3> QED BY <2>0, <2>2, <3>1, <3>2 DEF StopReturns, unitVars, TypeInv, TypeOK, QueueOK
  <2>3. ASSUME NEW sent \in SUBSET Ethernet, LoopTop(sent) PROVE TypeInv'
    <3>1. gathered' \in [Ethernet -> Nat] /\ owed' \in [Ethernet -> Int]
      BY <2>0, <2>3 DEF LoopTop, Flush, TypeOK
    <3>2. wait' \in {"forever", "heartbeat", "retry"} /\ wakeQueued' = FALSE
      BY <2>3 DEF LoopTop, Flush, NextWait
    <3> QED BY <2>0, <2>3, <3>1, <3>2 DEF LoopTop, TypeInv, TypeOK, HellosBounded
  <2>4. CASE WaitEnds
    BY <2>0, <2>4 DEF WaitEnds, rxVars, unitVars, TypeInv, TypeOK, HellosBounded
  <2>5. CASE HandleJob
    <3>1. queue # <<>> /\ queue' = Tail(queue)
      BY <2>5 DEF HandleJob, HandleRecords, HandleHello, HandleWake, HandleOther,
                  HandleStop, Takes
    <3>2. /\ queue' \in Seq(Jobs) /\ Len(queue') <= Depth /\ Head(queue) \in Jobs
          /\ CountIn(queue, {Hello}) \in Nat /\ CountIn(queue', {Hello}) \in Nat
          /\ CountIn(queue, {Hello})
                 = CountIn(queue', {Hello}) + IF Head(queue) = Hello THEN 1 ELSE 0
      BY <2>0, <3>1, TakenJob DEF QueueOK
    <3>3. CASE HandleRecords
      <4>1. /\ held' \in [Ethernet -> [Sessions -> Nat]] /\ owed' \in [Ethernet -> Int]
            /\ Head(queue) # Hello
        BY <2>0, <3>3, RecordsTyped
      <4>2. HellosBounded'
        BY <2>0, <3>2, <3>3, <4>1 DEF HandleRecords, HellosBounded
      <4> QED BY <2>0, <3>2, <3>3, <4>1, <4>2 DEF HandleRecords, rxVars, TypeInv, TypeOK
    <3>4. CASE HandleHello
      <4>1. Head(queue) = Hello
        BY <3>2, <3>4 DEF HandleHello, Takes, Hello, Jobs
      <4>2. /\ opened' \in {opened, opened + 1} /\ session' \in {session, 0, opened'}
            /\ ready' \in BOOLEAN
        BY <2>0, <3>4
        DEF HandleHello, HelloKeepsSession, HelloEndsSession, TypeOK
      <4>3. opened' \in Sessions /\ session' \in Sessions /\ HellosBounded'
        BY <2>0, <3>2, <4>1, <4>2 DEF HellosBounded, TypeOK, Sessions
      <4>4. owed' \in [Ethernet -> Int] /\ discarded' \in [Ethernet -> Nat]
        <5>1. CASE HelloKeepsSession
          BY <2>0, <5>1 DEF HelloKeepsSession, TypeOK
        <5>2. CASE HelloEndsSession
          BY <5>2 DEF HelloEndsSession, None
        <5> QED BY <3>4, <5>1, <5>2 DEF HandleHello
      <4>5. gathered' \in [Ethernet -> Nat] /\ wakeQueued' \in BOOLEAN
        BY <3>4 DEF HandleHello, ResetCompletions, None
      <4> QED BY <2>0, <3>2, <3>4, <4>2, <4>3, <4>4, <4>5 DEF HandleHello, TypeInv, TypeOK
    <3>5. CASE HandleWake \/ HandleOther
      <4>1. HellosBounded'
        BY <2>0, <3>2, <3>5 DEF HandleWake, HandleOther, HellosBounded, TypeOK, Sessions
      <4> QED BY <2>0, <3>2, <3>5, <4>1
          DEF HandleWake, HandleOther, rxVars, unitVars, TypeInv, TypeOK
    <3>6. CASE HandleStop
      <4>1. HellosBounded'
        BY <2>0, <3>2, <3>6 DEF HandleStop, HellosBounded, TypeOK, Sessions
      <4>2. gathered' \in [Ethernet -> Nat] /\ session' \in Sessions
        BY <3>6 DEF HandleStop, ResetCompletions, None, Sessions
      <4>3. wakeQueued' = FALSE /\ ready' = FALSE /\ worker' = "exited"
        BY <3>6 DEF HandleStop, ResetCompletions
      <4> QED BY <2>0, <3>2, <3>6, <4>1, <4>2, <4>3 DEF HandleStop, unitVars, TypeInv, TypeOK
    <3> QED BY <2>5, <3>3, <3>4, <3>5, <3>6 DEF HandleJob
  <2>6. ASSUME NEW ch \in Ethernet, NEW s \in Sessions, NEW n \in 1 .. InitialCredit,
               RxComplete(ch, s, n)
        PROVE  TypeInv'
    <3>1. /\ held' \in [Ethernet -> [Sessions -> Nat]]
          /\ gathered' \in [Ethernet -> Nat] /\ wakeQueued' \in BOOLEAN /\ wakers' \in Nat
      BY <2>0, <2>6, CompletionTyped
    <3> QED BY <2>0, <2>6, <3>1 DEF RxComplete, TypeInv, TypeOK, HellosBounded
  <2>7. CASE EnqueueWake
    <3>1. [kind |-> "WAKE"] \in Jobs /\ [kind |-> "WAKE"] # Hello
      BY DEF Jobs, Hello
    <3>2. QueueOK' /\ CountIn(queue', {Hello}) = CountIn(queue, {Hello})
      <4>1. CASE Len(queue) < Depth /\ queue' = Append(queue, [kind |-> "WAKE"])
        <5>1. QueueOK' /\ CountIn(queue, {Hello}) \in Nat
              /\ CountIn(queue', {Hello}) = CountIn(queue, {Hello})
                     + IF [kind |-> "WAKE"] = Hello THEN 1 ELSE 0
          BY <2>0, <3>1, <4>1, AddedJob
        <5> QED BY <3>1, <5>1
      <4>2. CASE queue' = queue
        BY <2>0, <4>2 DEF QueueOK
      <4> QED BY <2>7, <4>1, <4>2 DEF EnqueueWake, Enqueue
    <3> QED BY <2>0, <2>7, <3>2
        DEF EnqueueWake, rxVars, unitVars, TypeInv, TypeOK, HellosBounded, QueueOK
  <2>8. ASSUME NEW job \in Jobs, Arrives(job) PROVE TypeInv'
    <3>1. QueueOK' /\ CountIn(queue, {Hello}) \in Nat
          /\ CountIn(queue', {Hello}) = CountIn(queue, {Hello}) + IF job = Hello THEN 1 ELSE 0
      BY <2>0, <2>8, AddedJob DEF Arrives, CanEnqueue, Enqueue
    <3>2. job = Hello => opened + CountIn(queue, {Hello}) < MaxSession
      BY <2>8 DEF Arrives, Hello
    <3>3. HellosBounded'
      BY <2>0, <2>8, <3>1, <3>2 DEF Arrives, HellosBounded, TypeOK, Sessions
    <3> QED BY <2>0, <2>8, <3>1, <3>3 DEF Arrives, rxVars, unitVars, TypeInv, TypeOK, QueueOK
  <2>9. CASE UNCHANGED vars
    BY <2>0, <2>9 DEF vars, rxVars, unitVars, TypeInv, TypeOK, HellosBounded
  <2> QED BY <2>1, <2>2, <2>3, <2>4, <2>5, <2>6, <2>7, <2>8, <2>9
      DEF Next, Worker, Completion
<1> QED BY <1>1, <1>2, PTL DEF Spec

(* The state of the receive path is well typed, the queue within its depth *)
(* (coproc_frame.c:72-131).                                                *)
THEOREM TypeCorrect == Spec => []TypeOK
<1>1. TypeInv => TypeOK
  BY DEF TypeInv
<1> QED BY <1>1, TypeInvariant, PTL

-----------------------------------------------------------------------------
(* Units.                                                                  *)

(* A core task that has ended has no session, so that the reset at the     *)
(* next start forgets nothing.                                             *)
EndedHasNone == worker \in {"exited", "stopped"} => session = 0

(* The backend holds nothing of a session that is not handed out yet, so   *)
(* that a session begins with nothing owed.                                *)
FreshSessions ==
    /\ session <= opened
    /\ \A ch \in Ethernet, s \in Sessions : s > opened => held[ch][s] = 0

UnitInv == UnitsConserved /\ EndedHasNone /\ FreshSessions

LEMMA UnitStep == TypeOK /\ TypeOK' /\ UnitInv /\ [Next]_vars => UnitInv'
<1> SUFFICES ASSUME TypeOK, TypeOK', UnitInv, [Next]_vars PROVE UnitInv'
  OBVIOUS
<1> USE DEF UnitInv, UnitsConserved, EndedHasNone, FreshSessions
<1>1. CASE Start \/ StopReturns
  BY <1>1 DEF Start, StopReturns, unitVars
<1>2. ASSUME NEW sent \in SUBSET Ethernet, LoopTop(sent) PROVE UnitInv'
  <2>1. /\ session' = session /\ opened' = opened /\ worker' = "waiting"
        /\ held' = held /\ discarded' = discarded
        /\ \A ch \in Ethernet :
               /\ gathered'[ch] = IF ch \in sent THEN 0 ELSE gathered[ch]
               /\ owed'[ch] = IF ch \in sent THEN owed[ch] - gathered[ch] ELSE owed[ch]
    BY <1>2 DEF LoopTop, Flush
  <2>2. \A ch \in Ethernet : session # 0 =>
            /\ held[ch][session] \in Nat /\ gathered[ch] \in Nat /\ owed[ch] \in Int
            /\ discarded[ch] \in Nat
    BY DEF TypeOK
  <2> QED BY <2>1, <2>2
<1>3. CASE WaitEnds \/ HandleWake \/ HandleOther
  BY <1>3 DEF WaitEnds, HandleWake, HandleOther, rxVars, unitVars
<1>4. CASE HandleRecords
  <2>1. Head(queue) \in Jobs /\ Head(queue).kind = "RECORDS"
    BY <1>4 DEF HandleRecords, Takes, TypeOK
  <2>2. Head(queue).ch \in Ethernet /\ Head(queue).units \in Nat
    BY <2>1 DEF Jobs
  <2>3. PICK n \in 0 .. Head(queue).units :
            /\ held' = [held EXCEPT ![Head(queue).ch][session] = @ + n]
            /\ owed' = [owed EXCEPT ![Head(queue).ch] = @ + n]
    BY <1>4 DEF HandleRecords
  <2>4. ASSUME NEW ch \in Ethernet, session # 0
        PROVE  owed'[ch] = held'[ch][session] + gathered[ch] + discarded[ch]
    <3>1. /\ held[ch][session] \in Nat /\ gathered[ch] \in Nat /\ owed[ch] \in Int
          /\ discarded[ch] \in Nat
          /\ owed[ch] = held[ch][session] + gathered[ch] + discarded[ch]
      BY <2>4 DEF TypeOK
    <3>2. CASE ch = Head(queue).ch
      <4>1. /\ held'[ch][session] = held[ch][session] + n
            /\ owed'[ch] = owed[ch] + n
        BY <2>2, <2>3, <3>2 DEF TypeOK
      <4>2. n \in Int
        BY <2>2, <2>3
      <4> QED BY <3>1, <4>1, <4>2
    <3>3. CASE ch # Head(queue).ch
      BY <2>2, <2>3, <3>1, <3>3 DEF TypeOK
    <3> QED BY <3>2, <3>3
  <2>5. ASSUME NEW ch \in Ethernet, NEW s \in Sessions, s > opened
        PROVE  held'[ch][s] = 0
    <3>1. s \in Int /\ session \in Int /\ opened \in Int /\ session <= opened
      BY DEF TypeOK, Sessions
    <3>2. s # session /\ held[ch][s] = 0
      BY <2>5, <3>1
    <3>3. session \in Sessions /\ held \in [Ethernet -> [Sessions -> Nat]]
      BY DEF TypeOK
    <3> QED BY <2>2, <2>3, <3>2, <3>3
  <2> QED BY <1>4, <2>4, <2>5 DEF HandleRecords, rxVars
<1>5. CASE HandleHello
  <2>1. /\ held' = held /\ gathered' = None /\ worker' = "top"
    BY <1>5 DEF HandleHello, ResetCompletions
  <2>2. session \in Nat /\ opened \in Nat /\ opened' \in Sessions
    BY DEF TypeOK, Sessions
  <2>3. CASE HelloKeepsSession
    <3>1. /\ session' = session /\ opened' = opened /\ owed' = owed
          /\ \A ch \in Ethernet : /\ discarded'[ch] = discarded[ch] + gathered[ch]
                                  /\ gathered'[ch] = 0
      BY <2>1, <2>3 DEF HelloKeepsSession, None
    <3>2. ASSUME NEW ch \in Ethernet, session # 0
          PROVE  owed[ch] = held[ch][session] + gathered'[ch] + discarded'[ch]
      <4>1. /\ held[ch][session] \in Nat /\ gathered[ch] \in Nat
            /\ owed[ch] \in Int /\ discarded[ch] \in Nat
            /\ owed[ch] = held[ch][session] + gathered[ch] + discarded[ch]
        BY <3>2 DEF TypeOK
      <4> QED BY <3>1, <4>1
    <3> QED BY <2>1, <3>1, <3>2
  <2>4. CASE HelloEndsSession
    <3>1. /\ opened' = opened + 1 /\ session' \in {0, opened'}
          /\ \A ch \in Ethernet : owed'[ch] = 0 /\ discarded'[ch] = 0 /\ gathered'[ch] = 0
      BY <2>1, <2>4 DEF HelloEndsSession, None
    <3>2. \A ch \in Ethernet : held[ch][opened'] = 0
      BY <2>2, <3>1
    <3>3. FreshSessions'
      BY <2>1, <2>2, <3>1 DEF Sessions
    <3>4. UnitsConserved'
      BY <2>1, <3>1, <3>2
    <3> QED BY <2>1, <3>3, <3>4
  <2> QED BY <1>5, <2>3, <2>4 DEF HandleHello
<1>6. CASE HandleStop
  <2>1. opened \in Nat
    BY DEF TypeOK, Sessions
  <2> QED BY <1>6, <2>1 DEF HandleStop, unitVars
<1>7. ASSUME NEW c \in Ethernet, NEW s \in Sessions, NEW n \in 1 .. InitialCredit,
             RxComplete(c, s, n)
      PROVE  UnitInv'
  <2>1. /\ session' = session /\ opened' = opened /\ worker' = worker
        /\ owed' = owed /\ discarded' = discarded
    BY <1>7 DEF RxComplete
  <2>2. held' = [held EXCEPT ![c][s] = @ - n]
    BY <1>7 DEF RxComplete
  <2>3. ASSUME NEW ch \in Ethernet, session # 0
        PROVE  owed[ch] = held'[ch][session] + gathered'[ch] + discarded[ch]
    <3>1. /\ held[ch][session] \in Nat /\ gathered[ch] \in Nat /\ owed[ch] \in Int
          /\ discarded[ch] \in Nat /\ session \in Sessions
          /\ owed[ch] = held[ch][session] + gathered[ch] + discarded[ch]
      BY <2>3 DEF TypeOK
    <3>2. CASE s = session
      <4>1. gathered' = [gathered EXCEPT ![c] = @ + n]
        BY <1>7, <2>3, <3>2 DEF RxComplete, AcceptsUnits
      <4>2. CASE ch = c
        BY <2>2, <3>1, <3>2, <4>1, <4>2 DEF TypeOK
      <4>3. CASE ch # c
        BY <2>2, <3>1, <3>2, <4>1, <4>3 DEF TypeOK
      <4> QED BY <4>2, <4>3
    <3>3. CASE s # session
      <4>1. gathered' = gathered
        BY <1>7, <3>3 DEF RxComplete, AcceptsUnits, rxVars
      <4>2. held'[ch][session] = held[ch][session]
        BY <2>2, <3>1, <3>3 DEF TypeOK
      <4> QED BY <3>1, <4>1, <4>2
    <3> QED BY <3>2, <3>3
  <2>4. ASSUME NEW ch \in Ethernet, NEW t \in Sessions, t > opened
        PROVE  held'[ch][t] = 0
    <3>1. held[ch][t] = 0 /\ n \in 1 .. held[c][s] /\ held[c][s] \in Nat
      BY <1>7, <2>4 DEF RxComplete, TypeOK
    <3>2. ~(ch = c /\ t = s)
      BY <3>1
    <3> QED BY <2>2, <3>1, <3>2 DEF TypeOK
  <2> QED BY <2>1, <2>3, <2>4
<1>8. CASE EnqueueWake
  BY <1>8 DEF EnqueueWake, rxVars, unitVars
<1>9. ASSUME NEW job \in Jobs, Arrives(job) PROVE UnitInv'
  BY <1>9 DEF Arrives, rxVars, unitVars
<1>10. CASE UNCHANGED vars
  BY <1>10 DEF vars, rxVars, unitVars
<1> QED BY <1>1, <1>2, <1>3, <1>4, <1>5, <1>6, <1>7, <1>8, <1>9, <1>10
    DEF Next, Worker, HandleJob, Completion

(* For any number of channels, sessions and completions no unit of         *)
(* Ethernet credit is returned twice or moved to another session, and of   *)
(* those the backend took only a Hello without a response buffer loses any *)
(* in a session that goes on (coproc_frame.c:59, 90, 96, coproc_link.c:34, *)
(* 253).                                                                   *)
THEOREM UnitsAreConserved == Spec => []UnitsConserved
<1>1. Init => UnitInv
  BY DEF Init, UnitInv, UnitsConserved, EndedHasNone, FreshSessions, Sessions
<1>2. UnitInv => UnitsConserved
  BY DEF UnitInv
<1> QED BY <1>1, <1>2, UnitStep, TypeCorrect, PTL DEF Spec

-----------------------------------------------------------------------------
(* Waking the core task.                                                   *)

(* While the core task waits without a retry, a full batch is marked, and  *)
(* a mark stands for a job in the queue or a thread that will add one.     *)
WakeInv ==
    worker = "waiting" /\ wait # "retry" =>
        /\ (\E ch \in Ethernet : gathered[ch] >= Batch) => wakeQueued
        /\ wakeQueued => queue # <<>> \/ wakers > 0

LEMMA WakeStep == TypeOK /\ WakeInv /\ [Next]_vars => WakeInv'
<1> SUFFICES ASSUME TypeOK, WakeInv, [Next]_vars PROVE WakeInv'
  OBVIOUS
<1> USE DEF WakeInv
<1>1. CASE Start \/ StopReturns
  BY <1>1 DEF Start, StopReturns
<1>2. ASSUME NEW sent \in SUBSET Ethernet, LoopTop(sent) PROVE WakeInv'
  <2>1. wait' # "retry" => gathered' = None
    BY <1>2 DEF LoopTop, NextWait
  <2>2. wakeQueued' = FALSE
    BY <1>2 DEF LoopTop, Flush
  <2> QED BY <2>1, <2>2, BatchIsPositive DEF None
<1>3. CASE WaitEnds
  BY <1>3 DEF WaitEnds
<1>4. CASE HandleJob
  BY <1>4 DEF HandleJob, HandleRecords, HandleHello, HandleWake, HandleOther, HandleStop
<1>5. ASSUME NEW c \in Ethernet, NEW s \in Sessions, NEW n \in 1 .. InitialCredit,
             RxComplete(c, s, n)
      PROVE  WakeInv'
  <2>1. worker' = worker /\ wait' = wait /\ queue' = queue
    BY <1>5 DEF RxComplete
  <2>2. CASE UNCHANGED <<rxVars, wakers>>
    BY <2>1, <2>2 DEF rxVars
  <2>3. CASE /\ gathered' = [gathered EXCEPT ![c] = @ + n]
             /\ \/ /\ ~wakeQueued /\ gathered'[c] >= Batch
                   /\ wakeQueued' = TRUE /\ wakers' = wakers + 1
                \/ /\ wakeQueued \/ gathered'[c] < Batch
                   /\ UNCHANGED <<wakeQueued, wakers>>
    <3>1. \A ch \in Ethernet \ {c} : gathered'[ch] = gathered[ch]
      BY <2>3 DEF TypeOK
    <3>2. wakers \in Nat /\ gathered'[c] \in Nat /\ Batch \in Nat
      BY <2>3, BatchIsPositive DEF TypeOK
    <3>3. CASE wakeQueued
      BY <2>1, <2>3, <3>3
    <3>4. CASE ~wakeQueued /\ gathered'[c] >= Batch
      BY <2>1, <2>3, <3>2, <3>4
    <3>5. CASE ~wakeQueued /\ gathered'[c] < Batch
      BY <2>1, <2>3, <3>1, <3>2, <3>5
    <3> QED BY <3>2, <3>3, <3>4, <3>5
  <2> QED BY <1>5, <2>2, <2>3 DEF RxComplete
<1>6. CASE EnqueueWake
  <2>1. queue' # <<>>
    BY <1>6, EnqueuedJob DEF EnqueueWake, TypeOK
  <2> QED BY <1>6, <2>1 DEF EnqueueWake, rxVars
<1>7. ASSUME NEW job \in Jobs, Arrives(job) PROVE WakeInv'
  <2>1. queue' # <<>>
    BY <1>7, EnqueuedJob DEF Arrives, TypeOK
  <2> QED BY <1>7, <2>1 DEF Arrives, rxVars
<1>8. CASE UNCHANGED vars
  BY <1>8 DEF vars, rxVars
<1> QED BY <1>1, <1>2, <1>3, <1>4, <1>5, <1>6, <1>7, <1>8 DEF Next, Worker, Completion

(* A full batch never waits for the next heartbeat, although the wake is   *)
(* queued after the mutex is released and may find the queue full          *)
(* (coproc_frame.c:103-129).                                               *)
THEOREM FullBatchWakes == Spec => []BatchWakes
<1>1. Init => WakeInv
  BY DEF Init, WakeInv
<1>2. WakeInv => BatchWakes
  BY DEF WakeInv, BatchWakes
<1> QED BY <1>1, <1>2, WakeStep, TypeCorrect, PTL DEF Spec

HIDE CoprocEthernetRxAssumption

-----------------------------------------------------------------------------
(***************************************************************************)
(* LinkSession: its types, and that no unit of a window is lost or made    *)
(* up, whatever the wire drops, for every window and every number of       *)
(* sessions, frames and losses.                                            *)
(***************************************************************************)

USE LinkSessionAssumption

-----------------------------------------------------------------------------
(* The units in a channel.                                                 *)

ToCoprocFrames ==
    {HelloRequest}
        \cup [type : {"DATA"}, of : Nat, epoch : Nat, seq : Nat, units : Nat]
ToHostFrames ==
    [type : {"HELLO_RESPONSE"}, of : {0}, opens : Nat \ {0}]
        \cup [type : {"HEARTBEAT"}, of : Nat]
        \cup [type : {"CREDIT_UPDATE"}, of : Nat, units : Nat]
AllFrames == ToCoprocFrames \cup ToHostFrames

LEMMA UnitsOfType ==
    ASSUME NEW f \in AllFrames, NEW s PROVE UnitsOf(f, s) \in Nat
  BY DEF UnitsOf, AllFrames, ToCoprocFrames, ToHostFrames, HelloRequest

(* The units of the frame at place i.                                      *)
At(i, k) == {i} \X (1 .. k)

LEMMA AtType ==
    ASSUME NEW i, NEW k \in Nat
    PROVE  IsFiniteSet(At(i, k)) /\ Cardinality(At(i, k)) = k
<1>1. IsFiniteSet({i}) /\ Cardinality({i}) = 1
  BY FS_Singleton
<1>2. IsFiniteSet(1 .. k) /\ Cardinality(1 .. k) = IF 1 > k THEN 0 ELSE k - 1 + 1
  <2>1. 1 \in Int /\ k \in Int
    OBVIOUS
  <2>2. \A a, b \in Int : /\ IsFiniteSet(a .. b)
                         /\ Cardinality(a .. b) = IF a > b THEN 0 ELSE b - a + 1
    BY FS_Interval
  <2> QED BY <2>1, <2>2, Zenon
<1>3. Cardinality(1 .. k) = k
  BY <1>2
<1>4. Cardinality({i} \X (1 .. k)) = 1 * k /\ IsFiniteSet({i} \X (1 .. k))
  BY <1>1, <1>2, <1>3, FS_Product
<1> QED BY <1>4 DEF At

LEMMA UnitsMembers ==
    ASSUME NEW c, NEW s
    PROVE  \A x : x \in Units(c, s)
                    <=> \E i \in DOMAIN c : x \in At(i, UnitsOf(c[i], s))
  BY DEF Units, At

LEMMA UnitsType ==
    ASSUME NEW c \in Seq(AllFrames), NEW s
    PROVE  IsFiniteSet(Units(c, s)) /\ UnitsUnderWay(c, s) \in Nat
<1> DEFINE S == {At(i, UnitsOf(c[i], s)) : i \in DOMAIN c}
           g == [i \in DOMAIN c |-> At(i, UnitsOf(c[i], s))]
<1>1. DOMAIN c = 1 .. Len(c) /\ Len(c) \in Nat
  OBVIOUS
<1>2. IsFiniteSet(DOMAIN c)
  BY <1>1, FS_Interval
<1>3. \A i \in DOMAIN c : UnitsOf(c[i], s) \in Nat
  BY UnitsOfType
<1>4. \A T \in S : IsFiniteSet(T)
  BY <1>3, AtType
<1>5. g \in Surjection(DOMAIN c, S)
  BY DEF Surjection
<1>6. IsFiniteSet(S)
  <2> HIDE DEF S, g
  <2> QED BY <1>2, <1>5, FS_Surjection
<1>7. IsFiniteSet(UNION S)
  <2> HIDE DEF S
  <2> QED BY <1>4, <1>6, FS_UNION
<1>8. Units(c, s) = UNION S
  BY DEF Units, At
<1>9. IsFiniteSet(Units(c, s))
  BY <1>7, <1>8
<1> QED BY <1>9, FS_CardinalityType DEF UnitsUnderWay

LEMMA UnitsEmpty == \A s : UnitsUnderWay(<<>>, s) = 0
<1> TAKE s
<1>1. Units(<<>>, s) = {}
  BY DEF Units
<1> QED BY <1>1, FS_EmptySet DEF UnitsUnderWay

(* A channel without a frame of session s has no unit of it.               *)
LEMMA UnitsNone ==
    ASSUME NEW c, NEW s, \A i \in DOMAIN c : UnitsOf(c[i], s) = 0
    PROVE  UnitsUnderWay(c, s) = 0
<1>1. Units(c, s) = {}
  BY DEF Units
<1> QED BY <1>1, FS_EmptySet DEF UnitsUnderWay

(* The frame that is sent adds its units.                                  *)
LEMMA UnitsAppend ==
    ASSUME NEW c \in Seq(AllFrames), NEW f \in AllFrames, NEW s
    PROVE  UnitsUnderWay(Append(c, f), s) = UnitsUnderWay(c, s) + UnitsOf(f, s)
<1> DEFINE d == Append(c, f)
           n == Len(c) + 1
           k == UnitsOf(f, s)
<1>1. /\ DOMAIN c = 1 .. Len(c) /\ DOMAIN d = 1 .. n /\ Len(c) \in Nat
      /\ d[n] = f /\ \A i \in 1 .. Len(c) : d[i] = c[i]
  OBVIOUS
<1>2. 1 .. n = 1 .. Len(c) \cup {n} /\ n \notin 1 .. Len(c)
  BY <1>1
<1> HIDE DEF d, n
<1>3. Units(d, s) = Units(c, s) \cup At(n, k)
  <2>1. \A x : x \in Units(d, s) => x \in Units(c, s) \cup At(n, k)
    BY <1>1, <1>2, UnitsMembers
  <2>2. \A x : x \in Units(c, s) => x \in Units(d, s)
    BY <1>1, <1>2, UnitsMembers
  <2>3. \A x : x \in At(n, k) => x \in Units(d, s)
    BY <1>1, <1>2, UnitsMembers
  <2> QED BY <2>1, <2>2, <2>3
<1>4. Units(c, s) \cap At(n, k) = {}
  BY <1>1, <1>2, UnitsMembers DEF At
<1>5. IsFiniteSet(Units(c, s)) /\ Cardinality(Units(c, s)) \in Nat
  BY UnitsType DEF UnitsUnderWay
<1>6. k \in Nat
  BY UnitsOfType
<1> HIDE DEF k
<1>7. IsFiniteSet(At(n, k)) /\ Cardinality(At(n, k)) = k
  BY <1>6, AtType
<1>8. Cardinality(Units(c, s) \cup At(n, k)) = Cardinality(Units(c, s)) + k - 0
  BY <1>4, <1>5, <1>7, FS_Union, FS_EmptySet
<1>9. Cardinality(Units(d, s)) = Cardinality(Units(c, s)) + k
  BY <1>3, <1>5, <1>6, <1>8
<1> QED BY <1>9 DEF UnitsUnderWay, d, k

(* d is channel c without the frame at place i.                            *)
Without(c, i, d) ==
    /\ i \in 1 .. Len(c) /\ DOMAIN d = 1 .. Len(c) - 1
    /\ \A j \in 1 .. Len(c) - 1 : d[j] = c[IF j < i THEN j ELSE j + 1]

(* A frame that leaves a channel takes its units away.                     *)
LEMMA UnitsWithout ==
    ASSUME NEW c \in Seq(AllFrames), NEW i, NEW d \in Seq(AllFrames),
           Without(c, i, d), NEW s
    PROVE  UnitsUnderWay(c, s) = UnitsUnderWay(d, s) + UnitsOf(c[i], s)
<1> DEFINE k == UnitsOf(c[i], s)
           R == {x \in Units(c, s) : x[1] # i}
           g == [x \in R |-> <<IF x[1] < i THEN x[1] ELSE x[1] - 1, x[2]>>]
<1>1. /\ DOMAIN c = 1 .. Len(c) /\ Len(c) \in Nat /\ i \in DOMAIN c
      /\ i \in Int /\ DOMAIN d = 1 .. Len(c) - 1
      /\ \A j \in 1 .. Len(c) - 1 : d[j] = c[IF j < i THEN j ELSE j + 1]
  BY DEF Without
<1>2. k \in Nat
  BY <1>1, UnitsOfType
<1>3. IsFiniteSet(Units(c, s)) /\ IsFiniteSet(Units(d, s))
  BY UnitsType
<1>4. \A x : x \in Units(c, s)
               <=> \E j \in DOMAIN c : x \in At(j, UnitsOf(c[j], s))
  BY UnitsMembers
<1>5. \A x : x \in Units(d, s)
               <=> \E j \in DOMAIN d : x \in At(j, UnitsOf(d[j], s))
  BY UnitsMembers
<1>6. \A j, m, x : x \in At(j, m) <=> x = <<j, x[2]>> /\ x[2] \in 1 .. m
  BY DEF At
<1>7. Units(c, s) = R \cup At(i, k)
  BY <1>1, <1>4, <1>6
<1>8. R \cap At(i, k) = {}
  BY <1>6
<1>9. IsFiniteSet(R)
  BY <1>3, FS_Subset
<1>10. g \in Bijection(R, Units(d, s))
  <2>1. \A x \in R : g[x] \in Units(d, s)
    <3> SUFFICES ASSUME NEW x \in R PROVE g[x] \in Units(d, s)
      OBVIOUS
    <3>1. PICK j \in DOMAIN c : x = <<j, x[2]>> /\ x[2] \in 1 .. UnitsOf(c[j], s)
      BY <1>4, <1>6
    <3> DEFINE m == IF j < i THEN j ELSE j - 1
    <3>2. x[1] = j /\ j # i /\ j \in 1 .. Len(c)
      BY <1>1, <3>1
    <3>3. m \in DOMAIN d /\ d[m] = c[j]
      BY <1>1, <3>2
    <3>4. g[x] = <<m, x[2]>>
      BY <3>2
    <3>5. g[x] \in At(m, UnitsOf(d[m], s))
      BY <3>1, <3>3, <3>4 DEF At
    <3> QED BY <1>5, <3>3, <3>5
  <2>2. \A x, y \in R : g[x] = g[y] => x = y
    <3> SUFFICES ASSUME NEW x \in R, NEW y \in R, g[x] = g[y] PROVE x = y
      OBVIOUS
    <3>1. PICK j \in DOMAIN c : x = <<j, x[2]>>
      BY <1>4, <1>6
    <3>2. PICK l \in DOMAIN c : y = <<l, y[2]>>
      BY <1>4, <1>6
    <3>3. x[1] = j /\ y[1] = l /\ j # i /\ l # i /\ j \in Int /\ l \in Int
      BY <1>1, <3>1, <3>2
    <3>4. (IF j < i THEN j ELSE j - 1) = (IF l < i THEN l ELSE l - 1) /\ x[2] = y[2]
      BY <3>3
    <3>5. j = l
      BY <1>1, <3>3, <3>4
    <3> QED BY <3>1, <3>2, <3>4, <3>5
  <2>3. \A y \in Units(d, s) : \E x \in R : g[x] = y
    <3> SUFFICES ASSUME NEW y \in Units(d, s) PROVE \E x \in R : g[x] = y
      OBVIOUS
    <3>1. PICK j \in DOMAIN d : y = <<j, y[2]>> /\ y[2] \in 1 .. UnitsOf(d[j], s)
      BY <1>5, <1>6
    <3> DEFINE m == IF j < i THEN j ELSE j + 1
               x == <<m, y[2]>>
    <3>2. m \in DOMAIN c /\ m # i /\ d[j] = c[m] /\ j \in Int
      BY <1>1, <3>1
    <3>3. x \in At(m, UnitsOf(c[m], s))
      BY <3>1, <3>2 DEF At
    <3>4. x \in R
      BY <1>4, <3>2, <3>3
    <3>5. (IF m < i THEN m ELSE m - 1) = j
      <4>1. i \in Int /\ j \in Int
        BY <1>1, <3>2
      <4> QED BY <4>1
    <3>6. g[x] = y
      BY <3>1, <3>4, <3>5
    <3> QED BY <3>4, <3>6
  <2>4. g \in [R -> Units(d, s)]
    BY <2>1
  <2> HIDE DEF g, R
  <2> QED BY <2>2, <2>3, <2>4 DEF Bijection, Injection, Surjection, IsInjective
<1> HIDE DEF R, g, k
<1>11. Cardinality(R) = Cardinality(Units(d, s)) /\ Cardinality(R) \in Nat
  BY <1>9, <1>10, FS_Bijection, FS_CardinalityType DEF ExistsBijection
<1>12. IsFiniteSet(At(i, k)) /\ Cardinality(At(i, k)) = k
  BY <1>2, AtType
<1>13. Cardinality(R \cup At(i, k)) = Cardinality(R) + k - 0
  BY <1>8, <1>9, <1>12, FS_Union, FS_EmptySet
<1>14. Cardinality(Units(c, s)) = Cardinality(Units(d, s)) + k
  BY <1>2, <1>7, <1>11, <1>13
<1> QED BY <1>14 DEF UnitsUnderWay, k

-----------------------------------------------------------------------------
(* Frames and channels.                                                    *)

IsData(f)     == f.type = "DATA"
IsResponse(f) == f.type = "HELLO_RESPONSE"

LEMMA ToCoprocFields ==
    ASSUME NEW f \in ToCoprocFrames
    PROVE  /\ f.type \in {"HELLO", "DATA"}
           /\ IsData(f) => /\ f.of \in Nat /\ f.units \in Nat
                           /\ f.epoch \in Nat /\ f.seq \in Nat
  BY DEF ToCoprocFrames, HelloRequest, IsData

LEMMA ToHostFields ==
    ASSUME NEW f \in ToHostFrames
    PROVE  /\ f.type \in {"HELLO_RESPONSE", "HEARTBEAT", "CREDIT_UPDATE"}
           /\ f.of \in Nat
           /\ IsResponse(f) => f.of = 0 /\ f.opens \in Nat \ {0}
           /\ f.type = "CREDIT_UPDATE" => f.units \in Nat
  BY DEF ToHostFrames, IsResponse

LEMMA FramesMade ==
    /\ HelloRequest \in ToCoprocFrames
    /\ epoch \in Nat => \A s, n, k \in Nat : Data(s, n, k) \in ToCoprocFrames
    /\ \A s \in Nat : Heartbeat(s) \in ToHostFrames
    /\ \A s \in Nat \ {0} : HelloResponse(s) \in ToHostFrames
    /\ \A s, k \in Nat : CreditUpdate(s, k) \in ToHostFrames
  BY DEF ToCoprocFrames, ToHostFrames, Data, Heartbeat, HelloResponse, CreditUpdate

(* What the frames carry for a session.                                    *)
LEMMA UnitsMade ==
    /\ \A s : UnitsOf(HelloRequest, s) = 0
    /\ \A s, t, n, k : UnitsOf(Data(s, n, k), t) = IF s = t THEN k ELSE 0
    /\ \A s, t : UnitsOf(Heartbeat(s), t) = 0
    /\ \A s, t : UnitsOf(HelloResponse(s), t) = 0
    /\ \A s, t, k : UnitsOf(CreditUpdate(s, k), t) = IF s = t THEN k ELSE 0
  BY DEF UnitsOf, HelloRequest, Data, Heartbeat, HelloResponse, CreditUpdate

LEMMA WithoutFirst ==
    ASSUME NEW S, NEW c \in Seq(S), c # <<>>
    PROVE  Tail(c) \in Seq(S) /\ Without(c, 1, Tail(c)) /\ Head(c) = c[1] /\ c[1] \in S
  BY DEF Without

LEMMA WithoutAny ==
    ASSUME NEW S, NEW c \in Seq(S), NEW i \in DOMAIN c
    PROVE  RemoveAt(c, i) \in Seq(S) /\ Without(c, i, RemoveAt(c, i)) /\ c[i] \in S
<1> DEFINE a == SubSeq(c, 1, i - 1)
           b == SubSeq(c, i + 1, Len(c))
           n == Len(c)
<1>1. n \in Nat /\ DOMAIN c = 1 .. n /\ i \in 1 .. n /\ c[i] \in S
  OBVIOUS
<1>2. a \in Seq(S) /\ Len(a) = i - 1 /\ \A j \in 1 .. i - 1 : a[j] = c[j]
  BY <1>1
<1>3. b \in Seq(S) /\ Len(b) = n - i /\ \A j \in 1 .. n - i : b[j] = c[i + j]
  <2>1. i + 1 \in Int /\ n \in Int /\ \A j \in i + 1 .. n : c[j] \in S
    BY <1>1
  <2>2. /\ b \in Seq(S) /\ Len(b) = IF i + 1 <= n THEN n - (i + 1) + 1 ELSE 0
        /\ \A j \in 1 .. n - (i + 1) + 1 : b[j] = c[i + 1 + j - 1]
    <3>1. \A m, k \in Int : (\A j \in m .. k : c[j] \in S)
             => /\ SubSeq(c, m, k) \in Seq(S)
                /\ Len(SubSeq(c, m, k)) = IF m <= k THEN k - m + 1 ELSE 0
                /\ \A j \in 1 .. k - m + 1 : SubSeq(c, m, k)[j] = c[m + j - 1]
      BY SubSeqProperties, SMTT(60)
    <3> QED BY <2>1, <3>1, Zenon
  <2> HIDE DEF b, n
  <2>4. n - (i + 1) + 1 = n - i /\ (IF i + 1 <= n THEN n - (i + 1) + 1 ELSE 0) = n - i
    BY <1>1
  <2>5. \A j \in 1 .. n - i : b[j] = c[i + j]
    <3> TAKE j \in 1 .. n - i
    <3>1. j \in 1 .. n - (i + 1) + 1 /\ i + 1 + j - 1 = i + j
      BY <1>1, <2>4
    <3> QED BY <2>2, <3>1
  <2> QED BY <2>2, <2>4, <2>5
<1> HIDE DEF a, b, n
<1>4. /\ a \o b \in Seq(S) /\ Len(a \o b) = Len(a) + Len(b)
      /\ \A j \in 1 .. Len(a) + Len(b) :
            (a \o b)[j] = IF j <= Len(a) THEN a[j] ELSE b[j - Len(a)]
  <2>1. a \in Seq(S) /\ b \in Seq(S)
    BY <1>2, <1>3
  <2>2. a \o b \in Seq(S) /\ Len(a \o b) = Len(a) + Len(b)
    BY <2>1, ConcatProperties, SMTT(30)
  <2>3. \A j \in 1 .. Len(a) + Len(b) :
            (a \o b)[j] = IF j <= Len(a) THEN a[j] ELSE b[j - Len(a)]
    BY <2>1, ConcatProperties, SMTT(30)
  <2> QED BY <2>2, <2>3, Zenon
<1>5. Len(a) + Len(b) = n - 1 /\ DOMAIN (a \o b) = 1 .. n - 1
  <2>1. n \in Nat /\ i \in 1 .. n /\ Len(a) = i - 1 /\ Len(b) = n - i
    BY <1>1, <1>2, <1>3, Zenon
  <2>2. Len(a) + Len(b) = n - 1
    BY <2>1
  <2>3. a \o b \in Seq(S) /\ Len(a \o b) = n - 1
    BY <1>4, <2>2, Zenon
  <2> QED BY <2>2, <2>3
<1>7. \A j \in 1 .. n - 1 : (a \o b)[j] = c[IF j < i THEN j ELSE j + 1]
  <2> SUFFICES ASSUME NEW j \in 1 .. n - 1
               PROVE  (a \o b)[j] = c[IF j < i THEN j ELSE j + 1]
    OBVIOUS
  <2>1. CASE j < i
    <3>1. j \in 1 .. Len(a) + Len(b) /\ j <= Len(a) /\ j \in 1 .. i - 1
      BY <1>1, <1>2, <1>5, <2>1
    <3>2. (a \o b)[j] = a[j] /\ a[j] = c[j]
      BY <1>2, <1>4, <3>1
    <3> QED BY <2>1, <3>2
  <2>2. CASE ~(j < i)
    <3>0. j \in 1 .. Len(a) + Len(b) /\ ~(j <= Len(a)) /\ Len(a) = i - 1
      BY <1>1, <1>2, <1>5, <2>2
    <3>1. (a \o b)[j] = b[j - (i - 1)] /\ j - (i - 1) \in 1 .. n - i
      <4>1. (a \o b)[j] = b[j - (i - 1)]
        BY <1>4, <3>0
      <4> QED BY <1>1, <2>2, <4>1
    <3>2. i + (j - (i - 1)) = j + 1
      BY <1>1
    <3> QED BY <1>3, <2>2, <3>1, <3>2
  <2> QED BY <2>1, <2>2
<1>6. RemoveAt(c, i) = a \o b
  BY DEF RemoveAt, a, b
<1> QED BY <1>1, <1>4, <1>5, <1>6, <1>7 DEF Without, n

(* Where the frames of d are in c: they keep their order.                  *)
Place(i, j) == IF j < i THEN j ELSE j + 1

LEMMA WithoutPlaces ==
    ASSUME NEW S, NEW c \in Seq(S), NEW i, NEW d, Without(c, i, d)
    PROVE  /\ \A j \in DOMAIN d : /\ j \in 1 .. Len(c) - 1 /\ Place(i, j) \in DOMAIN c
                                  /\ Place(i, j) # i /\ d[j] = c[Place(i, j)]
           /\ \A j, k \in DOMAIN d : j < k => Place(i, j) < Place(i, k)
           /\ \A k \in DOMAIN c : k # i => \E j \in DOMAIN d : Place(i, j) = k
<1>1. /\ DOMAIN c = 1 .. Len(c) /\ Len(c) \in Nat /\ i \in 1 .. Len(c) /\ i \in Int
      /\ DOMAIN d = 1 .. Len(c) - 1
      /\ \A j \in 1 .. Len(c) - 1 : d[j] = c[IF j < i THEN j ELSE j + 1]
  BY DEF Without
<1>2. ASSUME NEW j \in DOMAIN d
      PROVE  /\ j \in 1 .. Len(c) - 1 /\ Place(i, j) \in DOMAIN c
             /\ Place(i, j) # i /\ d[j] = c[Place(i, j)]
  <2>1. j \in 1 .. Len(c) - 1 /\ d[j] = c[Place(i, j)]
    BY <1>1 DEF Place
  <2>2. Len(c) \in Nat /\ i \in 1 .. Len(c) /\ DOMAIN c = 1 .. Len(c)
    BY <1>1
  <2>3. Place(i, j) \in DOMAIN c /\ Place(i, j) # i
    BY <2>1, <2>2 DEF Place
  <2> QED BY <2>1, <2>3
<1>3. ASSUME NEW j \in DOMAIN d, NEW k \in DOMAIN d, j < k
      PROVE  Place(i, j) < Place(i, k)
  <2>1. j \in Int /\ k \in Int /\ i \in Int
    BY <1>1
  <2> QED BY <1>3, <2>1 DEF Place
<1>4. ASSUME NEW k \in DOMAIN c, k # i
      PROVE  \E j \in DOMAIN d : Place(i, j) = k
  <2>1. Len(c) \in Nat /\ i \in 1 .. Len(c) /\ k \in 1 .. Len(c)
    BY <1>1
  <2>2. CASE k < i
    <3>1. k \in 1 .. Len(c) - 1 /\ Place(i, k) = k
      BY <2>1, <2>2 DEF Place
    <3> QED BY <1>1, <3>1
  <2>3. CASE k > i
    <3>1. k - 1 \in 1 .. Len(c) - 1 /\ Place(i, k - 1) = k
      BY <2>1, <2>3 DEF Place
    <3> QED BY <1>1, <3>1
  <2> QED BY <1>4, <2>1, <2>2, <2>3
<1> QED BY <1>2, <1>3, <1>4

(* d is channel c without its first n frames.                              *)
IsRest(c, n, d) ==
    /\ n \in 0 .. Len(c) /\ DOMAIN d = 1 .. Len(c) - n
    /\ \A j \in 1 .. Len(c) - n : d[j] = c[n + j]

LEMMA RestIs ==
    ASSUME NEW S, NEW c \in Seq(S), NEW n \in 0 .. Len(c)
    PROVE  IsRest(c, n, SubSeq(c, n + 1, Len(c)))
<1> DEFINE d == SubSeq(c, n + 1, Len(c))
           k == Len(c)
<1>1. /\ k \in Nat /\ n \in Nat /\ n <= k /\ DOMAIN c = 1 .. k
      /\ n + 1 \in Int /\ \A j \in n + 1 .. k : c[j] \in S
  OBVIOUS
<1>2. /\ d \in Seq(S) /\ Len(d) = IF n + 1 <= k THEN k - (n + 1) + 1 ELSE 0
      /\ \A j \in 1 .. k - (n + 1) + 1 : d[j] = c[n + 1 + j - 1]
  BY <1>1, SubSeqProperties
<1> HIDE DEF d, k
<1>3. k - (n + 1) + 1 = k - n /\ (IF n + 1 <= k THEN k - (n + 1) + 1 ELSE 0) = k - n
  BY <1>1
<1>4. DOMAIN d = 1 .. k - n
  BY <1>2, <1>3
<1>5. \A j \in 1 .. k - n : d[j] = c[n + j]
  <2> TAKE j \in 1 .. k - n
  <2>1. j \in 1 .. k - (n + 1) + 1 /\ n + 1 + j - 1 = n + j
    BY <1>1, <1>3
  <2> QED BY <1>2, <2>1
<1> QED BY <1>4, <1>5 DEF IsRest, d, k

(* send_credit_update: nothing, or one frame.                              *)
LEMMA UpdatesSent ==
    ASSUME NEW c \in Seq(ToHostFrames), NEW s \in Nat, NEW k \in Nat
    PROVE  \/ k = 0 /\ c \o Updates(s, k) = c
           \/ k # 0 /\ c \o Updates(s, k) = Append(c, CreditUpdate(s, k))
<1>1. CASE k = 0
  BY <1>1, ConcatEmptySeq DEF Updates
<1>2. CASE k # 0
  <2>1. CreditUpdate(s, k) \in ToHostFrames
    BY FramesMade
  <2>2. Append(c, CreditUpdate(s, k)) = c \o <<CreditUpdate(s, k)>>
    BY <2>1, AppendIsConcat
  <2> QED BY <1>2, <2>2 DEF Updates
<1> QED BY <1>1, <1>2

(* d is channel c with the update behind it.                               *)
UpdatesFollow(c, s, k, d) ==
    /\ d \in Seq(ToHostFrames) /\ Len(d) >= Len(c)
    /\ \A i \in DOMAIN c : d[i] = c[i]
    /\ \A i \in DOMAIN d : i \in DOMAIN c \/ d[i] = CreditUpdate(s, k)
    /\ \A t : UnitsUnderWay(d, t) = UnitsUnderWay(c, t) + IF s = t THEN k ELSE 0

LEMMA UpdatesAdd ==
    ASSUME NEW c \in Seq(ToHostFrames), NEW s \in Nat, NEW k \in Nat
    PROVE  UpdatesFollow(c, s, k, c \o Updates(s, k))
<1>1. CreditUpdate(s, k) \in ToHostFrames
  BY FramesMade
<1> DEFINE f == CreditUpdate(s, k)
           d == c \o Updates(s, k)
<1>2. c \in Seq(AllFrames) /\ f \in AllFrames
  BY <1>1 DEF AllFrames
<1>3. \A t : UnitsUnderWay(c, t) \in Nat
  BY <1>2, UnitsType
<1>4. CASE k = 0
  <2>1. d = c
    BY <1>4, UpdatesSent
  <2>2. c \in Seq(ToHostFrames) /\ Len(c) >= Len(c)
    OBVIOUS
  <2>3. \A t : UnitsUnderWay(c, t) = UnitsUnderWay(c, t) + IF s = t THEN k ELSE 0
    BY <1>3, <1>4
  <2> HIDE DEF d, f
  <2>4. /\ d \in Seq(ToHostFrames) /\ Len(d) >= Len(c) /\ \A i \in DOMAIN c : d[i] = c[i]
        /\ \A i \in DOMAIN d : i \in DOMAIN c \/ d[i] = f
    BY <2>1, <2>2
  <2>5. \A t : UnitsUnderWay(d, t) = UnitsUnderWay(c, t) + IF s = t THEN k ELSE 0
    BY <2>1, <2>3, Zenon
  <2>6. UpdatesFollow(c, s, k, d)
    BY <2>4, <2>5, Zenon DEF f, UpdatesFollow
  <2> QED BY <2>6 DEF d
<1>5. CASE k # 0
  <2>1. d = Append(c, f)
    <3> HIDE DEF f
    <3>1. \/ k = 0 /\ c \o Updates(s, k) = c
          \/ k # 0 /\ c \o Updates(s, k) = Append(c, CreditUpdate(s, k))
      BY UpdatesSent, Zenon
    <3> QED BY <1>5, <3>1, Zenon DEF f
  <2>2. \A t : UnitsUnderWay(Append(c, f), t)
                  = UnitsUnderWay(c, t) + IF s = t THEN k ELSE 0
    BY <1>2, UnitsAppend, UnitsMade
  <2> HIDE DEF d, f
  <2>3. /\ Append(c, f) \in Seq(ToHostFrames) /\ Len(Append(c, f)) >= Len(c)
        /\ \A i \in DOMAIN c : Append(c, f)[i] = c[i]
        /\ \A i \in DOMAIN Append(c, f) : i \in DOMAIN c \/ Append(c, f)[i] = f
    BY <1>1 DEF f
  <2>4. UpdatesFollow(c, s, k, Append(c, f))
    BY <2>2, <2>3, Zenon DEF f, UpdatesFollow
  <2> QED BY <2>1, <2>4 DEF d
<1> QED BY <1>4, <1>5

-----------------------------------------------------------------------------
(* Types.                                                                  *)

FrameNumbers == Nat \X Nat

HostTypeOK ==
    /\ hState \in HostStates
    /\ transport \in {"up", "stopping", "starting", "stopped"}
    /\ hSession \in Nat /\ credit \in Nat /\ waiting \in 0 .. MaxWaiting
    /\ sequence \in Nat /\ epoch \in Nat
CoprocTypeOK ==
    /\ cState \in CoprocStates /\ cSession \in Nat /\ nextId \in Nat
    /\ expected \in Nat \cup {NoSequence} /\ unreturned \in Nat
    /\ wireId \in Seq(Nat)
WireTypeOK ==
    /\ toCoproc \in Seq(ToCoprocFrames) /\ toHost \in Seq(ToHostFrames)
    /\ faults \in 0 .. MaxFaults
LedgerTypeOK ==
    /\ lost \in Nat /\ foreign \in Nat
    /\ refunded \in SUBSET FrameNumbers /\ IsFiniteSet(refunded)
    /\ dropped \in SUBSET FrameNumbers

LinkTypeOK == HostTypeOK /\ CoprocTypeOK /\ WireTypeOK /\ LedgerTypeOK

LEMMA DataInType ==
    ASSUME NEW c \in Seq(ToCoprocFrames)
    PROVE  /\ DataIn(c) \in SUBSET FrameNumbers
           /\ DataIn(c) = {Number(c[i]) : i \in {j \in DOMAIN c : IsData(c[j])}}
<1>1. ToSet(c) = {c[i] : i \in DOMAIN c}
  BY DEF ToSet
<1>2. DataIn(c) = {Number(c[i]) : i \in {j \in DOMAIN c : IsData(c[j])}}
  BY <1>1 DEF DataIn, IsData
<1>3. \A i \in DOMAIN c : IsData(c[i]) => Number(c[i]) \in FrameNumbers
  BY ToCoprocFields DEF Number, FrameNumbers
<1> QED BY <1>2, <1>3

(* The numbers skipped, and the frames they are of.                        *)
LEMMA SkippedType ==
    ASSUME NEW n \in Nat, expected \in Nat \cup {NoSequence}, NEW e \in Nat
    PROVE  /\ Skipped(n) \in SUBSET Nat /\ IsFiniteSet(Skipped(n))
           /\ Cardinality(Skipped(n)) \in Nat
           /\ \A m : m \in Skipped(n)
                 <=> expected # NoSequence /\ m \in Nat /\ expected <= m /\ m < n
           /\ {<<e, m>> : m \in Skipped(n)} \in SUBSET FrameNumbers
           /\ IsFiniteSet({<<e, m>> : m \in Skipped(n)})
           /\ Cardinality({<<e, m>> : m \in Skipped(n)}) = Cardinality(Skipped(n))
<1> DEFINE S == Skipped(n)
           T == {<<e, m>> : m \in S}
           g == [m \in S |-> <<e, m>>]
<1>1. \A m : m \in S <=> expected # NoSequence /\ m \in Nat /\ expected <= m /\ m < n
  BY DEF Skipped, NoSequence
<1>2. S \in SUBSET (0 .. n)
  BY <1>1
<1>3. IsFiniteSet(0 .. n)
  <2>1. \A a, b \in Int : IsFiniteSet(a .. b)
    BY FS_Interval
  <2> QED BY <2>1
<1>4. S \in SUBSET Nat
  BY <1>1
<1> HIDE DEF S
<1>5. IsFiniteSet(S) /\ Cardinality(S) \in Nat
  BY <1>2, <1>3, FS_Subset, FS_CardinalityType
<1>6. T \in SUBSET FrameNumbers
  BY <1>4 DEF FrameNumbers
<1>7. g \in Bijection(S, T)
  BY DEF Bijection, Injection, Surjection, IsInjective
<1>8. IsFiniteSet(T) /\ Cardinality(T) = Cardinality(S)
  <2> HIDE DEF g, T
  <2> QED BY <1>5, <1>7, FS_Bijection DEF ExistsBijection
<1> QED BY <1>1, <1>4, <1>5, <1>6, <1>8 DEF S

LEMMA AppendedToCoproc ==
    ASSUME toCoproc \in Seq(ToCoprocFrames), NEW f \in ToCoprocFrames
    PROVE  Append(toCoproc, f) \in Seq(ToCoprocFrames)
  OBVIOUS

LEMMA AppendedToHost ==
    ASSUME toHost \in Seq(ToHostFrames), NEW f \in ToHostFrames
    PROVE  Append(toHost, f) \in Seq(ToHostFrames)
  OBVIOUS

(* The Host's actions.                                                     *)
LEMMA HostTypeStep ==
    ASSUME LinkTypeOK, Admit \/ HostTransmits \/ HostReceives \/ HeartbeatTimeout
                          \/ HandleTransportStopped \/ HandleTransportStarted
    PROVE  LinkTypeOK'
<1> USE DEF LinkTypeOK
<1>1. CASE Admit
  <2>1. HostTypeOK'
    BY <1>1 DEF Admit, HostTypeOK
  <2> QED
    BY <1>1, <2>1 DEF Admit, coprocVars, ledger, CoprocTypeOK, WireTypeOK, LedgerTypeOK
<1>2. ASSUME NEW k \in 1 .. MaxRecords, HandleEthernetTx(k) PROVE LinkTypeOK'
  <2>1. toCoproc' \in Seq(ToCoprocFrames)
    <3>1. Data(hSession, sequence, k) \in ToCoprocFrames
      <4>1. k \in Nat /\ hSession \in Nat /\ sequence \in Nat /\ epoch \in Nat
        BY DEF HostTypeOK
      <4> QED BY <4>1, FramesMade
    <3>2. Append(toCoproc, Data(hSession, sequence, k)) \in Seq(ToCoprocFrames)
      BY <3>1, AppendedToCoproc DEF WireTypeOK
    <3> QED BY <1>2, <3>2 DEF HandleEthernetTx, WireTypeOK
  <2>2. waiting' \in 0 .. MaxWaiting
    BY <1>2 DEF HandleEthernetTx, HostTypeOK
  <2>3. hState' \in HostStates
    BY <1>2 DEF HandleEthernetTx, HostTypeOK, HostStates
  <2>4. credit' \in Nat /\ sequence' \in Nat
    BY <1>2 DEF HandleEthernetTx, HostTypeOK
  <2>5. HostTypeOK'
    BY <1>2, <2>2, <2>3, <2>4 DEF HandleEthernetTx, HostTypeOK
  <2> QED
    BY <1>2, <2>1, <2>5
    DEF HandleEthernetTx, coprocVars, ledger, CoprocTypeOK, WireTypeOK, LedgerTypeOK
<1>3. ASSUME toHost # <<>>
      PROVE  Tail(toHost) \in Seq(ToHostFrames) /\ Rx \in ToHostFrames
  BY <1>3, WithoutFirst DEF Rx, WireTypeOK
<1>4. Append(toCoproc, HelloRequest) \in Seq(ToCoprocFrames)
  BY FramesMade, AppendedToCoproc DEF WireTypeOK
<1>5. CASE HandleSessionMismatch
  <2>1. HostTypeOK'
    BY <1>5 DEF HandleSessionMismatch, SendHello, HostTypeOK, HostStates
  <2>2. WireTypeOK'
    BY <1>3, <1>4, <1>5 DEF HandleSessionMismatch, SendHello, WireTypeOK
  <2> QED
    BY <1>5, <2>1, <2>2
    DEF HandleSessionMismatch, coprocVars, ledger, CoprocTypeOK, LedgerTypeOK
<1>6. CASE HandleHelloResponse
  <2>1. Rx.opens \in Nat /\ Window \in Nat
    BY <1>3, <1>6, ToHostFields DEF HandleHelloResponse, IsResponse
  <2>2. HostTypeOK'
    BY <1>6, <2>1 DEF HandleHelloResponse, HostTypeOK, HostStates
  <2>3. WireTypeOK'
    BY <1>3, <1>6 DEF HandleHelloResponse, WireTypeOK
  <2> QED
    BY <1>6, <2>2, <2>3
    DEF HandleHelloResponse, coprocVars, ledger, CoprocTypeOK, LedgerTypeOK
<1>7. CASE HandleCreditUpdate
  <2>1. Rx.units \in Nat
    BY <1>3, <1>7, ToHostFields DEF HandleCreditUpdate
  <2>2. HostTypeOK'
    BY <1>7, <2>1 DEF HandleCreditUpdate, HostTypeOK, HostStates
  <2>3. WireTypeOK'
    BY <1>3, <1>7 DEF HandleCreditUpdate, WireTypeOK
  <2> QED
    BY <1>7, <2>2, <2>3
    DEF HandleCreditUpdate, coprocVars, ledger, CoprocTypeOK, LedgerTypeOK
<1>8. CASE HandleHeartbeat
  <2>1. WireTypeOK'
    BY <1>3, <1>8 DEF HandleHeartbeat, WireTypeOK
  <2> QED
    BY <1>8, <2>1
    DEF HandleHeartbeat, hostVars, coprocVars, ledger, HostTypeOK, CoprocTypeOK, LedgerTypeOK
<1>9. CASE HeartbeatTimeout
  <2>1. HostTypeOK'
    BY <1>9 DEF HeartbeatTimeout, ProcessTransportLost, HostTypeOK, HostStates
  <2> QED
    BY <1>9, <2>1
    DEF HeartbeatTimeout, coprocVars, ledger, CoprocTypeOK, WireTypeOK, LedgerTypeOK
<1>10. CASE HandleTransportStopped
  <2>1. HostTypeOK'
    BY <1>10 DEF HandleTransportStopped, HostTypeOK, HostStates
  <2> QED
    BY <1>10, <2>1
    DEF HandleTransportStopped, coprocVars, ledger, CoprocTypeOK, WireTypeOK, LedgerTypeOK
<1>11. CASE HandleTransportStarted
  <2>1. HostTypeOK'
    BY <1>11 DEF HandleTransportStarted, SendHello, HostTypeOK, HostStates
  <2>2. WireTypeOK'
    BY <1>4, <1>11 DEF HandleTransportStarted, SendHello, WireTypeOK
  <2> QED
    BY <1>11, <2>1, <2>2
    DEF HandleTransportStarted, coprocVars, ledger, CoprocTypeOK, LedgerTypeOK
<1> HIDE DEF LinkTypeOK
<1> QED
  BY <1>1, <1>2, <1>5, <1>6, <1>7, <1>8, <1>9, <1>10, <1>11
  DEF HostTransmits, HostReceives

(* The ends of a Hello: a session is opened and the Host told, or not      *)
(* told, or it stays as it is.                                             *)
OpensSession ==
    /\ wireId' = Append(wireId, nextId) /\ nextId' = nextId + 1
    /\ unreturned' = 0 /\ lost' = 0 /\ foreign' = 0 /\ refunded' = {}
Answered ==
    /\ OpensSession /\ toHost' = Append(toHost, HelloResponse(Len(wireId) + 1))
    /\ cState' = "READY" /\ cSession' = Len(wireId) + 1 /\ faults' = faults
NotAnswered ==
    /\ OpensSession /\ toHost' = toHost
    /\ cState' = cState /\ cSession' = 0
    /\ faults < MaxFaults /\ faults' = faults + 1
NoBuffer(forgotten) ==
    /\ forgotten \in 0 .. unreturned
    /\ unreturned' = unreturned - forgotten /\ lost' = lost + forgotten
    /\ cState' = cState /\ cSession' = cSession /\ nextId' = nextId
    /\ wireId' = wireId /\ toHost' = toHost /\ foreign' = foreign
    /\ refunded' = refunded
    /\ faults < MaxFaults /\ faults' = faults + 1

LEMMA HelloEnds ==
    ASSUME HandleHelloRequest
    PROVE  /\ toCoproc # <<>> /\ Head(toCoproc).type = "HELLO"
           /\ toCoproc' = Tail(toCoproc) /\ expected' = NoSequence
           /\ hState' = hState /\ hSession' = hSession /\ transport' = transport
           /\ credit' = credit /\ waiting' = waiting /\ sequence' = sequence
           /\ epoch' = epoch /\ dropped' = dropped
           /\ Answered \/ NotAnswered \/ \E forgotten : NoBuffer(forgotten)
  BY DEF HandleHelloRequest, SendHelloResponse, Fails, hostVars, OpensSession, Answered,
     NotAnswered, NoBuffer

(* The Coprocessor's.                                                      *)
LEMMA CoprocTypeStep ==
    ASSUME LinkTypeOK, \/ CoprocReceives \/ EmitHeartbeat \/ CoprocCreditUpdate
                       \/ \E k \in 1 .. unreturned : ReturnUnits(k)
    PROVE  LinkTypeOK'
<1> USE DEF LinkTypeOK
<1>1. CASE HandleHelloRequest
  <2>1. /\ toCoproc # <<>> /\ toCoproc' = Tail(toCoproc) /\ expected' = NoSequence
        /\ hState' = hState /\ hSession' = hSession /\ transport' = transport
        /\ credit' = credit /\ waiting' = waiting /\ sequence' = sequence
        /\ epoch' = epoch /\ dropped' = dropped
    BY <1>1, HelloEnds
  <2>2. toCoproc' \in Seq(ToCoprocFrames)
    BY <2>1, WithoutFirst DEF WireTypeOK
  <2>3. HostTypeOK'
    BY <2>1 DEF HostTypeOK
  <2>4. Len(wireId) + 1 \in Nat \ {0} /\ Append(wireId, nextId) \in Seq(Nat)
    BY DEF CoprocTypeOK
  <2>5. ASSUME OpensSession, cSession' \in Nat, cState' \in CoprocStates,
               toHost' \in Seq(ToHostFrames), faults' \in 0 .. MaxFaults
        PROVE  LinkTypeOK'
    <3>1. CoprocTypeOK'
      BY <2>1, <2>4, <2>5 DEF OpensSession, CoprocTypeOK
    <3>2. refunded' \in SUBSET FrameNumbers /\ IsFiniteSet(refunded')
      BY <2>5, FS_EmptySet DEF OpensSession
    <3>3. LedgerTypeOK'
      BY <2>1, <2>5, <3>2 DEF OpensSession, LedgerTypeOK
    <3>4. WireTypeOK'
      BY <2>2, <2>5 DEF WireTypeOK
    <3> QED BY <2>3, <3>1, <3>3, <3>4
  <2>6. CASE Answered
    <3>1. toHost' \in Seq(ToHostFrames)
      BY <2>4, <2>6, FramesMade, AppendedToHost DEF WireTypeOK, Answered
    <3>2. cSession' \in Nat /\ cState' \in CoprocStates /\ faults' \in 0 .. MaxFaults
      BY <2>4, <2>6 DEF Answered, WireTypeOK, CoprocStates
    <3> QED BY <2>5, <2>6, <3>1, <3>2 DEF Answered
  <2>7. CASE NotAnswered
    <3>1. /\ cSession' \in Nat /\ cState' \in CoprocStates /\ faults' \in 0 .. MaxFaults
          /\ toHost' \in Seq(ToHostFrames)
      BY <2>7 DEF NotAnswered, WireTypeOK, CoprocTypeOK
    <3> QED BY <2>5, <2>7, <3>1 DEF NotAnswered
  <2>8. ASSUME NEW forgotten, NoBuffer(forgotten) PROVE LinkTypeOK'
    <3>1. unreturned' \in Nat /\ lost' \in Nat
      BY <2>8 DEF NoBuffer, CoprocTypeOK, LedgerTypeOK
    <3>2. CoprocTypeOK'
      BY <2>1, <2>8, <3>1 DEF NoBuffer, CoprocTypeOK
    <3>3. LedgerTypeOK'
      BY <2>1, <2>8, <3>1 DEF NoBuffer, LedgerTypeOK
    <3>4. WireTypeOK'
      BY <2>2, <2>8 DEF NoBuffer, WireTypeOK
    <3> QED BY <2>3, <3>2, <3>3, <3>4
  <2> QED BY <1>1, <2>6, <2>7, <2>8, HelloEnds
<1>2. ASSUME NEW kept \in 0 .. MaxRecords, HandleData(kept) PROVE LinkTypeOK'
  <2> DEFINE frame == Head(toCoproc)
             gap   == Skipped(frame.seq)
             missing == {<<frame.epoch, n>> : n \in gap}
  <2>1. toCoproc # <<>> /\ IsData(frame) /\ kept <= frame.units
    BY <1>2 DEF HandleData, IsData
  <2>2. Tail(toCoproc) \in Seq(ToCoprocFrames) /\ frame \in ToCoprocFrames
    BY <2>1, WithoutFirst DEF WireTypeOK
  <2>3. frame.of \in Nat /\ frame.units \in Nat /\ frame.epoch \in Nat /\ frame.seq \in Nat
    BY <2>1, <2>2, ToCoprocFields
  <2>4. Cardinality(gap) \in Nat /\ missing \in SUBSET FrameNumbers /\ IsFiniteSet(missing)
    BY <2>3, SkippedType DEF CoprocTypeOK
  <2>5. /\ toCoproc' = Tail(toCoproc) /\ expected' = frame.seq + 1
        /\ unreturned' = (IF cSession = 0 THEN 0 ELSE unreturned + kept)
        /\ toHost' = toHost \o Updates(cSession, Cardinality(gap))
                            \o Updates(cSession, frame.units - kept)
        /\ refunded' = refunded \cup missing
        /\ foreign' = (IF frame.of = cSession THEN foreign ELSE foreign + frame.units)
        /\ UNCHANGED <<hostVars, cState, cSession, nextId, wireId, faults, lost, dropped>>
    BY <1>2 DEF HandleData
  <2> HIDE DEF frame, gap, missing
  <2>6. frame.units - kept \in Nat
    BY <2>1, <2>3
  <2>7. toHost' \in Seq(ToHostFrames)
    <3>1. toHost \o Updates(cSession, Cardinality(gap)) \in Seq(ToHostFrames)
      BY <2>4, UpdatesAdd DEF WireTypeOK, CoprocTypeOK, UpdatesFollow
    <3> HIDE DEF LinkTypeOK
    <3>2. cSession \in Nat
      BY DEF LinkTypeOK, CoprocTypeOK
    <3> QED BY <2>5, <2>6, <3>1, <3>2, UpdatesAdd DEF UpdatesFollow
  <2>8. WireTypeOK'
    BY <2>2, <2>5, <2>7 DEF WireTypeOK
  <2>9. CoprocTypeOK'
    <3>1. expected' \in Nat
      BY <2>3, <2>5
    <3>2. unreturned' \in Nat
      BY <2>5 DEF CoprocTypeOK
    <3>3. /\ cState' = cState /\ cSession' = cSession /\ nextId' = nextId
          /\ wireId' = wireId
      BY <2>5
    <3> QED BY <3>1, <3>2, <3>3 DEF CoprocTypeOK
  <2>10. refunded' \in SUBSET FrameNumbers /\ IsFiniteSet(refunded')
    <3>1. IsFiniteSet(refunded) /\ refunded \in SUBSET FrameNumbers
      BY DEF LedgerTypeOK
    <3>2. IsFiniteSet(refunded \cup missing)
      BY <2>4, <3>1, FS_Union
    <3> QED BY <2>4, <2>5, <3>1, <3>2
  <2>11. LedgerTypeOK'
    <3>1. foreign' \in Nat
      <4>1. foreign \in Nat
        BY DEF LedgerTypeOK
      <4>2. foreign' = IF frame.of = cSession THEN foreign ELSE foreign + frame.units
        BY <2>5
      <4> HIDE DEF LinkTypeOK
      <4> QED BY <2>3, <4>1, <4>2
    <3>2. lost' = lost /\ dropped' = dropped
      BY <2>5
    <3> QED BY <2>10, <3>1, <3>2 DEF LedgerTypeOK
  <2> QED BY <2>5, <2>8, <2>9, <2>11 DEF hostVars, HostTypeOK
<1>3. ASSUME NEW k \in 1 .. unreturned, ReturnUnits(k) PROVE LinkTypeOK'
  <2>1. k \in Nat /\ unreturned - k \in Nat /\ cSession \in Nat
    BY DEF CoprocTypeOK
  <2>2. Append(toHost, CreditUpdate(cSession, k)) \in Seq(ToHostFrames)
    BY <2>1, FramesMade, AppendedToHost DEF WireTypeOK
  <2>3. WireTypeOK'
    BY <1>3, <2>2 DEF ReturnUnits, WireTypeOK
  <2>4. CoprocTypeOK'
    BY <1>3, <2>1 DEF ReturnUnits, CoprocTypeOK
  <2> QED
    BY <1>3, <2>3, <2>4 DEF ReturnUnits, hostVars, ledger, HostTypeOK, LedgerTypeOK
<1>4. CASE EmitHeartbeat
  <2>1. Append(toHost, Heartbeat(cSession)) \in Seq(ToHostFrames)
    BY FramesMade, AppendedToHost DEF WireTypeOK, CoprocTypeOK
  <2>2. WireTypeOK'
    BY <1>4, <2>1 DEF EmitHeartbeat, WireTypeOK
  <2> QED
    BY <1>4, <2>2
    DEF EmitHeartbeat, hostVars, coprocVars, ledger, HostTypeOK, CoprocTypeOK, LedgerTypeOK
<1>5. CASE CoprocCreditUpdate
  BY <1>5 DEF CoprocCreditUpdate, hostVars, ledger, HostTypeOK, CoprocTypeOK, CoprocStates,
              WireTypeOK, LedgerTypeOK
<1> HIDE DEF LinkTypeOK
<1> QED BY <1>1, <1>2, <1>3, <1>4, <1>5 DEF CoprocReceives

(* What goes wrong.                                                        *)
LEMMA FaultTypeStep ==
    ASSUME LinkTypeOK, Fault PROVE LinkTypeOK'
<1> USE DEF LinkTypeOK
<1>1. Fails => faults' \in 0 .. MaxFaults
  BY DEF Fails, WireTypeOK
<1>2. ASSUME NEW i \in DOMAIN toCoproc, LoseToCoproc(i) PROVE LinkTypeOK'
  <2>1. RemoveAt(toCoproc, i) \in Seq(ToCoprocFrames) /\ toCoproc[i] \in ToCoprocFrames
    BY WithoutAny DEF WireTypeOK
  <2>2. WireTypeOK'
    BY <1>1, <1>2, <2>1 DEF LoseToCoproc, WireTypeOK
  <2>3. UnitsOf(toCoproc[i], cSession) \in Nat
    BY <2>1, UnitsOfType DEF AllFrames
  <2>4. DataIn(<<toCoproc[i]>>) \in SUBSET FrameNumbers
    <3>1. <<toCoproc[i]>> \in Seq(ToCoprocFrames)
      BY <2>1
    <3> QED BY <3>1, DataInType
  <2>5. LedgerTypeOK'
    <3>1. lost' \in Nat
      BY <1>2, <2>3 DEF LoseToCoproc, LedgerTypeOK
    <3>2. dropped' \in SUBSET FrameNumbers
      BY <1>2, <2>4 DEF LoseToCoproc, LedgerTypeOK
    <3> QED BY <1>2, <3>1, <3>2 DEF LoseToCoproc, LedgerTypeOK
  <2> QED
    BY <1>2, <2>2, <2>5 DEF LoseToCoproc, hostVars, coprocVars, HostTypeOK, CoprocTypeOK
<1>3. ASSUME NEW i \in DOMAIN toHost, LoseToHost(i) PROVE LinkTypeOK'
  <2>1. RemoveAt(toHost, i) \in Seq(ToHostFrames) /\ toHost[i] \in ToHostFrames
    BY WithoutAny DEF WireTypeOK
  <2>2. WireTypeOK'
    BY <1>1, <1>3, <2>1 DEF LoseToHost, WireTypeOK
  <2>3. UnitsOf(toHost[i], cSession) \in Nat
    BY <2>1, UnitsOfType DEF AllFrames
  <2>4. LedgerTypeOK'
    BY <1>3, <2>3 DEF LoseToHost, LedgerTypeOK
  <2> QED
    BY <1>3, <2>2, <2>4 DEF LoseToHost, hostVars, coprocVars, HostTypeOK, CoprocTypeOK
<1>4. CASE TransportLost
  <2>1. HostTypeOK'
    BY <1>4 DEF TransportLost, ProcessTransportLost, HostTypeOK, HostStates
  <2>2. WireTypeOK'
    <3>1. faults' \in 0 .. MaxFaults
      BY <1>1, <1>4 DEF TransportLost
    <3>2. \/ toCoproc' = toCoproc /\ toHost' = toHost
          \/ toCoproc' = <<>> /\ toHost' = <<>>
      BY <1>4 DEF TransportLost
    <3>3. toCoproc' \in Seq(ToCoprocFrames) /\ toHost' \in Seq(ToHostFrames)
      <4>1. <<>> \in Seq(ToCoprocFrames) /\ <<>> \in Seq(ToHostFrames)
        OBVIOUS
      <4>2. toCoproc \in Seq(ToCoprocFrames) /\ toHost \in Seq(ToHostFrames)
        BY DEF WireTypeOK
      <4> QED BY <3>2, <4>1, <4>2, Zenon
    <3> QED BY <3>1, <3>3 DEF WireTypeOK
  <2>3. DataIn(toCoproc) \in SUBSET FrameNumbers
    BY DataInType DEF WireTypeOK
  <2>4. LedgerTypeOK'
    <3>1. dropped' \in SUBSET FrameNumbers
      BY <1>4, <2>3 DEF TransportLost, LedgerTypeOK
    <3> QED BY <1>4, <3>1 DEF TransportLost, LedgerTypeOK
  <2> QED BY <1>4, <2>1, <2>2, <2>4 DEF TransportLost, coprocVars, CoprocTypeOK
<1>5. CASE CoprocCongested
  <2>1. WireTypeOK'
    BY <1>1, <1>5 DEF CoprocCongested, WireTypeOK
  <2>2. CoprocTypeOK'
    BY <1>5 DEF CoprocCongested, CoprocTypeOK, CoprocStates
  <2> QED
    BY <1>5, <2>1, <2>2 DEF CoprocCongested, hostVars, ledger, HostTypeOK, LedgerTypeOK
<1>6. ASSUME NEW queued \in 0 .. Len(toCoproc), Reboot(queued) PROVE LinkTypeOK'
  <2>1. \A m, n \in Int : (\A j \in m .. n : toCoproc[j] \in ToCoprocFrames)
                             => SubSeq(toCoproc, m, n) \in Seq(ToCoprocFrames)
    BY SubSeqProperties
  <2>2. /\ Len(toCoproc) \in Nat /\ queued \in Nat
        /\ \A j \in 1 .. Len(toCoproc) : toCoproc[j] \in ToCoprocFrames
    BY DEF WireTypeOK
  <2>3. /\ SubSeq(toCoproc, queued + 1, Len(toCoproc)) \in Seq(ToCoprocFrames)
        /\ SubSeq(toCoproc, 1, queued) \in Seq(ToCoprocFrames)
    BY <2>1, <2>2
  <2>4. DataIn(SubSeq(toCoproc, 1, queued)) \in SUBSET FrameNumbers
    BY <2>3, DataInType
  <2>5. WireTypeOK'
    BY <1>1, <1>6, <2>3 DEF Reboot, WireTypeOK
  <2>6. CoprocTypeOK'
    BY <1>6 DEF Reboot, CoprocTypeOK, CoprocStates
  <2>7. LedgerTypeOK'
    <3>1. dropped' \in SUBSET FrameNumbers
      BY <1>6, <2>4 DEF Reboot, LedgerTypeOK
    <3> QED BY <1>6, <3>1 DEF Reboot, LedgerTypeOK
  <2> QED BY <1>6, <2>5, <2>6, <2>7 DEF Reboot, hostVars, HostTypeOK
<1> HIDE DEF LinkTypeOK
<1> QED BY <1>2, <1>3, <1>4, <1>5, <1>6 DEF Fault

LEMMA LinkTypeInit == LinkInit => LinkTypeOK
<1> SUFFICES ASSUME LinkInit PROVE LinkTypeOK
  OBVIOUS
<1>1. HostTypeOK
  BY DEF LinkInit, HostTypeOK, HostStates
<1>2. CoprocTypeOK
  BY DEF LinkInit, CoprocTypeOK, CoprocStates
<1>3. WireTypeOK
  BY FramesMade DEF LinkInit, WireTypeOK
<1>4. LedgerTypeOK
  BY FS_EmptySet DEF LinkInit, LedgerTypeOK
<1> QED BY <1>1, <1>2, <1>3, <1>4 DEF LinkTypeOK

LEMMA LinkTypeStep ==
    LinkTypeOK /\ [LinkNext]_sessionVars => LinkTypeOK'
<1> SUFFICES ASSUME LinkTypeOK, [LinkNext]_sessionVars PROVE LinkTypeOK'
  OBVIOUS
<1>1. CASE UNCHANGED sessionVars
  <2>1. /\ UNCHANGED hostVars /\ UNCHANGED coprocVars /\ UNCHANGED ledger
        /\ UNCHANGED <<toCoproc, toHost, faults>>
    BY <1>1 DEF sessionVars
  <2>2. HostTypeOK' /\ CoprocTypeOK'
    BY <2>1 DEF LinkTypeOK, hostVars, coprocVars, HostTypeOK, CoprocTypeOK
  <2>3. WireTypeOK' /\ LedgerTypeOK'
    BY <2>1 DEF LinkTypeOK, ledger, WireTypeOK, LedgerTypeOK
  <2> QED BY <2>2, <2>3 DEF LinkTypeOK
<1> QED BY <1>1, HostTypeStep, CoprocTypeStep, FaultTypeStep DEF LinkNext

-----------------------------------------------------------------------------
(* Every value has its type.                                               *)
THEOREM LinkTypeCorrect == LinkSpec => []LinkTypeOK
  BY LinkTypeInit, LinkTypeStep, PTL DEF LinkSpec

-----------------------------------------------------------------------------
(* The frames in a channel.                                                *)

LEMMA ToSetIs == \A c : ToSet(c) = {c[i] : i \in DOMAIN c}
  BY DEF ToSet

LEMMA ToSetAppend ==
    ASSUME NEW S, NEW c \in Seq(S), NEW f \in S
    PROVE  ToSet(Append(c, f)) = ToSet(c) \cup {f}
<1> DEFINE d == Append(c, f)
           n == Len(c) + 1
<1>1. /\ DOMAIN c = 1 .. Len(c) /\ DOMAIN d = 1 .. n
      /\ Len(c) \in Nat /\ d[n] = f /\ \A i \in 1 .. Len(c) : d[i] = c[i]
  OBVIOUS
<1> HIDE DEF d
<1>2. DOMAIN d = DOMAIN c \cup {n}
  BY <1>1
<1>3. \A i \in DOMAIN c : d[i] = c[i]
  BY <1>1
<1>4. d[n] = f
  BY <1>1
<1> HIDE DEF n
<1>5. ToSet(d) = {d[i] : i \in DOMAIN d} /\ ToSet(c) = {c[i] : i \in DOMAIN c}
  BY ToSetIs
<1>6. {d[i] : i \in DOMAIN d} = {c[i] : i \in DOMAIN c} \cup {f}
  BY <1>2, <1>3, <1>4
<1> QED BY <1>5, <1>6 DEF d

LEMMA ToSetWithout ==
    ASSUME NEW S, NEW c \in Seq(S), NEW i, NEW d, Without(c, i, d)
    PROVE  ToSet(d) \subseteq ToSet(c)
<1>1. \A j \in DOMAIN d : d[j] \in ToSet(c)
  BY WithoutPlaces, ToSetIs
<1> QED BY <1>1, ToSetIs

LEMMA ToSetRest ==
    ASSUME NEW S, NEW c \in Seq(S), NEW n, NEW d, IsRest(c, n, d)
    PROVE  ToSet(d) \subseteq ToSet(c)
<1>1. /\ DOMAIN c = 1 .. Len(c) /\ Len(c) \in Nat /\ n \in 0 .. Len(c)
      /\ DOMAIN d = 1 .. Len(c) - n /\ \A j \in 1 .. Len(c) - n : d[j] = c[n + j]
  BY DEF IsRest
<1>2. \A j \in 1 .. Len(c) - n : n + j \in 1 .. Len(c)
  BY <1>1
<1>3. \A j \in DOMAIN d : d[j] \in ToSet(c)
  BY <1>1, <1>2, ToSetIs
<1> QED BY <1>3, ToSetIs

-----------------------------------------------------------------------------
(* The sessions and the units.                                             *)

(* Every session that is named has been opened, and the Coprocessor's, if  *)
(* it has one, is the last.                                                *)
SessionsKnown ==
    /\ hSession <= Len(wireId) /\ cSession \in {0, Len(wireId)}
    /\ \A f \in ToSet(toCoproc) : IsData(f) => f.of <= Len(wireId)
    /\ \A f \in ToSet(toHost) :
          IF IsResponse(f) THEN f.opens <= Len(wireId) ELSE f.of <= Len(wireId)

(* A frame of the Coprocessor's session.                                   *)
Own(f) == ~IsResponse(f) /\ f.of = cSession

(* The units the Coprocessor has had and not given back are those beyond   *)
(* what was sent to it.                                                    *)
CoprocOwes ==
    unreturned + UnitsUnderWay(toHost, cSession) + lost
        = foreign + Cardinality(refunded)

WindowKept ==
    credit + UnitsUnderWay(toCoproc, cSession) + unreturned
           + UnitsUnderWay(toHost, cSession) + lost
        = Window + foreign + Cardinality(refunded)

(* Both are in a session: the answer that opened it and all before it are  *)
(* gone.                                                                   *)
InAgreement == Agree => WindowKept /\ \A i \in DOMAIN toHost : Own(toHost[i])

(* The frame at place p opens the Coprocessor's session.                   *)
AnswerAt(p) ==
    p \in DOMAIN toHost /\ IsResponse(toHost[p]) /\ toHost[p].opens = cSession

(* The answer is on its way: what follows it is of that session, what goes *)
(* before it and the Host itself are not.                                  *)
BeforeAgreement ==
    \A p \in DOMAIN toHost : AnswerAt(p) =>
        /\ CoprocOwes /\ hSession # cSession
        /\ \A i \in DOMAIN toHost : i > p => Own(toHost[i])
        /\ \A i \in DOMAIN toHost : i < p => ~Own(toHost[i])
        /\ \A f \in ToSet(toCoproc) : IsData(f) => f.of # cSession

Ledger == SessionsKnown /\ InAgreement /\ BeforeAgreement

(* The frames to the Host stay, are followed by frames of the session, or  *)
(* become one less.                                                        *)
ToHostGrows ==
    /\ Len(toHost') >= Len(toHost)
    /\ \A i \in DOMAIN toHost : toHost'[i] = toHost[i]
    /\ \A i \in DOMAIN toHost' : i \in DOMAIN toHost \/ Own(toHost'[i])

(* What the Ledger asks of a step that leaves the Coprocessor's session.   *)
LEMMA SameSession ==
    ASSUME LinkTypeOK, LinkTypeOK', Ledger,
           cSession' = cSession, wireId' = wireId,
           hSession' = hSession \/ hSession' = 0 \/ hSession' # cSession,
           hSession' <= Len(wireId),
           \A f \in ToSet(toCoproc') :
              f \in ToSet(toCoproc) \/ f = HelloRequest \/ (IsData(f) /\ f.of = hSession),
           ToHostGrows \/ \E i : Without(toHost, i, toHost'),
           Agree /\ hSession' = hSession /\ WindowKept => WindowKept',
           (\E p \in DOMAIN toHost : AnswerAt(p)) /\ CoprocOwes => CoprocOwes'
    PROVE  Ledger'
<1>1. /\ DOMAIN toHost = 1 .. Len(toHost) /\ Len(toHost) \in Nat
      /\ toHost \in Seq(ToHostFrames)
      /\ cSession \in Nat /\ hSession \in Nat /\ Len(wireId) \in Nat
  <2>1. toHost \in Seq(ToHostFrames) /\ wireId \in Seq(Nat)
    BY DEF LinkTypeOK, WireTypeOK, CoprocTypeOK
  <2>2. cSession \in Nat /\ hSession \in Nat
    BY DEF LinkTypeOK, HostTypeOK, CoprocTypeOK
  <2> QED BY <2>1, <2>2
<1>2. ~IsData(HelloRequest)
  BY DEF IsData, HelloRequest
<1>3. SessionsKnown'
  <2>1. hSession' <= Len(wireId') /\ cSession' \in {0, Len(wireId')}
    BY <1>1 DEF Ledger, SessionsKnown
  <2>2. ASSUME NEW f \in ToSet(toCoproc'), IsData(f) PROVE f.of <= Len(wireId')
    <3>1. f \in ToSet(toCoproc) \/ f.of = hSession
      BY <1>2, <2>2
    <3> QED BY <2>2, <3>1 DEF Ledger, SessionsKnown
  <2>3. ASSUME NEW f \in ToSet(toHost'),
               ~(IF IsResponse(f) THEN f.opens <= Len(wireId) ELSE f.of <= Len(wireId))
        PROVE  FALSE
    <3>1. f \notin ToSet(toHost)
      BY <2>3 DEF Ledger, SessionsKnown
    <3>2. PICK i \in DOMAIN toHost' : f = toHost'[i]
      BY ToSetIs
    <3>3. CASE ToHostGrows
      <4>1. i \notin DOMAIN toHost
        BY <3>1, <3>2, <3>3, ToSetIs DEF ToHostGrows
      <4>2. Own(f)
        BY <3>2, <3>3, <4>1 DEF ToHostGrows
      <4> QED BY <1>1, <2>3, <4>2 DEF Own, Ledger, SessionsKnown
    <3>4. CASE \E k : Without(toHost, k, toHost')
      BY <1>1, <3>1, <3>4, ToSetWithout
    <3> QED BY <3>3, <3>4
  <2> QED BY <2>1, <2>2, <2>3 DEF SessionsKnown
<1>4. ASSUME NEW i \in DOMAIN toHost'
      PROVE  \/ ToHostGrows /\ i \notin DOMAIN toHost /\ Own(toHost'[i])
             \/ ToHostGrows /\ i \in DOMAIN toHost /\ toHost'[i] = toHost[i]
             \/ \E j \in DOMAIN toHost : toHost'[i] = toHost[j]
  <2>1. CASE ToHostGrows
    BY <2>1 DEF ToHostGrows
  <2>2. ASSUME NEW k, Without(toHost, k, toHost')
        PROVE  \E j \in DOMAIN toHost : toHost'[i] = toHost[j]
    BY <1>1, <2>2, WithoutPlaces
  <2> QED BY <2>1, <2>2
<1>5. InAgreement'
  <2> SUFFICES ASSUME Agree'
               PROVE  WindowKept' /\ (\A i \in DOMAIN toHost : Own(toHost[i]))'
    BY DEF InAgreement
  <2>1. Agree /\ hSession' = hSession
    BY DEF Agree
  <2>2. WindowKept' /\ \A i \in DOMAIN toHost : Own(toHost[i])
    BY <2>1 DEF Ledger, InAgreement
  <2>3. ASSUME NEW i \in DOMAIN toHost' PROVE Own(toHost'[i])
    BY <1>4, <2>2
  <2> QED BY <2>2, <2>3 DEF Own
<1>6. BeforeAgreement'
  <2> SUFFICES ASSUME NEW p \in DOMAIN toHost', IsResponse(toHost'[p]),
                      toHost'[p].opens = cSession
               PROVE  /\ CoprocOwes' /\ hSession' # cSession
                      /\ \A i \in DOMAIN toHost' : i > p => Own(toHost'[i])
                      /\ \A i \in DOMAIN toHost' : i < p => ~Own(toHost'[i])
                      /\ \A f \in ToSet(toCoproc') : IsData(f) => f.of # cSession
    BY DEF BeforeAgreement, AnswerAt, Own
  <2>1. ~Own(toHost'[p])
    BY DEF Own
  <2>2. ASSUME NEW q \in DOMAIN toHost, toHost'[p] = toHost[q]
        PROVE  /\ CoprocOwes' /\ hSession' # cSession
               /\ \A i \in DOMAIN toHost : i > q => Own(toHost[i])
               /\ \A i \in DOMAIN toHost : i < q => ~Own(toHost[i])
               /\ \A f \in ToSet(toCoproc') : IsData(f) => f.of # cSession
    <3>1. AnswerAt(q)
      BY <2>2 DEF AnswerAt
    <3>2. /\ CoprocOwes /\ hSession # cSession
          /\ \A i \in DOMAIN toHost : i > q => Own(toHost[i])
          /\ \A i \in DOMAIN toHost : i < q => ~Own(toHost[i])
          /\ \A f \in ToSet(toCoproc) : IsData(f) => f.of # cSession
      BY <3>1 DEF Ledger, BeforeAgreement
    <3>3. cSession # 0
      BY <1>1, <3>1, ToHostFields DEF AnswerAt
    <3> QED BY <1>2, <3>1, <3>2, <3>3
  <2>3. CASE ToHostGrows
    <3>1. p \in DOMAIN toHost /\ toHost'[p] = toHost[p]
      BY <2>1, <2>3 DEF ToHostGrows
    <3>2. \A i \in DOMAIN toHost' : i > p => Own(toHost'[i])
      BY <2>2, <2>3, <3>1 DEF ToHostGrows
    <3>3. \A i \in DOMAIN toHost' : i < p => i \in DOMAIN toHost
      <4>1. toHost' \in Seq(ToHostFrames)
        BY DEF LinkTypeOK, WireTypeOK
      <4>2. DOMAIN toHost' = 1 .. Len(toHost') /\ Len(toHost') \in Nat
        BY <4>1
      <4> QED BY <1>1, <3>1, <4>2
    <3>4. \A i \in DOMAIN toHost' : i < p => ~Own(toHost'[i])
      BY <2>2, <2>3, <3>1, <3>3 DEF ToHostGrows
    <3> QED BY <2>2, <3>1, <3>2, <3>4
  <2>4. ASSUME NEW k, Without(toHost, k, toHost')
        PROVE  /\ CoprocOwes' /\ hSession' # cSession
               /\ \A i \in DOMAIN toHost' : i > p => Own(toHost'[i])
               /\ \A i \in DOMAIN toHost' : i < p => ~Own(toHost'[i])
               /\ \A f \in ToSet(toCoproc') : IsData(f) => f.of # cSession
    <3>1. /\ \A i \in DOMAIN toHost' : /\ Place(k, i) \in DOMAIN toHost
                                       /\ toHost'[i] = toHost[Place(k, i)]
          /\ \A i, j \in DOMAIN toHost' : i < j => Place(k, i) < Place(k, j)
      <4>1. toHost \in Seq(ToHostFrames)
        BY <1>1
      <4> QED BY <2>4, <4>1, WithoutPlaces
    <3>2. /\ CoprocOwes' /\ hSession' # cSession
          /\ \A i \in DOMAIN toHost : i > Place(k, p) => Own(toHost[i])
          /\ \A i \in DOMAIN toHost : i < Place(k, p) => ~Own(toHost[i])
          /\ \A f \in ToSet(toCoproc') : IsData(f) => f.of # cSession
      BY <2>2, <3>1
    <3>3. \A i \in DOMAIN toHost' : i > p => Place(k, i) > Place(k, p)
      BY <3>1, Zenon
    <3> QED BY <3>1, <3>2, <3>3
  <2> QED BY <2>3, <2>4
<1> QED BY <1>3, <1>5, <1>6 DEF Ledger

(* Whatever the session, the frames to the Host may stay as they are ...   *)
LEMMA ToHostStays == toHost' = toHost => ToHostGrows
<1> SUFFICES ASSUME toHost' = toHost PROVE ToHostGrows
  OBVIOUS
<1> QED BY DEF ToHostGrows

(* ... or one more follows that is of the session ...                      *)
LEMMA ToHostGetsOne ==
    ASSUME LinkTypeOK, NEW f \in ToHostFrames, Own(f), toHost' = Append(toHost, f),
           cSession' = cSession
    PROVE  /\ ToHostGrows
           /\ UnitsUnderWay(toHost', cSession')
                 = UnitsUnderWay(toHost, cSession) + UnitsOf(f, cSession)
<1>1. toHost \in Seq(ToHostFrames) /\ toHost \in Seq(AllFrames) /\ f \in AllFrames
  BY DEF LinkTypeOK, WireTypeOK, AllFrames
<1>2. UnitsUnderWay(Append(toHost, f), cSession)
          = UnitsUnderWay(toHost, cSession) + UnitsOf(f, cSession)
  BY <1>1, UnitsAppend
<1>3. /\ Len(Append(toHost, f)) >= Len(toHost)
      /\ \A i \in DOMAIN toHost : Append(toHost, f)[i] = toHost[i]
      /\ \A i \in DOMAIN Append(toHost, f) : i \in DOMAIN toHost \/ Append(toHost, f)[i] = f
  BY <1>1
<1> QED BY <1>2, <1>3 DEF ToHostGrows

(* ... or the first one goes.                                              *)
LEMMA ToHostGivesOne ==
    ASSUME LinkTypeOK, Ledger, toHost # <<>>, toHost' = Tail(toHost),
           cSession' = cSession
    PROVE  /\ Without(toHost, 1, toHost') /\ Rx = toHost[1] /\ 1 \in DOMAIN toHost
           /\ Rx \in ToHostFrames
           /\ UnitsUnderWay(toHost, cSession)
                 = UnitsUnderWay(toHost', cSession') + UnitsOf(Rx, cSession)
           /\ UnitsUnderWay(toHost', cSession') \in Nat
           /\ (\E p \in DOMAIN toHost : AnswerAt(p)) => UnitsOf(Rx, cSession) = 0
<1>1. toHost \in Seq(ToHostFrames)
  BY DEF LinkTypeOK, WireTypeOK
<1>2. /\ Without(toHost, 1, Tail(toHost)) /\ Rx = toHost[1] /\ Rx \in ToHostFrames
      /\ Tail(toHost) \in Seq(ToHostFrames) /\ DOMAIN toHost = 1 .. Len(toHost)
  BY <1>1, WithoutFirst DEF Rx
<1>3. 1 \in DOMAIN toHost
  BY <1>2 DEF Without
<1>4. toHost \in Seq(AllFrames) /\ Tail(toHost) \in Seq(AllFrames)
  BY <1>1, <1>2 DEF AllFrames
<1>5. /\ UnitsUnderWay(toHost, cSession)
             = UnitsUnderWay(Tail(toHost), cSession) + UnitsOf(Rx, cSession)
      /\ UnitsUnderWay(Tail(toHost), cSession) \in Nat
  <2>1. Without(toHost, 1, Tail(toHost))
    BY <1>2
  <2>2. UnitsUnderWay(toHost, cSession)
             = UnitsUnderWay(Tail(toHost), cSession) + UnitsOf(toHost[1], cSession)
    BY <1>4, <2>1, UnitsWithout
  <2>3. UnitsUnderWay(Tail(toHost), cSession) \in Nat
    BY <1>4, UnitsType
  <2> QED BY <1>2, <2>2, <2>3
<1>6. ASSUME NEW p \in DOMAIN toHost, AnswerAt(p) PROVE UnitsOf(Rx, cSession) = 0
  <2>1. CASE p = 1
    BY <1>2, <1>6, <2>1 DEF AnswerAt, IsResponse, UnitsOf
  <2>2. CASE 1 < p
    <3>1. ~Own(Rx)
      BY <1>2, <1>3, <1>6, <2>2 DEF Ledger, BeforeAgreement
    <3> QED BY <3>1 DEF Own, IsResponse, UnitsOf
  <2> QED BY <1>2, <2>1, <2>2
<1> QED BY <1>2, <1>3, <1>5, <1>6

LEMMA ToCoprocGetsHello ==
    ASSUME LinkTypeOK, toCoproc' = Append(toCoproc, HelloRequest), cSession' = cSession
    PROVE  /\ ToSet(toCoproc') = ToSet(toCoproc) \cup {HelloRequest}
           /\ UnitsUnderWay(toCoproc', cSession') = UnitsUnderWay(toCoproc, cSession)
<1>1. /\ toCoproc \in Seq(ToCoprocFrames) /\ toCoproc \in Seq(AllFrames)
      /\ HelloRequest \in ToCoprocFrames /\ HelloRequest \in AllFrames
  BY FramesMade DEF LinkTypeOK, WireTypeOK, AllFrames
<1>2. UnitsOf(HelloRequest, cSession) = 0
  BY UnitsMade
<1>3. UnitsUnderWay(toCoproc, cSession) \in Nat
  BY <1>1, UnitsType
<1>4. UnitsUnderWay(Append(toCoproc, HelloRequest), cSession)
          = UnitsUnderWay(toCoproc, cSession) + 0
  BY <1>1, <1>2, UnitsAppend
<1> QED BY <1>1, <1>3, <1>4, ToSetAppend

(* A step that touches nothing the Ledger is about but the Host's session. *)
LEMMA LedgerUntouched ==
    ASSUME LinkTypeOK, LinkTypeOK', Ledger,
           UNCHANGED <<cSession, wireId, toCoproc, toHost, unreturned, lost, foreign,
                       refunded>>,
           hSession' = 0 \/ UNCHANGED <<hSession, credit>>
    PROVE  Ledger'
<1>1. hSession' <= Len(wireId)
  <2>1. hSession <= Len(wireId) /\ Len(wireId) \in Nat
    BY DEF Ledger, SessionsKnown, LinkTypeOK, CoprocTypeOK
  <2> QED BY <2>1
<1>2. ToHostGrows
  BY ToHostStays
<1>3. CoprocOwes => CoprocOwes'
  BY DEF CoprocOwes
<1>4. Agree /\ hSession' = hSession /\ WindowKept => WindowKept'
  <2> SUFFICES ASSUME Agree, hSession' = hSession, WindowKept PROVE WindowKept'
    OBVIOUS
  <2>1. credit' = credit
    BY DEF Agree
  <2> QED BY <2>1 DEF WindowKept
<1> QED BY <1>1, <1>2, <1>3, <1>4, SameSession

LEMMA LedgerEthernetTx ==
    ASSUME LinkTypeOK, LinkTypeOK', Ledger,
           NEW k \in 1 .. MaxRecords, HandleEthernetTx(k)
    PROVE  Ledger'
<1>1. /\ UNCHANGED <<hSession, cSession, wireId, toHost, unreturned, lost, foreign, refunded>>
      /\ \/ UNCHANGED <<credit, toCoproc>>
         \/ /\ credit' = credit - k
            /\ toCoproc' = Append(toCoproc, Data(hSession, sequence, k))
  BY DEF HandleEthernetTx, coprocVars, ledger
<1>2. CASE UNCHANGED <<credit, toCoproc>>
  BY <1>1, <1>2, LedgerUntouched
<1>3. ASSUME credit' = credit - k,
             toCoproc' = Append(toCoproc, Data(hSession, sequence, k))
      PROVE  Ledger'
  <2> DEFINE f == Data(hSession, sequence, k)
  <2>1. /\ k \in Nat /\ hSession \in Nat /\ sequence \in Nat /\ epoch \in Nat
        /\ credit \in Nat
    BY DEF LinkTypeOK, HostTypeOK
  <2>2. toCoproc \in Seq(ToCoprocFrames) /\ toCoproc \in Seq(AllFrames)
    BY DEF LinkTypeOK, WireTypeOK, AllFrames
  <2>3. f \in ToCoprocFrames /\ f \in AllFrames
    BY <2>1, FramesMade DEF AllFrames
  <2>4. IsData(f) /\ f.of = hSession
    BY DEF Data, IsData
  <2>5. \A t : UnitsOf(f, t) = IF hSession = t THEN k ELSE 0
    BY UnitsMade
  <2> HIDE DEF f
  <2>6. ToSet(toCoproc') = ToSet(toCoproc) \cup {f}
    BY <1>3, <2>2, <2>3, ToSetAppend DEF f
  <2>7. UnitsUnderWay(toCoproc', cSession)
            = UnitsUnderWay(toCoproc, cSession) + UnitsOf(f, cSession)
    BY <1>3, <2>2, <2>3, UnitsAppend DEF f
  <2>8. UnitsUnderWay(toCoproc, cSession) \in Nat
    BY <2>2, UnitsType
  <2>9. Agree /\ WindowKept => WindowKept'
    <3> SUFFICES ASSUME Agree, WindowKept PROVE WindowKept'
      OBVIOUS
    <3>1. UnitsOf(f, cSession) = k
      BY <2>5 DEF Agree
    <3>2. credit' + UnitsUnderWay(toCoproc', cSession)
              = credit + UnitsUnderWay(toCoproc, cSession)
      BY <1>3, <2>1, <2>7, <2>8, <3>1
    <3> QED BY <1>1, <3>2 DEF WindowKept
  <2>10. CoprocOwes => CoprocOwes'
    BY <1>1 DEF CoprocOwes
  <2>11. hSession' <= Len(wireId)
    BY <1>1 DEF Ledger, SessionsKnown
  <2>12. ToHostGrows
    BY <1>1, ToHostStays
  <2> QED BY <1>1, <2>4, <2>6, <2>9, <2>10, <2>11, <2>12, SameSession
<1> QED BY <1>1, <1>2, <1>3

LEMMA LedgerTransportStarted ==
    ASSUME LinkTypeOK, LinkTypeOK', Ledger, HandleTransportStarted
    PROVE  Ledger'
<1>1. /\ UNCHANGED <<hSession, credit, cSession, wireId, toHost, unreturned, lost,
                     foreign, refunded>>
      /\ toCoproc' = Append(toCoproc, HelloRequest)
  BY DEF HandleTransportStarted, SendHello, coprocVars, ledger
<1>2. /\ ToSet(toCoproc') = ToSet(toCoproc) \cup {HelloRequest}
      /\ UnitsUnderWay(toCoproc', cSession) = UnitsUnderWay(toCoproc, cSession)
  BY <1>1, ToCoprocGetsHello
<1>3. hSession' <= Len(wireId) /\ ToHostGrows
  BY <1>1, ToHostStays DEF Ledger, SessionsKnown
<1>4. (WindowKept => WindowKept') /\ (CoprocOwes => CoprocOwes')
  BY <1>1, <1>2 DEF WindowKept, CoprocOwes
<1> QED BY <1>1, <1>2, <1>3, <1>4, SameSession

LEMMA LedgerSessionMismatch ==
    ASSUME LinkTypeOK, LinkTypeOK', Ledger, HandleSessionMismatch
    PROVE  Ledger'
<1>1. /\ UNCHANGED <<credit, cSession, wireId, unreturned, lost, foreign, refunded>>
      /\ toCoproc' = Append(toCoproc, HelloRequest) /\ hSession' = 0
      /\ toHost # <<>> /\ toHost' = Tail(toHost)
  BY DEF HandleSessionMismatch, SendHello, coprocVars, ledger
<1>2. ToSet(toCoproc') = ToSet(toCoproc) \cup {HelloRequest}
  BY <1>1, ToCoprocGetsHello
<1>3. Without(toHost, 1, toHost')
  BY <1>1, ToHostGivesOne
<1>4. (\E p \in DOMAIN toHost : AnswerAt(p))
         => UnitsUnderWay(toHost', cSession) = UnitsUnderWay(toHost, cSession)
  BY <1>1, ToHostGivesOne
<1>5. (\E p \in DOMAIN toHost : AnswerAt(p)) /\ CoprocOwes => CoprocOwes'
  BY <1>1, <1>4 DEF CoprocOwes
<1>6. hSession' <= Len(wireId)
  BY <1>1 DEF LinkTypeOK, CoprocTypeOK
<1>7. ~(Agree /\ hSession' = hSession)
  BY <1>1 DEF Agree
<1> QED BY <1>1, <1>2, <1>3, <1>5, <1>6, <1>7, SameSession

LEMMA LedgerHelloResponse ==
    ASSUME LinkTypeOK, LinkTypeOK', Ledger, HandleHelloResponse
    PROVE  Ledger'
<1>1. /\ UNCHANGED <<cSession, wireId, toCoproc, unreturned, lost, foreign, refunded>>
      /\ toHost # <<>> /\ toHost' = Tail(toHost) /\ IsResponse(Rx)
      /\ \/ hSession' = Rx.opens /\ credit' = Window
         \/ hSession' = hSession /\ credit' = credit
  BY DEF HandleHelloResponse, IsResponse, coprocVars, ledger
<1>2. /\ Without(toHost, 1, toHost') /\ Rx = toHost[1] /\ 1 \in DOMAIN toHost
      /\ Rx \in ToHostFrames
  BY <1>1, ToHostGivesOne
<1>3. UnitsOf(Rx, cSession) = 0
  BY <1>1 DEF IsResponse, UnitsOf
<1>4. UnitsUnderWay(toHost', cSession') = UnitsUnderWay(toHost, cSession)
  <2>1. /\ UnitsUnderWay(toHost, cSession)
             = UnitsUnderWay(toHost', cSession') + UnitsOf(Rx, cSession)
        /\ UnitsUnderWay(toHost', cSession') \in Nat
    BY <1>1, ToHostGivesOne
  <2> QED BY <1>3, <2>1
<1>5. CoprocOwes => CoprocOwes'
  BY <1>1, <1>4 DEF CoprocOwes
<1>6. Rx.opens \in Nat \ {0} /\ Rx.opens <= Len(wireId)
  <2>1. Rx \in ToSet(toHost)
    BY <1>2, ToSetIs
  <2> QED BY <1>1, <1>2, <2>1, ToHostFields DEF Ledger, SessionsKnown
<1>7. hSession <= Len(wireId)
  BY DEF Ledger, SessionsKnown
<1>8. CASE hSession' = hSession /\ credit' = credit
  <2>1. WindowKept => WindowKept'
    BY <1>1, <1>4, <1>8 DEF WindowKept
  <2> QED BY <1>1, <1>2, <1>5, <1>7, <1>8, <2>1, SameSession
<1>9. CASE hSession' = Rx.opens /\ Rx.opens # cSession
  <2>1. ~(Agree /\ hSession' = hSession)
    BY <1>9 DEF Agree
  <2> QED BY <1>1, <1>2, <1>5, <1>6, <1>9, <2>1, SameSession
<1>10. CASE hSession' = Rx.opens /\ credit' = Window /\ Rx.opens = cSession
  <2>1. /\ CoprocOwes
        /\ \A i \in DOMAIN toHost : i > 1 => Own(toHost[i])
        /\ \A f \in ToSet(toCoproc) : IsData(f) => f.of # cSession
    <3>1. AnswerAt(1)
      BY <1>1, <1>2, <1>10 DEF AnswerAt
    <3>2. BeforeAgreement
      BY DEF Ledger
    <3> QED BY <1>2, <3>1, <3>2 DEF BeforeAgreement
  <2>2. \A i \in DOMAIN toHost' : toHost'[i] \in ToSet(toHost) /\ Own(toHost'[i])
    <3> TAKE i \in DOMAIN toHost'
    <3>1. toHost \in Seq(ToHostFrames)
      BY DEF LinkTypeOK, WireTypeOK
    <3>2. /\ Place(1, i) \in DOMAIN toHost /\ Place(1, i) # 1
          /\ toHost'[i] = toHost[Place(1, i)]
      BY <1>2, <3>1, WithoutPlaces
    <3>3. Place(1, i) > 1
      BY <3>1, <3>2
    <3> QED BY <2>1, <3>2, <3>3, ToSetIs
  <2>3. UnitsUnderWay(toCoproc, cSession) = 0
    <3>1. ASSUME NEW i \in DOMAIN toCoproc PROVE UnitsOf(toCoproc[i], cSession) = 0
      <4>1. toCoproc[i] \in ToSet(toCoproc) /\ toCoproc[i] \in ToCoprocFrames
        BY ToSetIs DEF LinkTypeOK, WireTypeOK
      <4>2. toCoproc[i].type \in {"HELLO", "DATA"}
        BY <4>1, ToCoprocFields
      <4> QED BY <2>1, <4>1, <4>2 DEF UnitsOf, IsData
    <3> QED BY <3>1, UnitsNone
  <2>4. WindowKept'
    <3>1. CoprocOwes'
      BY <1>5, <2>1
    <3>2. /\ unreturned' \in Nat /\ lost' \in Nat /\ foreign' \in Nat
          /\ Window \in Nat /\ UnitsUnderWay(toHost', cSession') \in Nat
          /\ Cardinality(refunded') \in Nat
      <4>1. unreturned' \in Nat /\ lost' \in Nat /\ foreign' \in Nat /\ IsFiniteSet(refunded')
        BY DEF LinkTypeOK, CoprocTypeOK, LedgerTypeOK
      <4> QED BY <1>1, <4>1, ToHostGivesOne, FS_CardinalityType
    <3>3. UnitsUnderWay(toCoproc', cSession') = 0 /\ credit' = Window
      BY <1>1, <1>10, <2>3
    <3> QED BY <3>1, <3>2, <3>3 DEF WindowKept, CoprocOwes
  <2>5. (\A i \in DOMAIN toHost : Own(toHost[i]))'
    BY <1>1, <2>2 DEF Own
  <2>6. InAgreement'
    BY <2>4, <2>5 DEF InAgreement
  <2>7. BeforeAgreement'
    BY <2>5 DEF BeforeAgreement, AnswerAt, Own
  <2>8. SessionsKnown'
    <3>1. hSession' <= Len(wireId') /\ cSession' \in {0, Len(wireId')}
      BY <1>1, <1>6, <1>10 DEF Ledger, SessionsKnown
    <3>2. \A f \in ToSet(toHost') : f \in ToSet(toHost)
      BY <2>2, ToSetIs
    <3> QED BY <1>1, <3>1, <3>2 DEF Ledger, SessionsKnown
  <2> QED BY <2>6, <2>7, <2>8 DEF Ledger
<1> QED BY <1>1, <1>8, <1>9, <1>10

LEMMA LedgerCreditUpdate ==
    ASSUME LinkTypeOK, LinkTypeOK', Ledger, HandleCreditUpdate
    PROVE  Ledger'
<1>1. /\ UNCHANGED <<hSession, cSession, wireId, toCoproc, unreturned, lost, foreign,
                     refunded>>
      /\ toHost # <<>> /\ toHost' = Tail(toHost) /\ Rx.type = "CREDIT_UPDATE"
      /\ credit' = credit + Rx.units
  BY DEF HandleCreditUpdate, coprocVars, ledger
<1>2. /\ Without(toHost, 1, toHost') /\ Rx = toHost[1] /\ 1 \in DOMAIN toHost
      /\ Rx \in ToHostFrames
      /\ UnitsUnderWay(toHost, cSession)
             = UnitsUnderWay(toHost', cSession') + UnitsOf(Rx, cSession)
      /\ UnitsUnderWay(toHost', cSession') \in Nat
      /\ (\E p \in DOMAIN toHost : AnswerAt(p)) => UnitsOf(Rx, cSession) = 0
  BY <1>1, ToHostGivesOne
<1>3. hSession' <= Len(wireId)
  BY <1>1 DEF Ledger, SessionsKnown
<1>4. (\E p \in DOMAIN toHost : AnswerAt(p)) /\ CoprocOwes => CoprocOwes'
  <2>1. (\E p \in DOMAIN toHost : AnswerAt(p))
           => UnitsUnderWay(toHost', cSession') = UnitsUnderWay(toHost, cSession)
    BY <1>2
  <2> QED BY <1>1, <2>1 DEF CoprocOwes
<1>5. Agree /\ WindowKept => WindowKept'
  <2> SUFFICES ASSUME Agree, WindowKept PROVE WindowKept'
    OBVIOUS
  <2>1. Own(Rx)
    BY <1>2 DEF Ledger, InAgreement
  <2>2. UnitsOf(Rx, cSession) = Rx.units /\ Rx.units \in Nat
    BY <1>1, <1>2, <2>1, ToHostFields DEF Own, UnitsOf
  <2>3. /\ credit \in Nat /\ unreturned \in Nat /\ lost \in Nat
        /\ UnitsUnderWay(toCoproc, cSession) \in Nat
    <3>1. toCoproc \in Seq(AllFrames)
      BY DEF LinkTypeOK, WireTypeOK, AllFrames
    <3> QED BY <3>1, UnitsType DEF LinkTypeOK, HostTypeOK, CoprocTypeOK, LedgerTypeOK
  <2>4. UnitsUnderWay(toCoproc', cSession') = UnitsUnderWay(toCoproc, cSession)
    BY <1>1
  <2>5. /\ UnitsUnderWay(toHost, cSession)
              = UnitsUnderWay(toHost', cSession') + Rx.units
        /\ UnitsUnderWay(toHost', cSession') \in Nat
    BY <1>2, <2>2
  <2>6. credit' + UnitsUnderWay(toCoproc', cSession') + unreturned'
           + UnitsUnderWay(toHost', cSession') + lost'
         = credit + UnitsUnderWay(toCoproc, cSession) + unreturned
           + UnitsUnderWay(toHost, cSession) + lost
    <3>1. credit' = credit + Rx.units /\ unreturned' = unreturned /\ lost' = lost
      BY <1>1
    <3>2. Rx.units \in Nat
      BY <2>2
    <3> QED BY <2>3, <2>4, <2>5, <3>1, <3>2
  <2> QED BY <1>1, <2>6 DEF WindowKept
<1> QED BY <1>1, <1>2, <1>3, <1>4, <1>5, SameSession

LEMMA LedgerHeartbeat ==
    ASSUME LinkTypeOK, LinkTypeOK', Ledger, HandleHeartbeat
    PROVE  Ledger'
<1>1. /\ UNCHANGED <<hSession, credit, cSession, wireId, toCoproc, unreturned, lost,
                     foreign, refunded>>
      /\ toHost # <<>> /\ toHost' = Tail(toHost) /\ Rx.type = "HEARTBEAT"
  BY DEF HandleHeartbeat, hostVars, coprocVars, ledger
<1>2. /\ Without(toHost, 1, toHost')
      /\ UnitsUnderWay(toHost, cSession)
             = UnitsUnderWay(toHost', cSession') + UnitsOf(Rx, cSession)
      /\ UnitsUnderWay(toHost', cSession') \in Nat
  BY <1>1, ToHostGivesOne
<1>3. UnitsOf(Rx, cSession) = 0
  BY <1>1 DEF UnitsOf
<1>4. UnitsUnderWay(toHost', cSession') = UnitsUnderWay(toHost, cSession)
  BY <1>2, <1>3
<1>5. (CoprocOwes => CoprocOwes') /\ (WindowKept => WindowKept')
  BY <1>1, <1>4 DEF CoprocOwes, WindowKept
<1>6. hSession' <= Len(wireId)
  BY <1>1 DEF Ledger, SessionsKnown
<1> QED BY <1>1, <1>2, <1>5, <1>6, SameSession

LEMMA LedgerEmitHeartbeat ==
    ASSUME LinkTypeOK, LinkTypeOK', Ledger, EmitHeartbeat
    PROVE  Ledger'
<1> DEFINE f == Heartbeat(cSession)
<1>1. /\ UNCHANGED <<hSession, credit, cSession, wireId, toCoproc, unreturned, lost,
                     foreign, refunded>>
      /\ toHost' = Append(toHost, f)
  BY DEF EmitHeartbeat, hostVars, coprocVars, ledger
<1>2. f \in ToHostFrames /\ Own(f) /\ UnitsOf(f, cSession) = 0
  <2>1. cSession \in Nat
    BY DEF LinkTypeOK, CoprocTypeOK
  <2>2. Own(f)
    BY DEF Own, IsResponse, Heartbeat
  <2> QED BY <2>1, <2>2, FramesMade, UnitsMade
<1> HIDE DEF f
<1>3. /\ ToHostGrows
      /\ UnitsUnderWay(toHost', cSession') = UnitsUnderWay(toHost, cSession)
  <2>1. UnitsUnderWay(toHost, cSession) \in Nat
    <3>1. toHost \in Seq(AllFrames)
      BY DEF LinkTypeOK, WireTypeOK, AllFrames
    <3> QED BY <3>1, UnitsType
  <2> QED BY <1>1, <1>2, <2>1, ToHostGetsOne
<1>4. (CoprocOwes => CoprocOwes') /\ (WindowKept => WindowKept')
  BY <1>1, <1>3 DEF CoprocOwes, WindowKept
<1>5. hSession' <= Len(wireId)
  BY <1>1 DEF Ledger, SessionsKnown
<1> QED BY <1>1, <1>3, <1>4, <1>5, SameSession

LEMMA LedgerReturnUnits ==
    ASSUME LinkTypeOK, LinkTypeOK', Ledger,
           NEW k \in 1 .. unreturned, ReturnUnits(k)
    PROVE  Ledger'
<1> DEFINE f == CreditUpdate(cSession, k)
<1>1. /\ UNCHANGED <<hSession, credit, cSession, wireId, toCoproc, lost, foreign, refunded>>
      /\ toHost' = Append(toHost, f) /\ unreturned' = unreturned - k
  BY DEF ReturnUnits, hostVars, ledger
<1>2. k \in Nat /\ unreturned \in Nat
  BY DEF LinkTypeOK, CoprocTypeOK
<1>3. f \in ToHostFrames /\ Own(f) /\ UnitsOf(f, cSession) = k
  <2>1. cSession \in Nat
    BY DEF LinkTypeOK, CoprocTypeOK
  <2>2. Own(f)
    BY DEF Own, IsResponse, CreditUpdate
  <2> QED BY <1>2, <2>1, <2>2, FramesMade, UnitsMade
<1> HIDE DEF f
<1>4. /\ ToHostGrows
      /\ UnitsUnderWay(toHost', cSession') = UnitsUnderWay(toHost, cSession) + k
  BY <1>1, <1>3, ToHostGetsOne
<1>5. UnitsUnderWay(toHost, cSession) \in Nat /\ UnitsUnderWay(toCoproc, cSession) \in Nat
  <2>1. toHost \in Seq(AllFrames) /\ toCoproc \in Seq(AllFrames)
    BY DEF LinkTypeOK, WireTypeOK, AllFrames
  <2> QED BY <2>1, UnitsType
<1>6. /\ unreturned' + UnitsUnderWay(toHost', cSession')
              = unreturned + UnitsUnderWay(toHost, cSession)
      /\ credit + UnitsUnderWay(toCoproc, cSession) + unreturned'
            + UnitsUnderWay(toHost', cSession')
          = credit + UnitsUnderWay(toCoproc, cSession) + unreturned
              + UnitsUnderWay(toHost, cSession)
  <2>1. credit \in Nat
    BY DEF LinkTypeOK, HostTypeOK
  <2> QED BY <1>1, <1>2, <1>4, <1>5, <2>1
<1>7. UnitsUnderWay(toCoproc', cSession') = UnitsUnderWay(toCoproc, cSession)
  BY <1>1
<1>8. CoprocOwes => CoprocOwes'
  BY <1>1, <1>6 DEF CoprocOwes
<1>9. WindowKept => WindowKept'
  BY <1>1, <1>6, <1>7 DEF WindowKept
<1>10. hSession' <= Len(wireId)
  BY <1>1 DEF Ledger, SessionsKnown
<1> QED BY <1>1, <1>4, <1>8, <1>9, <1>10, SameSession

(* The frame the Coprocessor takes, or that is lost, leaves its channel.   *)
LEMMA ToCoprocGivesOne ==
    ASSUME LinkTypeOK, NEW i, Without(toCoproc, i, toCoproc'),
           toCoproc' \in Seq(ToCoprocFrames), cSession' = cSession
    PROVE  /\ i \in DOMAIN toCoproc /\ toCoproc[i] \in ToSet(toCoproc)
           /\ toCoproc[i] \in ToCoprocFrames
           /\ ToSet(toCoproc') \subseteq ToSet(toCoproc)
           /\ UnitsUnderWay(toCoproc, cSession)
                 = UnitsUnderWay(toCoproc', cSession') + UnitsOf(toCoproc[i], cSession)
           /\ UnitsUnderWay(toCoproc', cSession') \in Nat
           /\ UnitsOf(toCoproc[i], cSession) \in Nat
<1>1. /\ toCoproc \in Seq(ToCoprocFrames) /\ toCoproc \in Seq(AllFrames)
      /\ toCoproc' \in Seq(AllFrames)
  BY DEF LinkTypeOK, WireTypeOK, AllFrames
<1>2. i \in DOMAIN toCoproc
  BY <1>1 DEF Without
<1>3. toCoproc[i] \in ToSet(toCoproc) /\ toCoproc[i] \in ToCoprocFrames
  BY <1>1, <1>2, ToSetIs
<1>4. UnitsOf(toCoproc[i], cSession) \in Nat
  BY <1>3, UnitsOfType DEF AllFrames
<1>5. ToSet(toCoproc') \subseteq ToSet(toCoproc)
  BY <1>1, ToSetWithout
<1>6. /\ UnitsUnderWay(toCoproc, cSession)
             = UnitsUnderWay(toCoproc', cSession) + UnitsOf(toCoproc[i], cSession)
      /\ UnitsUnderWay(toCoproc', cSession) \in Nat
  BY <1>1, UnitsWithout, UnitsType
<1> QED BY <1>2, <1>3, <1>4, <1>5, <1>6

(* What is counted, as numbers.                                            *)
LEMMA CountsType ==
    ASSUME LinkTypeOK
    PROVE  /\ credit \in Nat /\ unreturned \in Nat /\ lost \in Nat /\ foreign \in Nat
           /\ Cardinality(refunded) \in Nat /\ IsFiniteSet(refunded)
           /\ UnitsUnderWay(toCoproc, cSession) \in Nat
           /\ UnitsUnderWay(toHost, cSession) \in Nat
           /\ cSession \in Nat /\ hSession \in Nat /\ Len(wireId) \in Nat
<1>1. /\ credit \in Nat /\ unreturned \in Nat /\ lost \in Nat /\ foreign \in Nat
      /\ IsFiniteSet(refunded) /\ cSession \in Nat /\ hSession \in Nat
      /\ wireId \in Seq(Nat)
  BY DEF LinkTypeOK, HostTypeOK, CoprocTypeOK, LedgerTypeOK
<1>2. toHost \in Seq(AllFrames) /\ toCoproc \in Seq(AllFrames)
  BY DEF LinkTypeOK, WireTypeOK, AllFrames
<1>3. UnitsUnderWay(toCoproc, cSession) \in Nat /\ UnitsUnderWay(toHost, cSession) \in Nat
  BY <1>2, UnitsType
<1>4. Cardinality(refunded) \in Nat
  BY <1>1, FS_CardinalityType
<1> QED BY <1>1, <1>3, <1>4

LEMMA LedgerLoseToCoproc ==
    ASSUME LinkTypeOK, LinkTypeOK', Ledger,
           NEW i \in DOMAIN toCoproc, LoseToCoproc(i)
    PROVE  Ledger'
<1> DEFINE u == UnitsOf(toCoproc[i], cSession)
<1>1. /\ UNCHANGED <<hSession, credit, cSession, wireId, toHost, unreturned, foreign,
                     refunded>>
      /\ toCoproc' = RemoveAt(toCoproc, i) /\ lost' = lost + u
  BY DEF LoseToCoproc, hostVars, coprocVars
<1>2. Without(toCoproc, i, toCoproc') /\ toCoproc' \in Seq(ToCoprocFrames)
  BY <1>1, WithoutAny DEF LinkTypeOK, WireTypeOK
<1>3. /\ toCoproc[i] \in ToSet(toCoproc) /\ ToSet(toCoproc') \subseteq ToSet(toCoproc)
      /\ UnitsUnderWay(toCoproc, cSession) = UnitsUnderWay(toCoproc', cSession') + u
      /\ UnitsUnderWay(toCoproc', cSession') \in Nat /\ u \in Nat
      /\ toCoproc[i] \in ToCoprocFrames
  BY <1>1, <1>2, ToCoprocGivesOne
<1>4. (\E p \in DOMAIN toHost : AnswerAt(p)) => u = 0
  <2> SUFFICES ASSUME NEW p \in DOMAIN toHost, AnswerAt(p) PROVE u = 0
    OBVIOUS
  <2>1. IsData(toCoproc[i]) => toCoproc[i].of # cSession
    BY <1>3 DEF Ledger, BeforeAgreement
  <2>2. toCoproc[i].type \in {"HELLO", "DATA"}
    BY <1>3, ToCoprocFields
  <2> QED BY <2>1, <2>2 DEF UnitsOf, IsData
<1> HIDE DEF u
<1>5. (\E p \in DOMAIN toHost : AnswerAt(p)) /\ CoprocOwes => CoprocOwes'
  <2>1. lost \in Nat
    BY CountsType
  <2>2. u = 0 => lost' = lost
    BY <1>1, <2>1
  <2> QED BY <1>1, <1>4, <2>2 DEF CoprocOwes
<1>6. WindowKept => WindowKept'
  <2>1. /\ credit \in Nat /\ unreturned \in Nat /\ lost \in Nat
        /\ UnitsUnderWay(toHost, cSession) \in Nat
    BY CountsType
  <2>2. UnitsUnderWay(toHost', cSession') = UnitsUnderWay(toHost, cSession)
    BY <1>1
  <2>3. credit' + UnitsUnderWay(toCoproc', cSession') + unreturned'
           + UnitsUnderWay(toHost', cSession') + lost'
         = credit + UnitsUnderWay(toCoproc, cSession) + unreturned
           + UnitsUnderWay(toHost, cSession) + lost
    BY <1>1, <1>3, <2>1, <2>2
  <2> QED BY <1>1, <2>3 DEF WindowKept
<1>7. hSession' <= Len(wireId) /\ ToHostGrows
  BY <1>1, ToHostStays DEF Ledger, SessionsKnown
<1> QED BY <1>1, <1>3, <1>5, <1>6, <1>7, SameSession

LEMMA LedgerLoseToHost ==
    ASSUME LinkTypeOK, LinkTypeOK', Ledger,
           NEW i \in DOMAIN toHost, LoseToHost(i)
    PROVE  Ledger'
<1> DEFINE u == UnitsOf(toHost[i], cSession)
<1>1. /\ UNCHANGED <<hSession, credit, cSession, wireId, toCoproc, unreturned, foreign,
                     refunded>>
      /\ toHost' = RemoveAt(toHost, i) /\ lost' = lost + u
  BY DEF LoseToHost, hostVars, coprocVars
<1>2. toHost \in Seq(ToHostFrames)
  BY DEF LinkTypeOK, WireTypeOK
<1>3. /\ Without(toHost, i, toHost') /\ toHost' \in Seq(ToHostFrames)
      /\ toHost[i] \in ToHostFrames
  BY <1>1, <1>2, WithoutAny
<1>4. /\ UnitsUnderWay(toHost, cSession) = UnitsUnderWay(toHost', cSession) + u
      /\ UnitsUnderWay(toHost', cSession) \in Nat /\ u \in Nat
  <2>1. toHost \in Seq(AllFrames) /\ toHost' \in Seq(AllFrames) /\ toHost[i] \in AllFrames
    BY <1>2, <1>3 DEF AllFrames
  <2> QED BY <1>3, <2>1, UnitsWithout, UnitsType, UnitsOfType
<1> HIDE DEF u
<1>5. /\ credit \in Nat /\ unreturned \in Nat /\ lost \in Nat
      /\ UnitsUnderWay(toCoproc, cSession) \in Nat
  BY CountsType
<1>6. UnitsUnderWay(toHost', cSession') + lost' = UnitsUnderWay(toHost, cSession) + lost
  <2>1. UnitsUnderWay(toHost', cSession') = UnitsUnderWay(toHost', cSession)
    BY <1>1
  <2> QED BY <1>1, <1>4, <1>5, <2>1
<1>7. UnitsUnderWay(toHost', cSession') \in Nat /\ lost' \in Nat
      /\ UnitsUnderWay(toHost, cSession) \in Nat
  BY <1>1, <1>4, <1>5
<1>8. CoprocOwes => CoprocOwes'
  <2>1. unreturned + UnitsUnderWay(toHost', cSession') + lost'
          = unreturned + UnitsUnderWay(toHost, cSession) + lost
    BY <1>5, <1>6, <1>7
  <2> QED BY <1>1, <2>1 DEF CoprocOwes
<1>9. WindowKept => WindowKept'
  <2>1. credit + UnitsUnderWay(toCoproc, cSession) + unreturned
           + UnitsUnderWay(toHost', cSession') + lost'
         = credit + UnitsUnderWay(toCoproc, cSession) + unreturned
           + UnitsUnderWay(toHost, cSession) + lost
    BY <1>5, <1>6, <1>7
  <2>2. UnitsUnderWay(toCoproc', cSession') = UnitsUnderWay(toCoproc, cSession)
    BY <1>1
  <2> QED BY <1>1, <2>1, <2>2 DEF WindowKept
<1>10. hSession' <= Len(wireId)
  BY <1>1 DEF Ledger, SessionsKnown
<1> QED BY <1>1, <1>3, <1>8, <1>9, <1>10, SameSession

LEMMA LedgerTransportLost ==
    ASSUME LinkTypeOK, LinkTypeOK', Ledger, TransportLost
    PROVE  Ledger'
<1>1. /\ UNCHANGED <<cSession, wireId, unreturned, lost, foreign, refunded>>
      /\ hSession' = 0
      /\ \/ UNCHANGED <<toCoproc, toHost>>
         \/ toCoproc' = <<>> /\ toHost' = <<>>
  BY DEF TransportLost, ProcessTransportLost, coprocVars
<1>2. CASE UNCHANGED <<toCoproc, toHost>>
  BY <1>1, <1>2, LedgerUntouched
<1>3. CASE toCoproc' = <<>> /\ toHost' = <<>>
  <2>1. DOMAIN toHost' = {} /\ ToSet(toCoproc') = {} /\ ToSet(toHost') = {}
    BY <1>3 DEF ToSet
  <2>2. InAgreement' /\ BeforeAgreement'
    BY <1>1, <2>1 DEF InAgreement, BeforeAgreement, Agree
  <2>3. SessionsKnown'
    <3>1. 0 <= Len(wireId)
      BY CountsType
    <3> QED BY <1>1, <2>1, <3>1 DEF Ledger, SessionsKnown
  <2> QED BY <2>2, <2>3 DEF Ledger
<1> QED BY <1>1, <1>2, <1>3

(* Without a session at the Coprocessor nothing is counted.                *)
LEMMA LedgerNoSession ==
    ASSUME LinkTypeOK', SessionsKnown', cSession' = 0
    PROVE  Ledger'
<1>1. InAgreement'
  BY DEF InAgreement, Agree
<1>2. BeforeAgreement'
  <2>1. \A p \in DOMAIN toHost' : IsResponse(toHost'[p]) => toHost'[p].opens # 0
    <3>1. toHost' \in Seq(ToHostFrames)
      BY DEF LinkTypeOK, WireTypeOK
    <3>2. \A p \in DOMAIN toHost' : toHost'[p] \in ToHostFrames
      BY <3>1
    <3> QED BY <3>2, ToHostFields
  <2> QED BY <2>1 DEF BeforeAgreement, AnswerAt
<1> QED BY <1>1, <1>2 DEF Ledger

LEMMA LedgerReboot ==
    ASSUME LinkTypeOK, LinkTypeOK', Ledger,
           NEW queued \in 0 .. Len(toCoproc), Reboot(queued)
    PROVE  Ledger'
<1>1. /\ UNCHANGED <<hSession, wireId, toHost>> /\ cSession' = 0
      /\ toCoproc' = SubSeq(toCoproc, queued + 1, Len(toCoproc))
  BY DEF Reboot, hostVars
<1>2. ToSet(toCoproc') \subseteq ToSet(toCoproc)
  <2>1. toCoproc \in Seq(ToCoprocFrames)
    BY DEF LinkTypeOK, WireTypeOK
  <2>2. IsRest(toCoproc, queued, toCoproc')
    BY <1>1, <2>1, RestIs
  <2> QED BY <2>1, <2>2, ToSetRest
<1>3. SessionsKnown'
  BY <1>1, <1>2 DEF Ledger, SessionsKnown
<1> QED BY <1>1, <1>3, LedgerNoSession

LEMMA LedgerHello ==
    ASSUME LinkTypeOK, LinkTypeOK', Ledger, HandleHelloRequest
    PROVE  Ledger'
<1>1. /\ toCoproc # <<>> /\ Head(toCoproc).type = "HELLO" /\ toCoproc' = Tail(toCoproc)
      /\ hSession' = hSession /\ credit' = credit
  BY HelloEnds
<1>2. /\ Without(toCoproc, 1, toCoproc') /\ toCoproc' \in Seq(ToCoprocFrames)
      /\ Head(toCoproc) = toCoproc[1]
  BY <1>1, WithoutFirst DEF LinkTypeOK, WireTypeOK
<1>3. ToSet(toCoproc') \subseteq ToSet(toCoproc)
  <2>1. toCoproc \in Seq(ToCoprocFrames)
    BY DEF LinkTypeOK, WireTypeOK
  <2> QED BY <1>2, <2>1, ToSetWithout
<1>4. hSession <= Len(wireId) /\ hSession \in Nat /\ Len(wireId) \in Nat
  BY CountsType DEF Ledger, SessionsKnown
<1>5. CASE \E forgotten : NoBuffer(forgotten)
  <2>1. PICK forgotten : NoBuffer(forgotten)
    BY <1>5
  <2>2. /\ UNCHANGED <<cSession, wireId, toHost, foreign, refunded>>
        /\ forgotten \in 0 .. unreturned
        /\ unreturned' = unreturned - forgotten /\ lost' = lost + forgotten
    BY <2>1 DEF NoBuffer
  <2>3. /\ UnitsUnderWay(toCoproc, cSession)
               = UnitsUnderWay(toCoproc', cSession') + UnitsOf(toCoproc[1], cSession)
        /\ UnitsUnderWay(toCoproc', cSession') \in Nat
    BY <1>2, <2>2, ToCoprocGivesOne
  <2>4. UnitsOf(toCoproc[1], cSession) = 0
    BY <1>1, <1>2 DEF UnitsOf
  <2>5. UnitsUnderWay(toCoproc', cSession') = UnitsUnderWay(toCoproc, cSession)
    BY <2>3, <2>4
  <2>6. UnitsUnderWay(toHost', cSession') = UnitsUnderWay(toHost, cSession)
    BY <2>2
  <2>7. /\ credit \in Nat /\ unreturned \in Nat /\ lost \in Nat
        /\ UnitsUnderWay(toCoproc, cSession) \in Nat
        /\ UnitsUnderWay(toHost, cSession) \in Nat
    BY CountsType
  <2>8. CoprocOwes => CoprocOwes'
    <3>1. unreturned' + UnitsUnderWay(toHost', cSession') + lost'
            = unreturned + UnitsUnderWay(toHost, cSession) + lost
      BY <2>2, <2>6, <2>7
    <3> QED BY <2>2, <3>1 DEF CoprocOwes
  <2>9. WindowKept => WindowKept'
    <3>1. credit' + UnitsUnderWay(toCoproc', cSession') + unreturned'
             + UnitsUnderWay(toHost', cSession') + lost'
           = credit + UnitsUnderWay(toCoproc, cSession) + unreturned
             + UnitsUnderWay(toHost, cSession) + lost
      BY <1>1, <2>2, <2>5, <2>6, <2>7
    <3> QED BY <2>2, <3>1 DEF WindowKept
  <2>10. ToHostGrows
    BY <2>2, ToHostStays
  <2> QED BY <1>1, <1>3, <1>4, <2>2, <2>8, <2>9, <2>10, SameSession
<1>6. CASE NotAnswered
  <2>1. cSession' = 0 /\ toHost' = toHost /\ wireId' = Append(wireId, nextId)
    BY <1>6 DEF NotAnswered, OpensSession
  <2>2. Len(wireId') = Len(wireId) + 1
    BY <2>1 DEF LinkTypeOK, CoprocTypeOK
  <2>3. SessionsKnown'
    <3>1. /\ hSession <= Len(wireId) + 1
          /\ \A f \in ToSet(toCoproc) : IsData(f) => f.of <= Len(wireId) + 1
      <4>1. \A f \in ToSet(toCoproc) : IsData(f) => f.of \in Nat
        BY ToSetIs, ToCoprocFields DEF LinkTypeOK, WireTypeOK
      <4> QED BY <1>4, <4>1 DEF Ledger, SessionsKnown
    <3>2. \A f \in ToSet(toHost) :
             IF IsResponse(f) THEN f.opens <= Len(wireId) + 1 ELSE f.of <= Len(wireId) + 1
      <4>1. \A f \in ToSet(toHost) : f.of \in Nat /\ (IsResponse(f) => f.opens \in Nat)
        BY ToSetIs, ToHostFields DEF LinkTypeOK, WireTypeOK
      <4> QED BY <1>4, <4>1 DEF Ledger, SessionsKnown
    <3> QED BY <1>1, <1>3, <2>1, <2>2, <3>1, <3>2 DEF SessionsKnown
  <2> QED BY <2>1, <2>3, LedgerNoSession
<1>7. CASE Answered
  <2> DEFINE s == Len(wireId) + 1
             r == HelloResponse(s)
             n == Len(toHost) + 1
  <2>1. /\ cSession' = s /\ toHost' = Append(toHost, r) /\ wireId' = Append(wireId, nextId)
        /\ unreturned' = 0 /\ lost' = 0 /\ foreign' = 0 /\ refunded' = {}
    BY <1>7 DEF Answered, OpensSession
  <2>2. Len(wireId') = s /\ s \in Nat \ {0}
    BY <2>1 DEF LinkTypeOK, CoprocTypeOK
  <2>3. r \in ToHostFrames /\ IsResponse(r) /\ r.opens = s
    BY <2>2, FramesMade DEF HelloResponse, IsResponse
  <2>4. \A f \in ToSet(toCoproc) : IsData(f) => f.of <= s /\ f.of # s
    <3>1. \A f \in ToSet(toCoproc) : IsData(f) => f.of \in Nat
      BY ToSetIs, ToCoprocFields DEF LinkTypeOK, WireTypeOK
    <3> QED BY <1>4, <3>1 DEF Ledger, SessionsKnown
  <2>5. \A f \in ToSet(toHost) : IF IsResponse(f) THEN f.opens <= s /\ f.opens # s
                                                  ELSE f.of <= s /\ f.of # s
    <3>1. \A f \in ToSet(toHost) : f.of \in Nat /\ (IsResponse(f) => f.opens \in Nat)
      BY ToSetIs, ToHostFields DEF LinkTypeOK, WireTypeOK
    <3> QED BY <1>4, <3>1 DEF Ledger, SessionsKnown
  <2>6. /\ DOMAIN toHost = 1 .. Len(toHost) /\ Len(toHost) \in Nat
        /\ DOMAIN toHost' = 1 .. n /\ toHost'[n] = r
        /\ \A i \in 1 .. Len(toHost) : toHost'[i] = toHost[i]
    BY <2>1 DEF LinkTypeOK, WireTypeOK
  <2>7. ToSet(toHost') = ToSet(toHost) \cup {r}
    <3>1. toHost \in Seq(ToHostFrames)
      BY DEF LinkTypeOK, WireTypeOK
    <3> QED BY <2>1, <2>3, <3>1, ToSetAppend
  <2> HIDE DEF s, r
  <2>8. hSession' <= s /\ hSession' # s
    BY <1>1, <1>4 DEF s
  <2>9. SessionsKnown'
    <3>1. \A f \in ToSet(toHost') : IF IsResponse(f) THEN f.opens <= s ELSE f.of <= s
      BY <2>2, <2>3, <2>5, <2>7
    <3>2. \A f \in ToSet(toCoproc') : IsData(f) => f.of <= s
      BY <1>3, <2>4
    <3> QED BY <2>1, <2>2, <2>8, <3>1, <3>2 DEF SessionsKnown
  <2>10. InAgreement'
    BY <2>1, <2>8 DEF InAgreement, Agree
  <2>11. \A i \in 1 .. Len(toHost) : toHost[i] \in ToSet(toHost)
    BY <2>6, ToSetIs
  <2>12. UnitsUnderWay(toHost', s) = 0
    <3>1. \A i \in DOMAIN toHost' : i = n \/ i \in 1 .. Len(toHost)
      BY <2>6
    <3>2. UnitsOf(r, s) = 0
      BY <2>3 DEF UnitsOf, IsResponse
    <3>3. \A i \in 1 .. Len(toHost) : UnitsOf(toHost[i], s) = 0
      BY <2>5, <2>11 DEF UnitsOf, IsResponse
    <3>4. \A i \in DOMAIN toHost' : UnitsOf(toHost'[i], s) = 0
      BY <2>6, <3>1, <3>2, <3>3
    <3> QED BY <3>4, UnitsNone
  <2>13. CoprocOwes'
    <3>1. Cardinality({}) = 0
      BY FS_EmptySet
    <3> QED BY <2>1, <2>12, <3>1 DEF CoprocOwes
  <2>14. ASSUME NEW p \in DOMAIN toHost', IsResponse(toHost'[p]), toHost'[p].opens = s
        PROVE  p = n
    BY <2>5, <2>6, <2>11, <2>14
  <2>15. \A i \in DOMAIN toHost' : i < n
            => ~(~IsResponse(toHost'[i]) /\ toHost'[i].of = s)
    <3>1. \A i \in DOMAIN toHost' : i < n => i \in 1 .. Len(toHost)
      BY <2>6
    <3> QED BY <2>5, <2>6, <2>11, <3>1
  <2>16. \A i \in DOMAIN toHost' : ~(i > n)
    BY <2>6
  <2> HIDE DEF n
  <2>17. BeforeAgreement'
    BY <1>3, <2>1, <2>4, <2>8, <2>13, <2>14, <2>15, <2>16 DEF BeforeAgreement, AnswerAt, Own
  <2> QED BY <2>9, <2>10, <2>17 DEF Ledger
<1> QED BY <1>5, <1>6, <1>7, HelloEnds

(* The numbers a frame shows to be missing before it.                      *)
MissingBefore(f) == {<<f.epoch, n>> : n \in Skipped(f.seq)}

(* Both credit updates HandleData sends, as the Ledger sees them.          *)
LEMMA TwoUpdates ==
    ASSUME LinkTypeOK, NEW a \in Nat, NEW b \in Nat, cSession' = cSession,
           toHost' = toHost \o Updates(cSession, a) \o Updates(cSession, b)
    PROVE  /\ ToHostGrows
           /\ UnitsUnderWay(toHost', cSession')
                 = UnitsUnderWay(toHost, cSession) + a + b
<1> DEFINE d == toHost \o Updates(cSession, a)
           e == d \o Updates(cSession, b)
<1>1. toHost \in Seq(ToHostFrames) /\ cSession \in Nat
  BY DEF LinkTypeOK, WireTypeOK, CoprocTypeOK
<1>2. /\ d \in Seq(ToHostFrames) /\ Len(d) >= Len(toHost)
      /\ \A i \in DOMAIN toHost : d[i] = toHost[i]
      /\ \A i \in DOMAIN d : i \in DOMAIN toHost \/ d[i] = CreditUpdate(cSession, a)
      /\ UnitsUnderWay(d, cSession) = UnitsUnderWay(toHost, cSession) + a
  <2>1. UpdatesFollow(toHost, cSession, a, d)
    BY <1>1, UpdatesAdd
  <2> HIDE DEF d
  <2> QED BY <2>1 DEF UpdatesFollow
<1> HIDE DEF d
<1>3. /\ e \in Seq(ToHostFrames) /\ Len(e) >= Len(d)
      /\ \A i \in DOMAIN d : e[i] = d[i]
      /\ \A i \in DOMAIN e : i \in DOMAIN d \/ e[i] = CreditUpdate(cSession, b)
      /\ UnitsUnderWay(e, cSession) = UnitsUnderWay(d, cSession) + b
  <2>1. UpdatesFollow(d, cSession, b, e)
    BY <1>1, <1>2, UpdatesAdd
  <2> HIDE DEF e
  <2> QED BY <2>1 DEF UpdatesFollow
<1> HIDE DEF e
<1>4. toHost' = e
  BY DEF d, e
<1>5. \A k : Own(CreditUpdate(cSession, k))
  BY DEF Own, IsResponse, CreditUpdate
<1>6. Len(e) >= Len(toHost) /\ DOMAIN toHost \subseteq DOMAIN d
  <2>1. /\ DOMAIN toHost = 1 .. Len(toHost) /\ Len(toHost) \in Nat
        /\ DOMAIN d = 1 .. Len(d) /\ Len(d) \in Nat /\ Len(e) \in Nat
    BY <1>1, <1>2, <1>3
  <2> QED BY <1>2, <1>3, <2>1
<1>7. \A i \in DOMAIN toHost : e[i] = toHost[i]
  BY <1>2, <1>3, <1>6
<1>8. \A i \in DOMAIN e : i \in DOMAIN toHost \/ Own(e[i])
  BY <1>2, <1>3, <1>5
<1>9. ToHostGrows
  BY <1>4, <1>6, <1>7, <1>8 DEF ToHostGrows
<1>10. UnitsUnderWay(toHost, cSession) \in Nat
  <2>1. toHost \in Seq(AllFrames)
    BY DEF LinkTypeOK, WireTypeOK, AllFrames
  <2> QED BY <2>1, UnitsType
<1>11. UnitsUnderWay(e, cSession) = UnitsUnderWay(toHost, cSession) + a + b
  BY <1>2, <1>3, <1>10
<1> QED BY <1>4, <1>9, <1>11

LEMMA LedgerData ==
    ASSUME LinkTypeOK, LinkTypeOK', Ledger,
           NEW kept \in 0 .. MaxRecords, HandleData(kept),
           MissingBefore(Head(toCoproc)) \cap refunded = {}
    PROVE  Ledger'
<1> DEFINE f == Head(toCoproc)
           gap == Skipped(f.seq)
           g == Cardinality(gap)
           missing == MissingBefore(f)
<1>1. /\ UNCHANGED <<hSession, credit, cSession, wireId, lost>>
      /\ toCoproc # <<>> /\ IsData(f) /\ kept <= f.units /\ toCoproc' = Tail(toCoproc)
      /\ unreturned' = IF cSession = 0 THEN 0 ELSE unreturned + kept
      /\ toHost' = toHost \o Updates(cSession, g) \o Updates(cSession, f.units - kept)
      /\ refunded' = refunded \cup missing
      /\ foreign' = IF f.of = cSession THEN foreign ELSE foreign + f.units
  BY DEF HandleData, hostVars, IsData, MissingBefore
<1>2. /\ Without(toCoproc, 1, toCoproc') /\ toCoproc' \in Seq(ToCoprocFrames)
      /\ f = toCoproc[1]
  BY <1>1, WithoutFirst DEF LinkTypeOK, WireTypeOK
<1>3. /\ f \in ToSet(toCoproc) /\ f \in ToCoprocFrames
      /\ ToSet(toCoproc') \subseteq ToSet(toCoproc)
      /\ UnitsUnderWay(toCoproc, cSession)
             = UnitsUnderWay(toCoproc', cSession') + UnitsOf(f, cSession)
      /\ UnitsUnderWay(toCoproc', cSession') \in Nat
  BY <1>1, <1>2, ToCoprocGivesOne
<1>4. f.of \in Nat /\ f.units \in Nat /\ f.epoch \in Nat /\ f.seq \in Nat
  BY <1>1, <1>3, ToCoprocFields
<1>5. g \in Nat /\ IsFiniteSet(missing) /\ Cardinality(missing) = g
  <2>1. expected \in Nat \cup {NoSequence}
    BY DEF LinkTypeOK, CoprocTypeOK
  <2> QED BY <1>4, <2>1, SkippedType DEF MissingBefore
<1>6. UnitsOf(f, cSession) = IF f.of = cSession THEN f.units ELSE 0
  BY <1>1 DEF UnitsOf, IsData
<1> HIDE DEF f, gap, g, missing
<1>7. /\ credit \in Nat /\ unreturned \in Nat /\ lost \in Nat /\ foreign \in Nat
      /\ Cardinality(refunded) \in Nat /\ IsFiniteSet(refunded)
      /\ UnitsUnderWay(toCoproc, cSession) \in Nat
      /\ UnitsUnderWay(toHost, cSession) \in Nat
  BY CountsType
<1>8. Cardinality(refunded') = Cardinality(refunded) + g
  <2>1. missing \cap refunded = {}
    BY DEF missing, f
  <2>2. refunded \cap missing = {} /\ Cardinality({}) = 0
    BY <2>1, FS_EmptySet
  <2>3. Cardinality(refunded \cup missing)
          = Cardinality(refunded) + Cardinality(missing) - Cardinality(refunded \cap missing)
    BY <1>5, <1>7, FS_Union
  <2>4. Cardinality(refunded') = Cardinality(refunded \cup missing)
    BY <1>1
  <2>5. Cardinality(refunded \cap missing) = 0
    BY <2>2
  <2> QED BY <1>5, <1>7, <2>3, <2>4, <2>5
<1>9. kept \in Nat /\ f.units - kept \in Nat
  BY <1>1, <1>4
<1>10. /\ ToHostGrows
       /\ UnitsUnderWay(toHost', cSession')
             = UnitsUnderWay(toHost, cSession) + g + (f.units - kept)
  BY <1>1, <1>5, <1>9, TwoUpdates
<1>11. cSession # 0 /\ f.of # cSession /\ CoprocOwes => CoprocOwes'
  <2> SUFFICES ASSUME cSession # 0, f.of # cSession, CoprocOwes PROVE CoprocOwes'
    OBVIOUS
  <2>1. unreturned' = unreturned + kept /\ foreign' = foreign + f.units /\ lost' = lost
    BY <1>1
  <2>2. unreturned' + UnitsUnderWay(toHost', cSession') + lost'
          = unreturned + UnitsUnderWay(toHost, cSession) + lost + g + f.units
    BY <1>4, <1>5, <1>7, <1>9, <1>10, <2>1
  <2>3. foreign' + Cardinality(refunded') = foreign + Cardinality(refunded) + g + f.units
    BY <1>4, <1>5, <1>7, <1>8, <2>1
  <2> QED BY <2>2, <2>3 DEF CoprocOwes
<1>12. (\E p \in DOMAIN toHost : AnswerAt(p)) => cSession # 0 /\ f.of # cSession
  <2> SUFFICES ASSUME NEW p \in DOMAIN toHost, AnswerAt(p)
               PROVE  cSession # 0 /\ f.of # cSession
    OBVIOUS
  <2>1. \A h \in ToSet(toCoproc) : IsData(h) => h.of # cSession
    BY DEF Ledger, BeforeAgreement
  <2>2. toHost[p] \in ToHostFrames
    BY DEF LinkTypeOK, WireTypeOK
  <2>3. cSession # 0
    BY <2>2, ToHostFields DEF AnswerAt
  <2> QED BY <1>1, <1>3, <2>1, <2>3
<1>13. Agree /\ WindowKept => WindowKept'
  <2> SUFFICES ASSUME Agree, WindowKept PROVE WindowKept'
    OBVIOUS
  <2>1. unreturned' = unreturned + kept /\ credit' = credit /\ lost' = lost
    BY <1>1 DEF Agree
  <2>2. UnitsUnderWay(toCoproc', cSession') + f.units + foreign
           = UnitsUnderWay(toCoproc, cSession) + foreign'
    <3>1. CASE f.of = cSession
      <4>1. foreign' = foreign /\ UnitsOf(f, cSession) = f.units
        BY <1>1, <1>6, <3>1
      <4> QED BY <1>3, <1>4, <1>7, <4>1
    <3>2. CASE f.of # cSession
      <4>1. foreign' = foreign + f.units /\ UnitsOf(f, cSession) = 0
        BY <1>1, <1>6, <3>2
      <4> QED BY <1>3, <1>4, <1>7, <4>1
    <3> QED BY <3>1, <3>2
  <2>3. foreign' \in Nat
    BY DEF LinkTypeOK, LedgerTypeOK
  <2>4. /\ credit + UnitsUnderWay(toCoproc, cSession) + unreturned
              + UnitsUnderWay(toHost, cSession) + lost
            = Window + foreign + Cardinality(refunded)
        /\ Window \in Nat
    BY DEF WindowKept
  <2>5. credit' + UnitsUnderWay(toCoproc', cSession') + unreturned'
              + UnitsUnderWay(toHost', cSession') + lost'
            = Window + foreign' + Cardinality(refunded')
    <3>1. unreturned' + UnitsUnderWay(toHost', cSession') + lost'
            = unreturned + UnitsUnderWay(toHost, cSession) + lost + g + f.units
      BY <1>4, <1>5, <1>7, <1>9, <1>10, <2>1
    <3>2. /\ unreturned' \in Nat /\ lost' \in Nat
          /\ UnitsUnderWay(toHost', cSession') \in Nat
      BY <1>4, <1>5, <1>7, <1>9, <1>10, <2>1
    <3> QED BY <1>3, <1>4, <1>5, <1>7, <1>8, <2>1, <2>2, <2>3, <2>4, <3>1, <3>2
  <2> QED BY <2>5 DEF WindowKept
<1>14. hSession' <= Len(wireId)
  BY <1>1 DEF Ledger, SessionsKnown
<1> QED BY <1>1, <1>3, <1>10, <1>11, <1>12, <1>13, <1>14, SameSession

LEMMA LedgerInit == LinkInit => Ledger
<1> SUFFICES ASSUME LinkInit PROVE Ledger
  OBVIOUS
<1>1. /\ hSession = 0 /\ cSession = 0 /\ wireId = <<>> /\ toHost = <<>>
      /\ toCoproc = <<HelloRequest>>
  BY DEF LinkInit
<1>2. DOMAIN toHost = {} /\ ToSet(toHost) = {}
  BY <1>1 DEF ToSet
<1>3. \A f \in ToSet(toCoproc) : ~IsData(f)
  BY <1>1 DEF ToSet, IsData, HelloRequest
<1>4. SessionsKnown
  BY <1>1, <1>2, <1>3 DEF SessionsKnown
<1> QED BY <1>1, <1>2, <1>4 DEF Ledger, InAgreement, BeforeAgreement, Agree

(* Every step, given that what a frame shows to be missing has not been    *)
(* refunded before.                                                        *)
LEMMA LedgerStep ==
    ASSUME LinkTypeOK, LinkTypeOK', Ledger, [LinkNext]_sessionVars,
           \A kept \in 0 .. MaxRecords : HandleData(kept)
               => MissingBefore(Head(toCoproc)) \cap refunded = {}
    PROVE  Ledger'
<1>1. CASE HandleTransportStopped \/ Admit \/ HeartbeatTimeout \/ CoprocCongested
              \/ CoprocCreditUpdate \/ UNCHANGED sessionVars
  <2>1. UNCHANGED <<cSession, wireId, toCoproc, toHost, unreturned, lost, foreign, refunded>>
    BY <1>1
    DEF HandleTransportStopped, Admit, HeartbeatTimeout, CoprocCongested,
        CoprocCreditUpdate, sessionVars, coprocVars, hostVars, ledger
  <2>2. hSession' = 0 \/ UNCHANGED <<hSession, credit>>
    BY <1>1
    DEF HandleTransportStopped, Admit, HeartbeatTimeout, CoprocCongested,
        CoprocCreditUpdate, sessionVars, hostVars, ProcessTransportLost
  <2> QED BY <2>1, <2>2, LedgerUntouched
<1>2. CASE HostTransmits
  BY <1>2, LedgerEthernetTx DEF HostTransmits
<1>3. CASE HostReceives
  BY <1>3, LedgerSessionMismatch, LedgerHelloResponse, LedgerCreditUpdate, LedgerHeartbeat
  DEF HostReceives
<1>4. CASE HandleTransportStarted
  BY <1>4, LedgerTransportStarted
<1>5. CASE CoprocReceives
  BY <1>5, LedgerHello, LedgerData DEF CoprocReceives
<1>6. CASE EmitHeartbeat \/ \E k \in 1 .. unreturned : ReturnUnits(k)
  BY <1>6, LedgerEmitHeartbeat, LedgerReturnUnits
<1>7. CASE Fault
  BY <1>1, <1>7, LedgerLoseToCoproc, LedgerLoseToHost, LedgerTransportLost, LedgerReboot
  DEF Fault
<1> QED BY <1>1, <1>2, <1>3, <1>4, <1>5, <1>6, <1>7 DEF LinkNext

-----------------------------------------------------------------------------
(* The numbers of the data frames.                                         *)

(* One number before another: of an earlier epoch, or of the same one.     *)
Before(a, b) == a[1] < b[1] \/ (a[1] = b[1] /\ a[2] < b[2])

Places == Nat \X (Nat \cup {-1})

LEMMA BeforeOrder ==
    /\ \A a, b, c \in Places : Before(a, b) /\ Before(b, c) => Before(a, c)
    /\ \A a, b \in Places : Before(a, b) => ~Before(b, a) /\ a # b
<1>1. \A a \in Places : a[1] \in Int /\ a[2] \in Int
  BY DEF Places
<1> QED BY <1>1 DEF Before

LEMMA NumbersArePlaces == \A a \in FrameNumbers : a \in Places
  BY DEF FrameNumbers, Places

(* The data frames of a channel are numbered in their order.               *)
InOrder(c) ==
    \A i, j \in DOMAIN c :
        IsData(c[i]) /\ IsData(c[j]) /\ i < j => Before(Number(c[i]), Number(c[j]))

(* The number of the next data frame.                                      *)
NextNumber == <<epoch, sequence>>

(* The numbers of the epoch of x between last and x are those of frames    *)
(* that were lost or are under way.                                        *)
Behind(last, x) ==
    \A n \in Nat : n < x[2] /\ Before(last, <<x[1], n>>)
        => <<x[1], n>> \in dropped \cup DataIn(toCoproc)

(* last is the number of the frame the Coprocessor took last, or what is   *)
(* to be thought in its place: all it refunded is before it, all that is   *)
(* under way is after it, and what is missing there was lost.              *)
Accounted(last) ==
    /\ expected # NoSequence => expected = last[2] + 1
    /\ \A x \in refunded : Before(x, last)
    /\ Before(last, NextNumber) /\ Behind(last, NextNumber)
    /\ \A x \in DataIn(toCoproc) :
          Before(last, x) /\ Before(x, NextNumber) /\ Behind(last, x)

Gaps ==
    /\ refunded \subseteq dropped /\ InOrder(toCoproc)
    /\ \E last \in Places : Accounted(last)

LEMMA NumbersType ==
    ASSUME LinkTypeOK
    PROVE  /\ NextNumber \in FrameNumbers /\ epoch \in Nat /\ sequence \in Nat
           /\ DataIn(toCoproc) \in SUBSET FrameNumbers
           /\ refunded \in SUBSET FrameNumbers /\ dropped \in SUBSET FrameNumbers
           /\ toCoproc \in Seq(ToCoprocFrames)
<1>1. toCoproc \in Seq(ToCoprocFrames) /\ epoch \in Nat /\ sequence \in Nat
  BY DEF LinkTypeOK, HostTypeOK, WireTypeOK
<1>2. NextNumber \in FrameNumbers
  BY <1>1 DEF NextNumber, FrameNumbers
<1>3. refunded \in SUBSET FrameNumbers /\ dropped \in SUBSET FrameNumbers
  BY DEF LinkTypeOK, LedgerTypeOK
<1> QED BY <1>1, <1>2, <1>3, DataInType

(* A step in which frames are taken, up to next, or lost, and in which the *)
(* Host may begin its numbers again.                                       *)
LEMMA FramesLeave ==
    ASSUME LinkTypeOK, LinkTypeOK', NEW last \in Places, Accounted(last),
           NEW next \in Places, next = last \/ Before(last, next),
           DataIn(toCoproc') \subseteq DataIn(toCoproc), dropped \subseteq dropped',
           \A x \in DataIn(toCoproc) :
              x \in DataIn(toCoproc') \/ x \in dropped' \/ ~Before(next, x),
           \A x \in DataIn(toCoproc') : Before(next, x),
           Before(next, NextNumber),
           \/ epoch' = epoch /\ sequence' = sequence
           \/ epoch' = epoch + 1 /\ sequence' = 0,
           expected' # NoSequence => expected' = next[2] + 1,
           \A x \in refunded' : Before(x, next)
    PROVE  Accounted(next)'
<1>1. /\ NextNumber \in Places /\ NextNumber' \in Places /\ epoch \in Nat
      /\ DataIn(toCoproc) \in SUBSET FrameNumbers
      /\ NextNumber = <<epoch, sequence>> /\ NextNumber' = <<epoch', sequence'>>
      /\ NextNumber \in FrameNumbers
  <2>1. /\ NextNumber \in FrameNumbers /\ epoch \in Nat
        /\ DataIn(toCoproc) \in SUBSET FrameNumbers
    BY NumbersType
  <2>2. NextNumber' \in Places
    BY DEF LinkTypeOK, HostTypeOK, NextNumber, Places
  <2> QED BY <2>1, <2>2, NumbersArePlaces DEF NextNumber
<1>2. NextNumber' = NextNumber \/ (Before(NextNumber, NextNumber') /\ sequence' = 0)
  BY <1>1 DEF Before
<1>3. ASSUME NEW x \in FrameNumbers, Behind(last, x) PROVE Behind(next, x)'
  <2> SUFFICES ASSUME NEW n \in Nat, n < x[2], Before(next, <<x[1], n>>)
               PROVE  <<x[1], n>> \in dropped' \cup DataIn(toCoproc')
    BY DEF Behind
  <2>1. <<x[1], n>> \in Places
    BY DEF FrameNumbers, Places
  <2>2. Before(last, <<x[1], n>>)
    BY <2>1, BeforeOrder
  <2>3. <<x[1], n>> \in dropped \cup DataIn(toCoproc)
    BY <1>3, <2>2 DEF Behind
  <2> QED BY <2>3
<1>4. Before(next, NextNumber')
  BY <1>1, <1>2, BeforeOrder
<1>5. Behind(next, NextNumber)'
  <2>1. CASE NextNumber' = NextNumber
    <3>1. Behind(last, NextNumber)
      BY DEF Accounted
    <3>2. \A n \in Nat : n < NextNumber[2] /\ Before(next, <<NextNumber[1], n>>)
             => <<NextNumber[1], n>> \in dropped' \cup DataIn(toCoproc')
      BY <1>1, <1>3, <3>1 DEF Behind
    <3> QED BY <2>1, <3>2 DEF Behind
  <2>2. CASE sequence' = 0
    <3>1. \A n \in Nat : ~(n < NextNumber'[2])
      BY <1>1, <2>2
    <3> QED BY <3>1 DEF Behind
  <2> QED BY <1>2, <2>1, <2>2
<1>6. ASSUME NEW x \in DataIn(toCoproc')
      PROVE  Before(next, x) /\ Before(x, NextNumber') /\ Behind(next, x)'
  <2>1. x \in FrameNumbers /\ x \in DataIn(toCoproc) /\ x \in Places
    BY <1>1, NumbersArePlaces
  <2>2. Before(x, NextNumber) /\ Behind(last, x)
    BY <2>1 DEF Accounted
  <2>3. Before(x, NextNumber')
    BY <1>1, <1>2, <2>1, <2>2, BeforeOrder
  <2> QED BY <1>3, <2>1, <2>2, <2>3
<1> QED BY <1>4, <1>5, <1>6 DEF Accounted

(* The same when nothing is taken.                                         *)
LEMMA GapsStay ==
    ASSUME LinkTypeOK, LinkTypeOK', Gaps, InOrder(toCoproc'),
           DataIn(toCoproc') \subseteq DataIn(toCoproc), dropped \subseteq dropped',
           \A x \in DataIn(toCoproc) : x \in DataIn(toCoproc') \/ x \in dropped',
           \/ epoch' = epoch /\ sequence' = sequence
           \/ epoch' = epoch + 1 /\ sequence' = 0,
           expected' = expected \/ expected' = NoSequence,
           refunded' \subseteq refunded
    PROVE  Gaps'
<1>1. PICK last \in Places : Accounted(last)
  BY DEF Gaps
<1>2. /\ expected # NoSequence => expected = last[2] + 1
      /\ \A x \in refunded : Before(x, last)
      /\ \A x \in DataIn(toCoproc) : Before(last, x)
      /\ Before(last, NextNumber)
  BY <1>1 DEF Accounted
<1>3. Accounted(last)'
  BY <1>1, <1>2, FramesLeave
<1>4. refunded' \subseteq dropped'
  BY DEF Gaps
<1> QED BY <1>3, <1>4 DEF Gaps, InOrder

(* What channels without a frame, or with one more, have in their order.   *)
LEMMA InOrderWithout ==
    ASSUME NEW S, NEW c \in Seq(S), NEW i, NEW d, Without(c, i, d), InOrder(c)
    PROVE  InOrder(d)
<1>1. /\ \A j \in DOMAIN d : Place(i, j) \in DOMAIN c /\ d[j] = c[Place(i, j)]
      /\ \A j, k \in DOMAIN d : j < k => Place(i, j) < Place(i, k)
  BY WithoutPlaces
<1> SUFFICES ASSUME NEW j \in DOMAIN d, NEW k \in DOMAIN d,
                    IsData(d[j]), IsData(d[k]), j < k
             PROVE  Before(Number(d[j]), Number(d[k]))
  BY DEF InOrder
<1>2. /\ Place(i, j) \in DOMAIN c /\ Place(i, k) \in DOMAIN c
      /\ Place(i, j) < Place(i, k)
      /\ d[j] = c[Place(i, j)] /\ d[k] = c[Place(i, k)]
  BY <1>1
<1> QED BY <1>2 DEF InOrder

LEMMA InOrderRest ==
    ASSUME NEW S, NEW c \in Seq(S), NEW n, NEW d, IsRest(c, n, d), InOrder(c)
    PROVE  InOrder(d)
<1>1. /\ DOMAIN c = 1 .. Len(c) /\ Len(c) \in Nat /\ n \in 0 .. Len(c)
      /\ DOMAIN d = 1 .. Len(c) - n /\ \A j \in 1 .. Len(c) - n : d[j] = c[n + j]
  BY DEF IsRest
<1> SUFFICES ASSUME NEW j \in DOMAIN d, NEW k \in DOMAIN d,
                    IsData(d[j]), IsData(d[k]), j < k
             PROVE  Before(Number(d[j]), Number(d[k]))
  BY DEF InOrder
<1>2. /\ n + j \in DOMAIN c /\ n + k \in DOMAIN c /\ n + j < n + k
      /\ d[j] = c[n + j] /\ d[k] = c[n + k]
  <2>1. j \in 1 .. Len(c) - n /\ k \in 1 .. Len(c) - n
    BY <1>1
  <2> QED BY <1>1, <2>1
<1> QED BY <1>2 DEF InOrder

LEMMA InOrderAppend ==
    ASSUME NEW c \in Seq(ToCoprocFrames), NEW f \in ToCoprocFrames, InOrder(c),
           IsData(f) => \A x \in DataIn(c) : Before(x, Number(f))
    PROVE  /\ InOrder(Append(c, f))
           /\ DataIn(Append(c, f)) = DataIn(c) \cup (IF IsData(f) THEN {Number(f)} ELSE {})
<1> DEFINE d == Append(c, f)
           n == Len(c) + 1
<1>1. /\ DOMAIN c = 1 .. Len(c) /\ DOMAIN d = 1 .. n /\ Len(c) \in Nat
      /\ d[n] = f /\ \A i \in 1 .. Len(c) : d[i] = c[i] /\ d \in Seq(ToCoprocFrames)
  OBVIOUS
<1>2. d \in Seq(ToCoprocFrames)
  OBVIOUS
<1> HIDE DEF d
<1>3. \A i \in DOMAIN d : i = n \/ (i \in DOMAIN c /\ d[i] = c[i] /\ i < n)
  BY <1>1
<1>4. n \in DOMAIN d /\ n \in Nat /\ DOMAIN c \subseteq DOMAIN d
      /\ \A i \in DOMAIN d : ~(n < i)
  BY <1>1
<1>5. d[n] = f /\ \A i \in DOMAIN c : d[i] = c[i]
  BY <1>1
<1> HIDE DEF n
<1>6. DataIn(c) = {Number(c[i]) : i \in {j \in DOMAIN c : IsData(c[j])}}
  BY DataInType
<1>7. DataIn(d) = {Number(d[i]) : i \in {j \in DOMAIN d : IsData(d[j])}}
  BY <1>2, DataInType
<1>8. DataIn(d) = DataIn(c) \cup (IF IsData(f) THEN {Number(f)} ELSE {})
  BY <1>3, <1>4, <1>5, <1>6, <1>7
<1>9. ASSUME NEW i \in DOMAIN d, NEW j \in DOMAIN d, IsData(d[i]), IsData(d[j]), i < j
      PROVE  Before(Number(d[i]), Number(d[j]))
  <2>1. i \in DOMAIN c /\ d[i] = c[i]
    BY <1>3, <1>4, <1>9
  <2>2. CASE j = n
    <3>1. Number(c[i]) \in DataIn(c)
      BY <1>6, <1>9, <2>1
    <3> QED BY <1>5, <1>9, <2>1, <2>2, <3>1
  <2>3. CASE j \in DOMAIN c /\ d[j] = c[j]
    BY <1>9, <2>1, <2>3 DEF InOrder
  <2> QED BY <1>3, <2>2, <2>3
<1> QED BY <1>8, <1>9 DEF InOrder, d

(* The data frames left when one goes, or when the first n go.             *)
LEMMA DataInWithout ==
    ASSUME NEW c \in Seq(ToCoprocFrames), NEW i, NEW d \in Seq(ToCoprocFrames),
           Without(c, i, d)
    PROVE  /\ DataIn(d) \subseteq DataIn(c)
           /\ \A x \in DataIn(c) : x \in DataIn(d) \/ (IsData(c[i]) /\ x = Number(c[i]))
<1>1. /\ \A j \in DOMAIN d : Place(i, j) \in DOMAIN c /\ d[j] = c[Place(i, j)]
      /\ \A k \in DOMAIN c : k # i => \E j \in DOMAIN d : Place(i, j) = k
  BY WithoutPlaces
<1>2. /\ DataIn(c) = {Number(c[j]) : j \in {k \in DOMAIN c : IsData(c[k])}}
      /\ DataIn(d) = {Number(d[j]) : j \in {k \in DOMAIN d : IsData(d[k])}}
  BY DataInType
<1>3. DataIn(d) \subseteq DataIn(c)
  BY <1>1, <1>2
<1>4. ASSUME NEW k \in DOMAIN c, IsData(c[k])
      PROVE  Number(c[k]) \in DataIn(d) \/ k = i
  <2> SUFFICES ASSUME k # i PROVE Number(c[k]) \in DataIn(d)
    OBVIOUS
  <2>1. PICK j \in DOMAIN d : Place(i, j) = k
    BY <1>1
  <2>2. d[j] = c[k]
    BY <1>1, <2>1
  <2> QED BY <1>2, <1>4, <2>2
<1> QED BY <1>2, <1>3, <1>4

LEMMA DataInRest ==
    ASSUME NEW c \in Seq(ToCoprocFrames), NEW n \in 0 .. Len(c)
    PROVE  /\ DataIn(SubSeq(c, n + 1, Len(c))) \subseteq DataIn(c)
           /\ \A x \in DataIn(c) : \/ x \in DataIn(SubSeq(c, n + 1, Len(c)))
                                  \/ x \in DataIn(SubSeq(c, 1, n))
           /\ InOrder(c) => InOrder(SubSeq(c, n + 1, Len(c)))
<1> DEFINE d == SubSeq(c, n + 1, Len(c))
           e == SubSeq(c, 1, n)
<1>1. /\ DOMAIN c = 1 .. Len(c) /\ Len(c) \in Nat /\ n \in Nat /\ n <= Len(c)
      /\ \A j \in 1 .. Len(c) : c[j] \in ToCoprocFrames
  OBVIOUS
<1>2. IsRest(c, n, d)
  BY RestIs
<1>3. \A m, k \in Int : (\A j \in m .. k : c[j] \in ToCoprocFrames)
         => /\ SubSeq(c, m, k) \in Seq(ToCoprocFrames)
            /\ Len(SubSeq(c, m, k)) = IF m <= k THEN k - m + 1 ELSE 0
            /\ \A i \in 1 .. k - m + 1 : SubSeq(c, m, k)[i] = c[m + i - 1]
  BY SubSeqProperties
<1>4. d \in Seq(ToCoprocFrames)
  BY <1>1, <1>3
<1>5. e \in Seq(ToCoprocFrames) /\ DOMAIN e = 1 .. n /\ \A i \in 1 .. n : e[i] = c[i]
  <2>1. /\ e \in Seq(ToCoprocFrames) /\ Len(e) = IF 1 <= n THEN n - 1 + 1 ELSE 0
        /\ \A i \in 1 .. n - 1 + 1 : e[i] = c[1 + i - 1]
    BY <1>1, <1>3
  <2> HIDE DEF e
  <2>2. DOMAIN e = 1 .. n
    BY <1>1, <2>1
  <2>3. \A i \in 1 .. n : e[i] = c[i]
    <3> TAKE i \in 1 .. n
    <3>1. i \in 1 .. n - 1 + 1 /\ 1 + i - 1 = i
      BY <1>1
    <3> QED BY <2>1, <3>1
  <2> QED BY <2>1, <2>2, <2>3
<1> HIDE DEF d, e
<1>6. /\ DataIn(c) = {Number(c[j]) : j \in {k \in DOMAIN c : IsData(c[k])}}
      /\ DataIn(d) = {Number(d[j]) : j \in {k \in DOMAIN d : IsData(d[k])}}
      /\ DataIn(e) = {Number(e[j]) : j \in {k \in DOMAIN e : IsData(e[k])}}
  BY <1>4, <1>5, DataInType
<1>7. DOMAIN d = 1 .. Len(c) - n /\ \A j \in 1 .. Len(c) - n : d[j] = c[n + j]
  BY <1>2 DEF IsRest
<1>8. DataIn(d) \subseteq DataIn(c)
  <2>1. \A j \in DOMAIN d : n + j \in DOMAIN c /\ d[j] = c[n + j]
    BY <1>1, <1>7
  <2> QED BY <1>6, <2>1
<1>9. ASSUME NEW k \in DOMAIN c, IsData(c[k])
      PROVE  Number(c[k]) \in DataIn(d) \/ Number(c[k]) \in DataIn(e)
  <2>1. CASE k <= n
    <3>1. k \in DOMAIN e /\ e[k] = c[k]
      BY <1>1, <1>5, <2>1
    <3> QED BY <1>6, <1>9, <3>1
  <2>2. CASE k > n
    <3>1. k - n \in 1 .. Len(c) - n /\ n + (k - n) = k
      BY <1>1, <2>2
    <3>2. k - n \in DOMAIN d /\ d[k - n] = c[k]
      BY <1>7, <3>1
    <3> QED BY <1>6, <1>9, <3>2
  <2> QED BY <1>1, <2>1, <2>2
<1>10. \A x \in DataIn(c) : x \in DataIn(d) \/ x \in DataIn(e)
  BY <1>6, <1>9
<1>11. InOrder(c) => InOrder(d)
  BY <1>2, InOrderRest
<1> QED BY <1>8, <1>10, <1>11 DEF d, e

(* What a frame shows to be missing before it was lost and has not been    *)
(* refunded.                                                               *)
LEMMA MissingIsNew ==
    ASSUME LinkTypeOK, Gaps, toCoproc # <<>>, IsData(Head(toCoproc))
    PROVE  /\ MissingBefore(Head(toCoproc)) \cap refunded = {}
           /\ MissingBefore(Head(toCoproc)) \subseteq dropped
<1> DEFINE f == Head(toCoproc)
<1>1. PICK last \in Places : Accounted(last)
  BY DEF Gaps
<1>2. toCoproc \in Seq(ToCoprocFrames) /\ refunded \in SUBSET FrameNumbers
  BY NumbersType
<1>3. f = toCoproc[1] /\ f \in ToCoprocFrames /\ 1 \in DOMAIN toCoproc
  BY <1>2, WithoutFirst DEF Without
<1>4. f.epoch \in Nat /\ f.seq \in Nat
  BY <1>3, ToCoprocFields
<1>5. DataIn(toCoproc) = {Number(toCoproc[i]) : i \in {j \in DOMAIN toCoproc : IsData(toCoproc[j])}}
  BY <1>2, DataInType
<1>6. /\ Before(last, Number(f)) /\ Behind(last, Number(f))
      /\ expected # NoSequence => expected = last[2] + 1
      /\ \A x \in refunded : Before(x, last)
  <2>1. Number(f) \in DataIn(toCoproc)
    BY <1>3, <1>5
  <2> QED BY <1>1, <2>1 DEF Accounted
<1>7. Number(f) = <<f.epoch, f.seq>>
  BY DEF Number
<1>8. \A j \in DOMAIN toCoproc : j = 1 \/ 1 < j
  BY <1>2
<1>9. expected \in Nat \cup {NoSequence}
  BY DEF LinkTypeOK, CoprocTypeOK
<1> SUFFICES ASSUME NEW x \in MissingBefore(f) PROVE x \notin refunded /\ x \in dropped
  OBVIOUS
<1>10. PICK n \in Skipped(f.seq) : x = <<f.epoch, n>>
  BY DEF MissingBefore
<1>11. expected # NoSequence /\ n \in Nat /\ expected <= n /\ n < f.seq
  BY <1>4, <1>9, SkippedType
<1> HIDE DEF f
<1>12. x \in Places /\ Number(f) \in Places
  BY <1>4, <1>7, <1>10, <1>11 DEF Places
<1>13. Before(last, x)
  <2>1. last[1] \in Int /\ last[2] \in Int
    BY DEF Places
  <2>2. last[1] < f.epoch \/ last[1] = f.epoch
    BY <1>6, <1>7 DEF Before
  <2>3. last[2] < n
    BY <1>6, <1>11, <2>1
  <2> QED BY <1>10, <2>2, <2>3 DEF Before
<1>14. x \notin refunded
  BY <1>6, <1>12, <1>13, BeforeOrder
<1>15. x \in dropped \cup DataIn(toCoproc)
  BY <1>6, <1>7, <1>10, <1>11, <1>13 DEF Behind
<1>16. x \notin DataIn(toCoproc)
  <2> SUFFICES ASSUME NEW j \in DOMAIN toCoproc, IsData(toCoproc[j]),
                      x = Number(toCoproc[j])
               PROVE  FALSE
    BY <1>5
  <2>1. Before(x, Number(f))
    BY <1>4, <1>7, <1>10, <1>11 DEF Before
  <2>2. CASE j = 1
    BY <1>3, <1>12, <2>1, <2>2, BeforeOrder
  <2>3. CASE 1 < j
    <3>1. Before(Number(f), x)
      BY <1>3, <2>3 DEF Gaps, InOrder, f
    <3> QED BY <1>12, <2>1, <3>1, BeforeOrder
  <2> QED BY <1>8, <2>2, <2>3
<1> QED BY <1>14, <1>15, <1>16

LEMMA GapsData ==
    ASSUME LinkTypeOK, LinkTypeOK', Gaps, NEW kept \in 0 .. MaxRecords, HandleData(kept)
    PROVE  Gaps'
<1> DEFINE f == Head(toCoproc)
<1>1. /\ toCoproc # <<>> /\ IsData(f) /\ toCoproc' = Tail(toCoproc)
      /\ expected' = f.seq + 1 /\ refunded' = refunded \cup MissingBefore(f)
      /\ dropped' = dropped /\ epoch' = epoch /\ sequence' = sequence
  BY DEF HandleData, hostVars, IsData, MissingBefore
<1>2. /\ toCoproc \in Seq(ToCoprocFrames) /\ refunded \in SUBSET FrameNumbers
      /\ DataIn(toCoproc) \in SUBSET FrameNumbers /\ NextNumber \in FrameNumbers
  BY NumbersType
<1>3. /\ Without(toCoproc, 1, toCoproc') /\ toCoproc' \in Seq(ToCoprocFrames)
      /\ f = toCoproc[1] /\ f \in ToCoprocFrames
  BY <1>1, <1>2, WithoutFirst
<1>0. f.epoch \in Nat /\ f.seq \in Nat /\ Number(f) = <<f.epoch, f.seq>>
  BY <1>1, <1>3, ToCoprocFields DEF Number
<1>11. PICK next \in Places : next = Number(f)
  BY <1>0 DEF Places
<1>4. f.epoch \in Nat /\ f.seq \in Nat /\ next = <<f.epoch, f.seq>>
  BY <1>0, <1>11
<1>5. /\ DataIn(toCoproc') \subseteq DataIn(toCoproc)
      /\ \A x \in DataIn(toCoproc) : x \in DataIn(toCoproc') \/ x = next
  BY <1>1, <1>2, <1>3, <1>11, DataInWithout
<1>6. 1 \in DOMAIN toCoproc
  BY <1>2, <1>3 DEF Without
<1>7. /\ MissingBefore(f) \subseteq dropped
      /\ \A x \in MissingBefore(f) : Before(x, next)
  <2>1. MissingBefore(f) \subseteq dropped
    BY <1>1, MissingIsNew
  <2>2. \A n : n \in Skipped(f.seq) => n < f.seq
    <3>1. expected \in Nat \cup {NoSequence}
      BY DEF LinkTypeOK, CoprocTypeOK
    <3> QED BY <1>4, <3>1, SkippedType
  <2> QED BY <1>4, <2>1, <2>2 DEF MissingBefore, Before
<1>8. PICK last \in Places : Accounted(last)
  BY DEF Gaps
<1>9. next \in DataIn(toCoproc)
  BY <1>1, <1>2, <1>3, <1>6, <1>11, DataInType
<1>10. \A x \in DataIn(toCoproc') : Before(next, x)
  <2>1. /\ \A j \in DOMAIN toCoproc' : /\ Place(1, j) \in DOMAIN toCoproc
                                        /\ Place(1, j) # 1
                                        /\ toCoproc'[j] = toCoproc[Place(1, j)]
    BY <1>2, <1>3, WithoutPlaces
  <2>2. \A j \in DOMAIN toCoproc : j = 1 \/ 1 < j
    BY <1>2
  <2>3. DataIn(toCoproc') = {Number(toCoproc'[i]) : i \in {j \in DOMAIN toCoproc' : IsData(toCoproc'[j])}}
    BY <1>3, DataInType
  <2>4. ASSUME NEW j \in DOMAIN toCoproc', IsData(toCoproc'[j])
        PROVE  Before(next, Number(toCoproc'[j]))
    <3>1. 1 < Place(1, j) /\ Place(1, j) \in DOMAIN toCoproc
          /\ toCoproc'[j] = toCoproc[Place(1, j)]
      BY <2>1, <2>2
    <3> QED BY <1>1, <1>3, <1>6, <1>11, <2>4, <3>1 DEF Gaps, InOrder
  <2> QED BY <2>3, <2>4
<1> HIDE DEF f
<1>12. /\ Before(last, next) /\ Before(next, NextNumber)
       /\ \A x \in refunded : Before(x, last)
  BY <1>8, <1>9 DEF Accounted
<1>13. \A x \in refunded' : Before(x, next)
  <2>1. \A x \in refunded : x \in Places
    BY <1>2, NumbersArePlaces
  <2> QED BY <1>1, <1>7, <1>11, <1>12, <2>1, BeforeOrder
<1>14. ~Before(next, next)
  BY <1>11, BeforeOrder
<1>15. expected' = next[2] + 1
  BY <1>1, <1>4
<1>16. Accounted(next)'
  BY <1>1, <1>5, <1>8, <1>10, <1>11, <1>12, <1>13, <1>14, <1>15, FramesLeave
<1>17. InOrder(toCoproc')
  BY <1>2, <1>3, InOrderWithout DEF Gaps
<1>18. refunded' \subseteq dropped'
  BY <1>1, <1>7 DEF Gaps
<1> QED BY <1>16, <1>17, <1>18 DEF Gaps, InOrder

LEMMA GapsHello ==
    ASSUME LinkTypeOK, LinkTypeOK', Gaps, HandleHelloRequest
    PROVE  Gaps'
<1>1. /\ toCoproc # <<>> /\ Head(toCoproc).type = "HELLO" /\ toCoproc' = Tail(toCoproc)
      /\ expected' = NoSequence /\ dropped' = dropped
      /\ epoch' = epoch /\ sequence' = sequence
  BY HelloEnds
<1>2. refunded' \subseteq refunded
  <2>1. refunded' = {} \/ refunded' = refunded
    BY HelloEnds DEF Answered, NotAnswered, NoBuffer, OpensSession
  <2> QED BY <2>1
<1>3. toCoproc \in Seq(ToCoprocFrames)
  BY NumbersType
<1>4. /\ Without(toCoproc, 1, toCoproc') /\ toCoproc' \in Seq(ToCoprocFrames)
      /\ ~IsData(toCoproc[1])
  BY <1>1, <1>3, WithoutFirst DEF IsData
<1>5. /\ DataIn(toCoproc') \subseteq DataIn(toCoproc)
      /\ \A x \in DataIn(toCoproc) : x \in DataIn(toCoproc')
  BY <1>3, <1>4, DataInWithout
<1>6. InOrder(toCoproc')
  BY <1>3, <1>4, InOrderWithout DEF Gaps
<1>7. dropped \subseteq dropped'
  BY <1>1
<1> QED BY <1>1, <1>2, <1>5, <1>6, <1>7, GapsStay

(* A Hello or the next data frame is sent.                                 *)
LEMMA GapsSendHello ==
    ASSUME LinkTypeOK, LinkTypeOK', Gaps, toCoproc' = Append(toCoproc, HelloRequest),
           UNCHANGED <<epoch, sequence, expected, refunded, dropped>>
    PROVE  Gaps'
<1>1. toCoproc \in Seq(ToCoprocFrames) /\ HelloRequest \in ToCoprocFrames
  BY NumbersType, FramesMade
<1>2. ~IsData(HelloRequest)
  BY DEF IsData, HelloRequest
<1>3. InOrder(toCoproc') /\ DataIn(toCoproc') = DataIn(toCoproc)
  BY <1>1, <1>2, InOrderAppend DEF Gaps
<1>4. refunded' \subseteq refunded /\ dropped \subseteq dropped'
  OBVIOUS
<1> QED BY <1>3, <1>4, GapsStay

LEMMA GapsSendData ==
    ASSUME LinkTypeOK, LinkTypeOK', Gaps, NEW k \in Nat,
           toCoproc' = Append(toCoproc, Data(hSession, sequence, k)),
           sequence' = sequence + 1, UNCHANGED <<epoch, expected, refunded, dropped>>
    PROVE  Gaps'
<1> DEFINE f == Data(hSession, sequence, k)
<1>1. /\ toCoproc \in Seq(ToCoprocFrames) /\ NextNumber \in FrameNumbers
      /\ epoch \in Nat /\ sequence \in Nat /\ DataIn(toCoproc) \in SUBSET FrameNumbers
  BY NumbersType
<1>2. f \in ToCoprocFrames
  <2>1. hSession \in Nat
    BY DEF LinkTypeOK, HostTypeOK
  <2> QED BY <1>1, <2>1, FramesMade
<1>3. IsData(f) /\ Number(f) = NextNumber
  BY DEF Data, IsData, Number, NextNumber
<1> HIDE DEF f
<1>4. PICK last \in Places : Accounted(last)
  BY DEF Gaps
<1>5. \A x \in DataIn(toCoproc) : Before(last, x) /\ Before(x, NextNumber) /\ Behind(last, x)
  BY <1>4 DEF Accounted
<1>6. InOrder(toCoproc') /\ DataIn(toCoproc') = DataIn(toCoproc) \cup {NextNumber}
  BY <1>1, <1>2, <1>3, <1>5, InOrderAppend DEF Gaps, f
<1>7. NextNumber = <<epoch, sequence>> /\ NextNumber' = <<epoch, sequence + 1>>
  BY DEF NextNumber
<1>8. Before(NextNumber, NextNumber') /\ NextNumber \in Places /\ NextNumber' \in Places
  <2>1. NextNumber' \in Places
    BY <1>1, <1>7 DEF Places
  <2> QED BY <1>1, <1>7, <2>1, NumbersArePlaces DEF Before
<1>9. Before(last, NextNumber) /\ Behind(last, NextNumber)
  BY <1>4 DEF Accounted
<1>10. \A x : Behind(last, x) => Behind(last, x)'
  BY <1>6 DEF Behind
<1>11. Behind(last, NextNumber)'
  <2> SUFFICES ASSUME NEW n \in Nat, n < sequence + 1, Before(last, <<epoch, n>>)
               PROVE  <<epoch, n>> \in dropped' \cup DataIn(toCoproc')
    BY <1>7 DEF Behind
  <2>1. CASE n = sequence
    BY <1>6, <1>7, <2>1
  <2>2. CASE n < sequence
    <3>1. <<epoch, n>> \in dropped \cup DataIn(toCoproc)
      BY <1>7, <1>9, <2>2 DEF Behind
    <3> QED BY <1>6, <3>1
  <2> QED BY <1>1, <2>1, <2>2
<1>12. \A x \in DataIn(toCoproc') :
          Before(last, x) /\ Before(x, NextNumber') /\ Behind(last, x)'
  <2>1. \A x \in DataIn(toCoproc) : x \in Places
    BY <1>1, NumbersArePlaces
  <2>2. \A x \in DataIn(toCoproc) : Before(x, NextNumber')
    BY <1>5, <1>8, <2>1, BeforeOrder
  <2> QED BY <1>5, <1>6, <1>8, <1>9, <1>10, <2>2
<1>13. Before(last, NextNumber')
  BY <1>8, <1>9, BeforeOrder
<1>14. /\ expected' # NoSequence => expected' = last[2] + 1
       /\ \A x \in refunded' : Before(x, last)
  BY <1>4 DEF Accounted
<1>15. Accounted(last)'
  BY <1>11, <1>12, <1>13, <1>14 DEF Accounted
<1> QED BY <1>6, <1>15 DEF Gaps, InOrder

LEMMA GapsUntouched ==
    ASSUME LinkTypeOK, LinkTypeOK', Gaps,
           UNCHANGED <<toCoproc, dropped, expected, refunded>>,
           \/ epoch' = epoch /\ sequence' = sequence
           \/ epoch' = epoch + 1 /\ sequence' = 0
    PROVE  Gaps'
<1>1. InOrder(toCoproc') /\ DataIn(toCoproc') = DataIn(toCoproc)
  BY DEF Gaps
<1>2. refunded' \subseteq refunded /\ dropped \subseteq dropped'
  OBVIOUS
<1> QED BY <1>1, <1>2, GapsStay

LEMMA GapsLose ==
    ASSUME LinkTypeOK, LinkTypeOK', Gaps, NEW i \in DOMAIN toCoproc, LoseToCoproc(i)
    PROVE  Gaps'
<1>1. /\ toCoproc' = RemoveAt(toCoproc, i)
      /\ dropped' = dropped \cup DataIn(<<toCoproc[i]>>)
      /\ epoch' = epoch /\ sequence' = sequence /\ expected' = expected
      /\ refunded' = refunded
  BY DEF LoseToCoproc, hostVars, coprocVars
<1>2. toCoproc \in Seq(ToCoprocFrames)
  BY NumbersType
<1>3. /\ Without(toCoproc, i, toCoproc') /\ toCoproc' \in Seq(ToCoprocFrames)
      /\ toCoproc[i] \in ToCoprocFrames
  BY <1>1, <1>2, WithoutAny
<1>4. IsData(toCoproc[i]) => Number(toCoproc[i]) \in DataIn(<<toCoproc[i]>>)
  BY DEF DataIn, ToSet, IsData
<1>5. /\ DataIn(toCoproc') \subseteq DataIn(toCoproc)
      /\ \A x \in DataIn(toCoproc) :
            x \in DataIn(toCoproc') \/ (IsData(toCoproc[i]) /\ x = Number(toCoproc[i]))
  BY <1>2, <1>3, DataInWithout
<1>6. \A x \in DataIn(toCoproc) : x \in DataIn(toCoproc') \/ x \in dropped'
  BY <1>1, <1>4, <1>5
<1>7. InOrder(toCoproc')
  BY <1>2, <1>3, InOrderWithout DEF Gaps
<1>8. refunded' \subseteq refunded /\ dropped \subseteq dropped'
  BY <1>1
<1> QED BY <1>1, <1>5, <1>6, <1>7, <1>8, GapsStay

LEMMA GapsTransportLost ==
    ASSUME LinkTypeOK, LinkTypeOK', Gaps, TransportLost
    PROVE  Gaps'
<1>1. /\ epoch' = epoch + 1 /\ sequence' = 0 /\ expected' = expected
      /\ refunded' = refunded
      /\ \/ toCoproc' = toCoproc /\ dropped' = dropped
         \/ toCoproc' = <<>> /\ dropped' = dropped \cup DataIn(toCoproc)
  BY DEF TransportLost, ProcessTransportLost, coprocVars
<1>2. CASE toCoproc' = toCoproc /\ dropped' = dropped
  BY <1>1, <1>2, GapsUntouched
<1>3. CASE toCoproc' = <<>> /\ dropped' = dropped \cup DataIn(toCoproc)
  <2>1. DataIn(toCoproc') = {} /\ DOMAIN toCoproc' = {}
    BY <1>3 DEF DataIn, ToSet
  <2>2. InOrder(toCoproc')
    BY <2>1 DEF InOrder
  <2>3. refunded' \subseteq refunded /\ dropped \subseteq dropped'
    BY <1>1, <1>3
  <2>4. \A x \in DataIn(toCoproc) : x \in dropped'
    BY <1>3
  <2> QED BY <1>1, <2>1, <2>2, <2>3, <2>4, GapsStay
<1> QED BY <1>1, <1>2, <1>3

LEMMA GapsReboot ==
    ASSUME LinkTypeOK, LinkTypeOK', Gaps,
           NEW queued \in 0 .. Len(toCoproc), Reboot(queued)
    PROVE  Gaps'
<1>1. /\ toCoproc' = SubSeq(toCoproc, queued + 1, Len(toCoproc))
      /\ dropped' = dropped \cup DataIn(SubSeq(toCoproc, 1, queued))
      /\ epoch' = epoch /\ sequence' = sequence /\ expected' = NoSequence
      /\ refunded' = refunded
  BY DEF Reboot, hostVars
<1>2. toCoproc \in Seq(ToCoprocFrames)
  BY NumbersType
<1>3. /\ DataIn(toCoproc') \subseteq DataIn(toCoproc)
      /\ \A x \in DataIn(toCoproc) : x \in DataIn(toCoproc') \/ x \in dropped'
      /\ InOrder(toCoproc')
  BY <1>1, <1>2, DataInRest DEF Gaps
<1>4. refunded' \subseteq refunded /\ dropped \subseteq dropped'
  BY <1>1
<1> QED BY <1>1, <1>3, <1>4, GapsStay

LEMMA GapsInit == LinkInit => Gaps
<1> SUFFICES ASSUME LinkInit PROVE Gaps
  OBVIOUS
<1> DEFINE last == <<0, -1>>
<1>1. /\ epoch = 0 /\ sequence = 0 /\ expected = NoSequence /\ refunded = {}
      /\ toCoproc = <<HelloRequest>>
  BY DEF LinkInit
<1>2. DataIn(toCoproc) = {} /\ \A i \in DOMAIN toCoproc : ~IsData(toCoproc[i])
  BY <1>1 DEF DataIn, ToSet, IsData, HelloRequest
<1>3. Before(last, NextNumber) /\ last \in Places
  BY <1>1 DEF Before, NextNumber, Places
<1>4. Behind(last, NextNumber)
  <2>1. NextNumber[2] = 0 /\ \A n \in Nat : ~(n < 0)
    BY <1>1 DEF NextNumber
  <2> QED BY <2>1 DEF Behind
<1> HIDE DEF last
<1>5. Accounted(last)
  BY <1>1, <1>2, <1>3, <1>4 DEF Accounted
<1>6. InOrder(toCoproc)
  BY <1>2 DEF InOrder
<1> QED BY <1>1, <1>3, <1>5, <1>6 DEF Gaps

LEMMA GapsStep ==
    ASSUME LinkTypeOK, LinkTypeOK', Gaps, [LinkNext]_sessionVars
    PROVE  Gaps'
<1>1. CASE Admit \/ HandleHelloResponse \/ HandleCreditUpdate \/ HandleHeartbeat
              \/ HandleTransportStopped \/ EmitHeartbeat \/ CoprocCongested \/ CoprocCreditUpdate
              \/ UNCHANGED sessionVars
  <2>1. UNCHANGED <<toCoproc, dropped, expected, refunded, epoch, sequence>>
    BY <1>1
    DEF Admit, HandleHelloResponse, HandleCreditUpdate, HandleHeartbeat,
        HandleTransportStopped, EmitHeartbeat, CoprocCongested,
        CoprocCreditUpdate, sessionVars, hostVars, coprocVars, ledger
  <2> QED BY <2>1, GapsUntouched
<1>2. CASE (\E k \in 1 .. unreturned : ReturnUnits(k)) \/ \E i \in DOMAIN toHost : LoseToHost(i)
  <2>1. UNCHANGED <<toCoproc, dropped, expected, refunded, epoch, sequence>>
    BY <1>2 DEF ReturnUnits, LoseToHost, hostVars, coprocVars, ledger
  <2> QED BY <2>1, GapsUntouched
<1>3. CASE HeartbeatTimeout
  <2>1. /\ UNCHANGED <<toCoproc, dropped, expected, refunded>>
        /\ epoch' = epoch + 1 /\ sequence' = 0
    BY <1>3 DEF HeartbeatTimeout, ProcessTransportLost, coprocVars, ledger
  <2> QED BY <2>1, GapsUntouched
<1>4. CASE HandleSessionMismatch \/ HandleTransportStarted
  <2>1. /\ toCoproc' = Append(toCoproc, HelloRequest)
        /\ UNCHANGED <<epoch, sequence, expected, refunded, dropped>>
    BY <1>4 DEF HandleSessionMismatch, HandleTransportStarted, SendHello, coprocVars, ledger
  <2> QED BY <2>1, GapsSendHello
<1>5. ASSUME NEW k \in 1 .. MaxRecords, HandleEthernetTx(k) PROVE Gaps'
  <2>1. /\ UNCHANGED <<epoch, expected, refunded, dropped>>
        /\ \/ UNCHANGED <<toCoproc, sequence>>
           \/ /\ toCoproc' = Append(toCoproc, Data(hSession, sequence, k))
              /\ sequence' = sequence + 1
    BY <1>5 DEF HandleEthernetTx, coprocVars, ledger
  <2> QED BY <2>1, GapsUntouched, GapsSendData
<1>6. CASE CoprocReceives
  BY <1>6, GapsHello, GapsData DEF CoprocReceives
<1>7. ASSUME NEW i \in DOMAIN toCoproc, LoseToCoproc(i) PROVE Gaps'
  BY <1>7, GapsLose
<1>8. ASSUME NEW queued \in 0 .. Len(toCoproc), Reboot(queued) PROVE Gaps'
  BY <1>8, GapsReboot
<1>9. CASE TransportLost
  BY <1>9, GapsTransportLost
<1>10. CASE HostReceives
  BY <1>1, <1>4, <1>10 DEF HostReceives
<1>11. CASE Fault
  BY <1>1, <1>2, <1>7, <1>8, <1>9, <1>11 DEF Fault
<1> QED
  BY <1>1, <1>2, <1>3, <1>4, <1>5, <1>6, <1>10, <1>11 DEF LinkNext, HostTransmits

-----------------------------------------------------------------------------
LinkInv == LinkTypeOK /\ Ledger /\ Gaps

LEMMA LinkInvStep ==
    LinkInv /\ [LinkNext]_sessionVars => LinkInv'
<1> SUFFICES ASSUME LinkInv, [LinkNext]_sessionVars PROVE LinkInv'
  OBVIOUS
<1>1. LinkTypeOK /\ Ledger /\ Gaps
  BY DEF LinkInv
<1>2. LinkTypeOK'
  BY <1>1, LinkTypeStep
<1>3. Gaps'
  BY <1>1, <1>2, GapsStep
<1>4. \A kept \in 0 .. MaxRecords : HandleData(kept)
         => MissingBefore(Head(toCoproc)) \cap refunded = {}
  <2> SUFFICES ASSUME NEW kept \in 0 .. MaxRecords, HandleData(kept)
               PROVE  MissingBefore(Head(toCoproc)) \cap refunded = {}
    OBVIOUS
  <2>1. toCoproc # <<>> /\ IsData(Head(toCoproc))
    BY DEF HandleData, IsData
  <2> QED BY <1>1, <2>1, MissingIsNew
<1>5. Ledger'
  BY <1>1, <1>2, <1>4, LedgerStep
<1> QED BY <1>2, <1>3, <1>5 DEF LinkInv

LEMMA LinkInvConserves == LinkInv => CreditConserved
<1> SUFFICES ASSUME LinkInv, Agree PROVE CreditConserved
  BY DEF CreditConserved
<1>1. WindowKept /\ refunded \subseteq dropped /\ hSession = cSession
  BY DEF LinkInv, Ledger, InAgreement, Gaps, Agree
<1> QED BY <1>1 DEF WindowKept, CreditConserved

(* While both cores are in a session, every unit of its window is with the *)
(* Host, under way, with the Coprocessor or lost with a frame, and what    *)
(* there is beyond the window are units of records charged elsewhere and   *)
(* at most one refund for a frame that was lost.                           *)
THEOREM CreditIsConserved == LinkSpec => []CreditConserved
<1>1. LinkInit => LinkInv
  BY LinkTypeInit, LedgerInit, GapsInit DEF LinkInv
<1> QED BY <1>1, LinkInvStep, LinkInvConserves, PTL DEF LinkSpec

HIDE LinkSessionAssumption

-----------------------------------------------------------------------------
(***************************************************************************)
(* PosixObjects: its safety properties, and that it implements             *)
(* OsalContract, for every set of threads and every capacity and limit.    *)
(***************************************************************************)

USE OsalCallsAssumption, PosixObjectsAssumption

-----------------------------------------------------------------------------
(* The inductive invariant.                                                *)

PcValues == {"idle", "locking", "holding", "waiting", "woken", "late", "leaving"}

DataTypeOK ==
    /\ kind \in Kinds
    /\ storage \in [0 .. Capacity - 1 -> Items] /\ head \in 0 .. Capacity - 1
    /\ count \in Nat /\ bits \in SUBSET Bits
    /\ kind = "queue" => count <= Capacity
    /\ kind = "semaphore" => count <= Maximum

ThreadTypeOK ==
    /\ owner \in Threads \cup {Nobody}
    /\ call \in [Threads -> CallsOf(kind) \cup {NoCall}]
    /\ pc \in [Threads -> PcValues]
    /\ result \in [Threads -> Results]
    /\ swallowed \in BOOLEAN

(* Who holds the mutex, and nobody else, is past locking it.               *)
MutexHeld == \A t \in Threads : pc[t] \in {"holding", "leaving"} <=> owner = t

(* A thread is in a call until it is idle again; only one with a deadline  *)
(* can be late.                                                            *)
InCall == \A t \in Threads :
    /\ call[t] = NoCall <=> pc[t] = "idle"
    /\ pc[t] \in {"late", "leaving"} => call[t].timeout = "TIMED"

PosixInv == DataTypeOK /\ ThreadTypeOK /\ MutexHeld /\ InCall

-----------------------------------------------------------------------------
(* The calls on an object.                                                 *)

LEMMA CallFields ==
    ASSUME NEW k \in Kinds, NEW c \in CallsOf(k)
    PROVE  /\ c.op \in {"send", "receive"} <=> k = "queue"
           /\ c.op \in {"take", "give"} <=> k = "semaphore"
           /\ c.op \in {"wait", "set"} <=> k = "event"
           /\ c.op # "none" /\ c # NoCall /\ c.timeout \in Timeouts
           /\ c.op \in {"give", "set"} => c.timeout = "FOREVER"
           /\ c.op = "send" => c.item \in Items
           /\ c.op \in {"wait", "set"} => c.bits \in SUBSET Bits
<1>1. CASE k = "queue"
  <2>1. c \in QueueCalls
    BY <1>1 DEF CallsOf
  <2> QED BY <1>1, <2>1 DEF QueueCalls, NoCall
<1>2. CASE k = "semaphore"
  <2>1. c \in SemaphoreCalls
    BY <1>2 DEF CallsOf
  <2> QED BY <1>2, <2>1 DEF SemaphoreCalls, NoCall, Timeouts
<1>3. CASE k = "event"
  <2>1. c \in EventCalls
    BY <1>3 DEF CallsOf
  <2> QED BY <1>3, <2>1 DEF EventCalls, NoCall, Timeouts
<1> QED BY <1>1, <1>2, <1>3 DEF Kinds

(* The call a thread that is not idle is in.                               *)
LEMMA CallUnderWay ==
    ASSUME PosixInv, NEW t \in Threads, pc[t] # "idle"
    PROVE  /\ kind \in Kinds /\ call[t] \in CallsOf(kind) /\ call[t] # NoCall
           /\ call[t].op \in {"send", "receive"} <=> kind = "queue"
           /\ call[t].op \in {"take", "give"} <=> kind = "semaphore"
           /\ call[t].op \in {"wait", "set"} <=> kind = "event"
           /\ call[t].timeout \in Timeouts
           /\ call[t].op \in {"give", "set"} => call[t].timeout = "FOREVER"
           /\ call[t].op = "send" => call[t].item \in Items
           /\ call[t].op \in {"wait", "set"} => call[t].bits \in SUBSET Bits
<1>1. kind \in Kinds
  BY DEF PosixInv, DataTypeOK
<1>2. call[t] \in CallsOf(kind) /\ call[t] # NoCall
  BY DEF PosixInv, ThreadTypeOK, InCall
<1> QED BY <1>1, <1>2, CallFields

-----------------------------------------------------------------------------
(* The moves of the threads.                                               *)

(* A signal wakes threads that wait, and may come with their deadline.     *)
Wakes(op, u) ==
    \/ pc'[u] = pc[u]
    \/ /\ pc[u] = "waiting" /\ call[u].op = op
       /\ pc'[u] = "woken" \/ (pc'[u] = "late" /\ call[u].timeout = "TIMED")

(* Thread t is done with r, lets go of the mutex and signals.              *)
Ends(t, r, op) ==
    /\ pc[t] \in {"holding", "leaving"} /\ r \in Results
    /\ owner' = Nobody /\ Returns(t, r)
    /\ pc' \in [Threads -> PcValues] /\ pc'[t] = "idle"
    /\ \A u \in Threads \ {t} : Wakes(op, u)
    /\ swallowed' \in BOOLEAN

Silent(t, r) ==
    /\ pc[t] \in {"holding", "leaving"} /\ Unlocks(t, r)
    /\ pc' = [pc EXCEPT ![t] = "idle"] /\ UNCHANGED swallowed

LEMMA EndsSilently ==
    ASSUME PosixInv, NEW t \in Threads, NEW r \in Results, Silent(t, r)
    PROVE  \A op : Ends(t, r, op)
<1> USE DEF Silent
<1>1. pc \in [Threads -> PcValues] /\ swallowed \in BOOLEAN /\ "idle" \in PcValues
  BY DEF PosixInv, ThreadTypeOK, PcValues
<1>2. pc' \in [Threads -> PcValues] /\ pc'[t] = "idle"
  BY <1>1
<1>3. swallowed' \in BOOLEAN
  BY <1>1
<1>4. \A op : \A u \in Threads \ {t} : Wakes(op, u)
  BY <1>1 DEF Wakes
<1> QED BY <1>2, <1>3, <1>4, Zenon DEF Ends, Unlocks

LEMMA EndsWithSignal ==
    ASSUME PosixInv, NEW t \in Threads, NEW r \in Results, NEW op,
           pc[t] = "holding", Unlocks(t, r), Signal(t, op)
    PROVE  Ends(t, r, op)
<1>1. pc \in [Threads -> PcValues] /\ swallowed \in BOOLEAN
      /\ "idle" \in PcValues /\ "woken" \in PcValues /\ "late" \in PcValues
  BY DEF PosixInv, ThreadTypeOK, PcValues
<1>2. CASE pc' = [pc EXCEPT ![t] = "idle"] /\ UNCHANGED swallowed
  <2>1. Silent(t, r)
    BY <1>2 DEF Silent
  <2> QED BY <2>1, EndsSilently
<1>3. ASSUME NEW w \in Waiters(op), NEW p,
             p = "woken" \/ (p = "late" /\ call[w].timeout = "TIMED"),
             pc' = [pc EXCEPT ![t] = "idle", ![w] = p], swallowed' \in BOOLEAN
      PROVE  Ends(t, r, op)
  <2>1. w \in Threads /\ w # t /\ pc[w] = "waiting" /\ call[w].op = op
    BY DEF Waiters
  <2>2. p \in PcValues
    BY <1>1, <1>3
  <2>3. pc' \in [Threads -> PcValues] /\ pc'[t] = "idle" /\ pc'[w] = p
        /\ \A u \in Threads \ {t, w} : pc'[u] = pc[u]
    BY <1>1, <1>3, <2>1, <2>2
  <2>4. \A u \in Threads \ {t} : Wakes(op, u)
    BY <1>3, <2>1, <2>3 DEF Wakes
  <2> QED BY <1>3, <2>3, <2>4 DEF Ends, Unlocks
<1>4. ASSUME NEW w \in Waiters(op), pc' = [pc EXCEPT ![t] = "idle", ![w] = "woken"],
             UNCHANGED swallowed
      PROVE  Ends(t, r, op)
  BY <1>1, <1>3, <1>4
<1>5. ASSUME NEW w \in Waiters(op), pc' = [pc EXCEPT ![t] = "idle", ![w] = "late"],
             call[w].timeout = "TIMED", swallowed' = (swallowed \/ Waiters(op) # {w})
      PROVE  Ends(t, r, op)
  <2>1. swallowed' \in BOOLEAN
    BY <1>5, Zenon
  <2> QED BY <1>3, <1>5, <2>1
<1> QED BY <1>2, <1>4, <1>5 DEF Signal

(* The end of a call keeps the invariant when the data it leaves is typed. *)
LEMMA EndKeepsInv ==
    ASSUME PosixInv, NEW t \in Threads, NEW r, NEW op, Ends(t, r, op),
           kind' = kind, DataTypeOK'
    PROVE  PosixInv'
<1>1. /\ call' = [call EXCEPT ![t] = NoCall] /\ result' = [result EXCEPT ![t] = r]
      /\ owner' = Nobody /\ pc'[t] = "idle" /\ pc' \in [Threads -> PcValues]
      /\ swallowed' \in BOOLEAN /\ r \in Results /\ pc[t] \in {"holding", "leaving"}
  BY DEF Ends, Returns
<1>2. call \in [Threads -> CallsOf(kind) \cup {NoCall}] /\ result \in [Threads -> Results]
      /\ pc \in [Threads -> PcValues]
  BY DEF PosixInv, ThreadTypeOK
<1>3. call' \in [Threads -> CallsOf(kind) \cup {NoCall}] /\ result' \in [Threads -> Results]
      /\ call'[t] = NoCall /\ \A u \in Threads \ {t} : call'[u] = call[u]
  BY <1>1, <1>2
<1>4. ThreadTypeOK'
  BY <1>1, <1>3 DEF ThreadTypeOK
<1>5. owner = t /\ \A u \in Threads \ {t} : pc[u] \notin {"holding", "leaving"}
  BY <1>1 DEF PosixInv, MutexHeld
<1>6. \A u \in Threads \ {t} : Wakes(op, u)
  BY DEF Ends
<1>7. MutexHeld'
  <2> SUFFICES ASSUME NEW u \in Threads PROVE pc'[u] \notin {"holding", "leaving"}
    BY <1>1 DEF MutexHeld
  <2> QED BY <1>1, <1>5, <1>6 DEF Wakes
<1>8. InCall'
  <2> SUFFICES ASSUME NEW u \in Threads
               PROVE  /\ call'[u] = NoCall <=> pc'[u] = "idle"
                      /\ pc'[u] \in {"late", "leaving"} => call'[u].timeout = "TIMED"
    BY DEF InCall
  <2>1. CASE u = t
    BY <1>1, <1>3, <2>1
  <2>2. CASE u # t
    <3>1. call'[u] = call[u] /\ Wakes(op, u)
      BY <1>3, <1>6, <2>2
    <3>2. /\ call[u] = NoCall <=> pc[u] = "idle"
          /\ pc[u] \in {"late", "leaving"} => call[u].timeout = "TIMED"
      BY DEF PosixInv, InCall
    <3> QED BY <3>1, <3>2 DEF Wakes
  <2> QED BY <2>1, <2>2
<1> QED BY <1>4, <1>7, <1>8 DEF PosixInv

-----------------------------------------------------------------------------
(* The invariant is kept.                                                  *)

LEMMA PosixInvInit == PosixInit => PosixInv
<1> SUFFICES ASSUME PosixInit PROVE PosixInv
  OBVIOUS
<1>1. DataTypeOK
  <2>1. 0 \in 0 .. Capacity - 1
    OBVIOUS
  <2>2. count \in Nat /\ (kind = "queue" => count = 0) /\ (kind = "semaphore" => count <= Maximum)
    BY DEF PosixInit, Kinds
  <2> QED BY <2>1, <2>2 DEF PosixInit, DataTypeOK
<1>2. ThreadTypeOK
  BY DEF PosixInit, ThreadTypeOK, PcValues, Done, Results
<1>3. MutexHeld /\ InCall
  BY DEF PosixInit, MutexHeld, InCall
<1> QED BY <1>1, <1>2, <1>3 DEF PosixInv

(* A move of thread t that leaves the calls and the data alone.            *)
LEMMA MoveKeepsInv ==
    ASSUME PosixInv, NEW t \in Threads, NEW p \in PcValues, p # "idle", pc[t] # "idle",
           UNCHANGED <<dataVars, call, result, swallowed>>,
           pc' = [pc EXCEPT ![t] = p],
           p \in {"late", "leaving"} => call[t].timeout = "TIMED",
           \/ owner' = owner /\ pc[t] \notin {"holding", "leaving"}
                             /\ p \notin {"holding", "leaving"}
           \/ owner = Nobody /\ owner' = t /\ p \in {"holding", "leaving"}
           \/ owner' = Nobody /\ pc[t] \in {"holding", "leaving"}
                              /\ p \notin {"holding", "leaving"}
    PROVE  PosixInv'
<1>1. DataTypeOK'
  BY DEF PosixInv, DataTypeOK, dataVars
<1>2. pc' \in [Threads -> PcValues] /\ pc'[t] = p /\ \A u \in Threads \ {t} : pc'[u] = pc[u]
  BY DEF PosixInv, ThreadTypeOK
<1>3. owner' \in Threads \cup {Nobody}
  BY DEF PosixInv, ThreadTypeOK
<1>4. ThreadTypeOK'
  BY <1>2, <1>3 DEF PosixInv, ThreadTypeOK, dataVars
<1>5. MutexHeld'
  <2>1. \A u \in Threads : pc[u] \in {"holding", "leaving"} <=> owner = u
    BY DEF PosixInv, MutexHeld
  <2> SUFFICES ASSUME NEW u \in Threads
               PROVE  pc'[u] \in {"holding", "leaving"} <=> owner' = u
    BY DEF MutexHeld
  <2>2. CASE u = t
    BY <1>2, <2>1, <2>2
  <2>3. CASE u # t
    BY <1>2, <2>1, <2>3
  <2> QED BY <2>2, <2>3
<1>6. InCall'
  <2> SUFFICES ASSUME NEW u \in Threads
               PROVE  /\ call'[u] = NoCall <=> pc'[u] = "idle"
                      /\ pc'[u] \in {"late", "leaving"} => call'[u].timeout = "TIMED"
    BY DEF InCall
  <2>1. /\ call[u] = NoCall <=> pc[u] = "idle"
        /\ pc[u] \in {"late", "leaving"} => call[u].timeout = "TIMED"
    BY DEF PosixInv, InCall
  <2> QED BY <1>2, <2>1
<1> QED BY <1>1, <1>4, <1>5, <1>6 DEF PosixInv

LEMMA BeginKeepsInv ==
    ASSUME PosixInv, NEW t \in Threads, Begin(t) PROVE PosixInv'
<1>1. PICK c \in CallsOf(kind) : call' = [call EXCEPT ![t] = c]
  BY DEF Begin
<1>2. /\ UNCHANGED <<dataVars, owner, swallowed>> /\ pc[t] = "idle"
      /\ pc' = [pc EXCEPT ![t] = "locking"] /\ result' = [result EXCEPT ![t] = Done({})]
  BY DEF Begin
<1>3. DataTypeOK'
  BY <1>2 DEF PosixInv, DataTypeOK, dataVars
<1>4. Done({}) \in Results /\ "locking" \in PcValues
  BY DEF Done, Results, PcValues
<1>5. /\ call' \in [Threads -> CallsOf(kind) \cup {NoCall}] /\ call'[t] = c
      /\ pc' \in [Threads -> PcValues] /\ pc'[t] = "locking"
      /\ \A u \in Threads \ {t} : call'[u] = call[u] /\ pc'[u] = pc[u]
      /\ result' \in [Threads -> Results]
  BY <1>1, <1>2, <1>4 DEF PosixInv, ThreadTypeOK
<1>6. ThreadTypeOK'
  BY <1>2, <1>5 DEF PosixInv, ThreadTypeOK, dataVars
<1>7. MutexHeld'
  BY <1>2, <1>5 DEF PosixInv, MutexHeld
<1>8. c # NoCall
  BY CallFields DEF PosixInv, DataTypeOK
<1>9. InCall'
  BY <1>5, <1>8 DEF PosixInv, InCall
<1> QED BY <1>3, <1>6, <1>7, <1>9 DEF PosixInv

LEMMA LockFailsKeepsInv ==
    ASSUME PosixInv, NEW t \in Threads, LockFails(t) PROVE PosixInv'
<1>1. /\ pc[t] = "locking" /\ UNCHANGED <<dataVars, owner, swallowed>>
      /\ pc' = [pc EXCEPT ![t] = "idle"] /\ call' = [call EXCEPT ![t] = NoCall]
      /\ result' = [result EXCEPT ![t] = Failed]
  BY DEF LockFails, Returns
<1>2. DataTypeOK'
  BY <1>1 DEF PosixInv, DataTypeOK, dataVars
<1>3. Failed \in Results /\ "idle" \in PcValues
  BY DEF Failed, Results, PcValues
<1>4. /\ call' \in [Threads -> CallsOf(kind) \cup {NoCall}] /\ call'[t] = NoCall
      /\ pc' \in [Threads -> PcValues] /\ pc'[t] = "idle"
      /\ \A u \in Threads \ {t} : call'[u] = call[u] /\ pc'[u] = pc[u]
      /\ result' \in [Threads -> Results]
  BY <1>1, <1>3 DEF PosixInv, ThreadTypeOK
<1>5. ThreadTypeOK'
  BY <1>1, <1>4 DEF PosixInv, ThreadTypeOK, dataVars
<1>6. MutexHeld'
  BY <1>1, <1>4 DEF PosixInv, MutexHeld
<1>7. InCall'
  BY <1>4 DEF PosixInv, InCall
<1> QED BY <1>2, <1>5, <1>6, <1>7 DEF PosixInv

(* How the calls that take effect, and those that are refused, end.        *)
LEMMA EffectsEnd ==
    ASSUME PosixInv, NEW t \in Threads
    PROVE  /\ GiveUp(t) \/ Leave(t) => Ends(t, Failed, "none")
           /\ Send(t)      => Ends(t, Done({}), "receive")
           /\ Receive(t)   => Ends(t, Done({storage[head]}), "send")
           /\ Take(t)      => Ends(t, Done({}), "none")
           /\ Give(t)      => IF count < Maximum THEN Ends(t, Done({}), "take")
                                                 ELSE Ends(t, Failed, "none")
           /\ AwaitBits(t) => Ends(t, Done(bits \cap call[t].bits), "none")
           /\ SetBits(t)   => Ends(t, Done({}), "wait")
<1>1. Failed \in Results /\ Done({}) \in Results /\ Done(bits \cap call[t].bits) \in Results
      /\ Done({storage[head]}) \in Results
  <2>1. bits \in SUBSET Bits /\ storage[head] \in Items
    BY DEF PosixInv, DataTypeOK
  <2> QED BY <2>1 DEF Failed, Done, Results
<1>2. GiveUp(t) \/ Leave(t) => Ends(t, Failed, "none")
  <2>1. GiveUp(t) \/ Leave(t) => Silent(t, Failed)
    BY DEF GiveUp, Leave, Unlocks, Silent
  <2> QED BY <1>1, <2>1, EndsSilently
<1>3. Send(t) => Ends(t, Done({}), "receive")
  BY <1>1, EndsWithSignal DEF Send, Holds
<1>4. Receive(t) => Ends(t, Done({storage[head]}), "send")
  BY <1>1, EndsWithSignal DEF Receive, Holds
<1>5. Take(t) => Ends(t, Done({}), "none")
  <2>1. Take(t) => Silent(t, Done({}))
    BY DEF Take, Holds, Silent
  <2> QED BY <1>1, <2>1, EndsSilently
<1>6. Give(t) => IF count < Maximum THEN Ends(t, Done({}), "take")
                                    ELSE Ends(t, Failed, "none")
  <2> SUFFICES ASSUME Give(t)
               PROVE  IF count < Maximum THEN Ends(t, Done({}), "take")
                                         ELSE Ends(t, Failed, "none")
    OBVIOUS
  <2>1. pc[t] = "holding" /\ pc[t] \in {"holding", "leaving"}
    BY DEF Give, Holds
  <2>2. CASE count < Maximum
    <3>1. Unlocks(t, Done({})) /\ Signal(t, "take")
      BY <2>2 DEF Give
    <3> QED BY <1>1, <2>1, <2>2, <3>1, EndsWithSignal
  <2>3. CASE ~(count < Maximum)
    <3>1. Silent(t, Failed)
      BY <2>1, <2>3 DEF Give, Silent
    <3> QED BY <1>1, <2>3, <3>1, EndsSilently
  <2> QED BY <2>2, <2>3
<1>7. AwaitBits(t) => Ends(t, Done(bits \cap call[t].bits), "none")
  <2>1. AwaitBits(t) => Silent(t, Done(bits \cap call[t].bits))
    BY DEF AwaitBits, Holds, Silent
  <2> QED BY <1>1, <2>1, EndsSilently
<1>8. SetBits(t) => Ends(t, Done({}), "wait")
  <2> SUFFICES ASSUME SetBits(t) PROVE Ends(t, Done({}), "wait")
    OBVIOUS
  <2>1. /\ pc[t] = "holding" /\ owner' = Nobody /\ Returns(t, Done({}))
        /\ swallowed' = swallowed
        /\ pc' = [u \in Threads |-> IF u = t THEN "idle"
                       ELSE IF u \in Waiters("wait") THEN "woken" ELSE pc[u]]
    BY DEF SetBits, Holds, Unlocks
  <2>2. pc \in [Threads -> PcValues] /\ swallowed \in BOOLEAN
        /\ "idle" \in PcValues /\ "woken" \in PcValues
    BY DEF PosixInv, ThreadTypeOK, PcValues
  <2>3. pc' \in [Threads -> PcValues] /\ pc'[t] = "idle"
    BY <2>1, <2>2
  <2>4. \A u \in Threads \ {t} : Wakes("wait", u)
    BY <2>1 DEF Wakes, Waiters
  <2> QED BY <1>1, <2>1, <2>2, <2>3, <2>4 DEF Ends
<1> QED BY <1>2, <1>3, <1>4, <1>5, <1>6, <1>7, <1>8

(* The places of the ring follow each other, and the first follows the     *)
(* last.                                                                   *)
LEMMA RingPlace ==
    ASSUME NEW h \in 0 .. Capacity - 1, NEW i \in 0 .. Capacity
    PROVE  (h + i) % Capacity = IF h + i < Capacity THEN h + i ELSE h + i - Capacity
<1>1. PICK n \in Nat \ {0} : n = Capacity
  OBVIOUS
<1>2. PICK j \in 0 .. 2 * n - 1 : j = h + i
  BY <1>1
<1>3. j % n = IF j < n THEN j ELSE j - n
  <2>1. CASE j < n
    BY <2>1
  <2>2. CASE j >= n
    BY <2>2, SMTT(60)
  <2> QED BY <2>1, <2>2
<1>4. (h + i) % Capacity = j % n
  BY <1>1, <1>2, Zenon
<1> QED BY <1>1, <1>2, <1>3, <1>4

(* The objects stay within their limits.                                   *)
LEMMA EffectsKeepData ==
    ASSUME PosixInv, NEW t \in Threads,
           \/ GiveUp(t) \/ Leave(t) \/ Send(t) \/ Receive(t) \/ Take(t)
           \/ Give(t) \/ AwaitBits(t) \/ SetBits(t)
    PROVE  kind' = kind /\ DataTypeOK'
<1> USE DEF DataTypeOK
<1>1. DataTypeOK
  BY DEF PosixInv
<1>2. CASE GiveUp(t) \/ Leave(t)
  BY <1>1, <1>2 DEF GiveUp, Leave, dataVars
<1>3. CASE Send(t)
  <2>1. /\ pc[t] # "idle" /\ call[t].op = "send" /\ count < Capacity
        /\ storage' = [storage EXCEPT ![TailSlot] = call[t].item] /\ count' = count + 1
        /\ UNCHANGED <<kind, head, bits>>
    BY <1>3 DEF Send, Holds, Ready
  <2>2. call[t].item \in Items /\ kind = "queue"
    BY <2>1, CallUnderWay
  <2>3. storage' \in [0 .. Capacity - 1 -> Items]
    BY <1>1, <2>1, <2>2
  <2> QED BY <1>1, <2>1, <2>2, <2>3
<1>4. CASE Receive(t)
  <2>1. /\ count > 0 /\ head' = (head + 1) % Capacity /\ count' = count - 1
        /\ UNCHANGED <<kind, storage, bits>>
    BY <1>4 DEF Receive, Holds, Ready
  <2>2. head' \in 0 .. Capacity - 1
    <3>1. head \in 0 .. Capacity - 1 /\ 1 \in 0 .. Capacity
      BY <1>1
    <3> HIDE DEF DataTypeOK
    <3>2. (head + 1) % Capacity = IF head + 1 < Capacity THEN head + 1 ELSE head + 1 - Capacity
      BY <3>1, RingPlace, Zenon
    <3> QED BY <2>1, <3>1, <3>2
  <2> QED BY <1>1, <2>1, <2>2
<1>5. CASE Take(t)
  <2>1. count > 0 /\ count' = count - 1 /\ UNCHANGED <<kind, storage, head, bits>>
    BY <1>5 DEF Take, Holds, Ready
  <2> QED BY <1>1, <2>1
<1>6. CASE Give(t)
  <2>1. /\ pc[t] # "idle" /\ call[t].op = "give"
        /\ count' = count \/ (count < Maximum /\ count' = count + 1)
        /\ UNCHANGED <<kind, storage, head, bits>>
    BY <1>6 DEF Give, Holds
  <2>2. kind = "semaphore"
    BY <2>1, CallUnderWay
  <2> QED BY <1>1, <2>1, <2>2
<1>7. CASE AwaitBits(t)
  BY <1>1, <1>7 DEF AwaitBits
<1>8. CASE SetBits(t)
  <2>1. /\ pc[t] # "idle" /\ call[t].op = "set" /\ bits' = bits \cup call[t].bits
        /\ UNCHANGED <<kind, storage, head, count>>
    BY <1>8 DEF SetBits, Holds
  <2>2. call[t].bits \in SUBSET Bits
    BY <2>1, CallUnderWay
  <2> QED BY <1>1, <2>1, <2>2
<1> QED BY <1>2, <1>3, <1>4, <1>5, <1>6, <1>7, <1>8

LEMMA PosixInvStep == PosixInv /\ [PosixNext]_posixVars => PosixInv'
<1> SUFFICES ASSUME PosixInv, [PosixNext]_posixVars PROVE PosixInv'
  OBVIOUS
<1>1. CASE UNCHANGED posixVars
  BY <1>1 DEF posixVars, dataVars, PosixInv, DataTypeOK, ThreadTypeOK, MutexHeld, InCall
<1>2. ASSUME NEW t \in Threads, Step(t) PROVE PosixInv'
  <2>1. CASE Begin(t)
    BY <2>1, BeginKeepsInv
  <2>2. CASE LockFails(t)
    BY <2>2, LockFailsKeepsInv
  <2>3. CASE Lock(t)
    <3>1. pc[t] = "late" => call[t].timeout = "TIMED"
      BY DEF PosixInv, InCall
    <3>2. CASE pc[t] = "late"
      BY <2>3, <3>1, <3>2, MoveKeepsInv DEF Lock, PcValues
    <3>3. CASE pc[t] # "late"
      BY <2>3, <3>3, MoveKeepsInv DEF Lock, PcValues
    <3> QED BY <3>2, <3>3
  <2>4. CASE Wait(t)
    BY <2>4, MoveKeepsInv DEF Wait, PcValues
  <2>5. CASE TimesOut(t)
    BY <2>5, MoveKeepsInv DEF TimesOut, PcValues
  <2>6. CASE WakesSpuriously(t)
    BY <2>6, MoveKeepsInv DEF WakesSpuriously, PcValues
  <2>7. CASE \/ GiveUp(t) \/ Leave(t) \/ Send(t) \/ Receive(t) \/ Take(t)
             \/ Give(t) \/ AwaitBits(t) \/ SetBits(t)
    <3>1. kind' = kind /\ DataTypeOK'
      BY <2>7, EffectsKeepData
    <3>2. \E r, op : Ends(t, r, op)
      BY <2>7, EffectsEnd
    <3> QED BY <3>1, <3>2, EndKeepsInv
  <2> QED BY <1>2, <2>1, <2>2, <2>3, <2>4, <2>5, <2>6, <2>7 DEF Step
<1> QED BY <1>1, <1>2 DEF PosixNext

-----------------------------------------------------------------------------
(* The ring.                                                               *)

(* The k items from place h of the ring on.                                *)
Ring(ring, h, k) == [i \in 1 .. k |-> ring[(h + i - 1) % Capacity]]

LEMMA RingType ==
    ASSUME NEW ring \in [0 .. Capacity - 1 -> Items], NEW h \in 0 .. Capacity - 1,
           NEW k \in 0 .. Capacity
    PROVE  Ring(ring, h, k) \in Seq(Items) /\ Len(Ring(ring, h, k)) = k
<1>1. ASSUME NEW i \in 1 .. k PROVE ring[(h + i - 1) % Capacity] \in Items
  <2>1. i - 1 \in 0 .. Capacity /\ h + (i - 1) = h + i - 1 /\ i - 1 < Capacity
    OBVIOUS
  <2>2. (h + i - 1) % Capacity = IF h + (i - 1) < Capacity THEN h + (i - 1)
                                                          ELSE h + (i - 1) - Capacity
    BY <2>1, RingPlace, Zenon
  <2>3. (h + i - 1) % Capacity \in 0 .. Capacity - 1
    BY <2>1, <2>2
  <2> QED BY <2>3
<1> QED BY <1>1 DEF Ring

(* What is stored behind the last item becomes the last item.              *)
LEMMA RingAppend ==
    ASSUME NEW ring \in [0 .. Capacity - 1 -> Items], NEW h \in 0 .. Capacity - 1,
           NEW k \in 0 .. Capacity - 1, NEW x \in Items
    PROVE  Ring([ring EXCEPT ![(h + k) % Capacity] = x], h, k + 1)
               = Append(Ring(ring, h, k), x)
<1> DEFINE new == [ring EXCEPT ![(h + k) % Capacity] = x]
<1>1. k \in 0 .. Capacity /\ k + 1 \in 0 .. Capacity
  OBVIOUS
<1>2. (h + k) % Capacity \in 0 .. Capacity - 1
      /\ (h + k) % Capacity = IF h + k < Capacity THEN h + k ELSE h + k - Capacity
  BY <1>1, RingPlace
<1>3. new \in [0 .. Capacity - 1 -> Items] /\ new[(h + k) % Capacity] = x
      /\ \A j \in 0 .. Capacity - 1 : j # (h + k) % Capacity => new[j] = ring[j]
  BY <1>2
<1> HIDE DEF new
<1>4. Ring(ring, h, k) \in Seq(Items) /\ Len(Ring(ring, h, k)) = k
  BY <1>1, RingType
<1>5. Ring(new, h, k + 1) \in Seq(Items) /\ Len(Ring(new, h, k + 1)) = k + 1
  BY <1>1, <1>3, RingType
<1>6. Ring(new, h, k + 1)[k + 1] = x
  <2>1. Ring(new, h, k + 1)[k + 1] = new[(h + (k + 1) - 1) % Capacity]
    BY DEF Ring
  <2>2. h + (k + 1) - 1 = h + k
    OBVIOUS
  <2> QED BY <1>3, <2>1, <2>2
<1>7. ASSUME NEW i \in 1 .. k PROVE Ring(new, h, k + 1)[i] = Ring(ring, h, k)[i]
  <2>1. i - 1 \in 0 .. Capacity /\ i - 1 < k /\ h + (i - 1) = h + i - 1
    OBVIOUS
  <2>2. (h + i - 1) % Capacity = IF h + (i - 1) < Capacity THEN h + (i - 1)
                                                          ELSE h + (i - 1) - Capacity
    BY <2>1, RingPlace, Zenon
  <2>3. (h + i - 1) % Capacity \in 0 .. Capacity - 1
        /\ (h + i - 1) % Capacity # (h + k) % Capacity
    BY <1>2, <2>1, <2>2
  <2>4. Ring(new, h, k + 1)[i] = new[(h + i - 1) % Capacity]
        /\ Ring(ring, h, k)[i] = ring[(h + i - 1) % Capacity]
    BY DEF Ring
  <2> QED BY <1>3, <2>3, <2>4
<1>8. Ring(new, h, k + 1) = Append(Ring(ring, h, k), x)
  BY <1>4, <1>5, <1>6, <1>7
<1> QED BY <1>8 DEF new

(* The first item is taken, and the others are those that are left.        *)
LEMMA RingTail ==
    ASSUME NEW ring \in [0 .. Capacity - 1 -> Items], NEW h \in 0 .. Capacity - 1,
           NEW k \in 1 .. Capacity
    PROVE  /\ Ring(ring, h, k) # <<>> /\ Head(Ring(ring, h, k)) = ring[h]
           /\ Ring(ring, (h + 1) % Capacity, k - 1) = Tail(Ring(ring, h, k))
<1>1. Ring(ring, h, k) \in Seq(Items) /\ Len(Ring(ring, h, k)) = k
  BY RingType
<1>2. Ring(ring, h, k) # <<>> /\ Head(Ring(ring, h, k)) = ring[h]
  <2>1. Ring(ring, h, k)[1] = ring[(h + 1 - 1) % Capacity] /\ h + 1 - 1 = h + 0
    BY DEF Ring
  <2>2. (h + 0) % Capacity = h
    <3>1. 0 \in 0 .. Capacity /\ h + 0 < Capacity
      OBVIOUS
    <3>2. (h + 0) % Capacity = IF h + 0 < Capacity THEN h + 0 ELSE h + 0 - Capacity
      BY <3>1, RingPlace, Zenon
    <3> QED BY <3>1, <3>2
  <2> QED BY <1>1, <2>1, <2>2
<1>3. 1 \in 0 .. Capacity
  OBVIOUS
<1>4. (h + 1) % Capacity = IF h + 1 < Capacity THEN h + 1 ELSE h + 1 - Capacity
  BY <1>3, RingPlace
<1>5. PICK g \in 0 .. Capacity - 1 :
          g = (h + 1) % Capacity /\ g = IF h + 1 < Capacity THEN h + 1 ELSE h + 1 - Capacity
  <2>1. (h + 1) % Capacity \in 0 .. Capacity - 1
    BY <1>4
  <2> QED BY <1>4, <2>1
<1>6. Ring(ring, g, k - 1) \in Seq(Items) /\ Len(Ring(ring, g, k - 1)) = k - 1
  <2>1. k - 1 \in 0 .. Capacity
    OBVIOUS
  <2> QED BY <2>1, RingType, Zenon
<1>7. ASSUME NEW i \in 1 .. k - 1 PROVE Ring(ring, g, k - 1)[i] = Ring(ring, h, k)[i + 1]
  <2>1. i - 1 \in 0 .. Capacity /\ g + (i - 1) = g + i - 1
        /\ i \in 0 .. Capacity /\ i < Capacity /\ h + (i + 1) - 1 = h + i /\ i + 1 \in 1 .. k
    OBVIOUS
  <2>2. (g + i - 1) % Capacity = IF g + (i - 1) < Capacity THEN g + (i - 1)
                                                          ELSE g + (i - 1) - Capacity
    BY <2>1, RingPlace, Zenon
  <2>3. (h + i) % Capacity = IF h + i < Capacity THEN h + i ELSE h + i - Capacity
    BY <2>1, RingPlace, Zenon
  <2>4. (g + i - 1) % Capacity = (h + i) % Capacity
    BY <1>5, <2>1, <2>2, <2>3
  <2>5. Ring(ring, g, k - 1)[i] = ring[(g + i - 1) % Capacity]
        /\ Ring(ring, h, k)[i + 1] = ring[(h + (i + 1) - 1) % Capacity]
    BY <2>1 DEF Ring
  <2> QED BY <2>1, <2>4, <2>5
<1>8. Ring(ring, g, k - 1) = Tail(Ring(ring, h, k))
  BY <1>1, <1>6, <1>7
<1> QED BY <1>2, <1>5, <1>8

-----------------------------------------------------------------------------
(* The contract, step by step.                                             *)

LEMMA ValueIs ==
    /\ kind = "queue" => Value = Ring(storage, head, count)
    /\ kind = "semaphore" => Value = count
    /\ kind = "event" => Value = bits
  BY DEF Value, Ring

LEMMA ValueKept ==
    ASSUME UNCHANGED dataVars PROVE Value' = Value
  BY DEF Value, dataVars

(* The contract speaks of the same calls and results.                      *)
LEMMA SameCalls ==
    /\ Contract!NoCall = NoCall /\ Contract!Failed = Failed /\ Contract!Kinds = Kinds
    /\ \A v : Contract!Done(v) = Done(v)
    /\ \A k : Contract!CallsOf(k) = CallsOf(k)
    /\ \A c, v : Contract!Matches(c, v) <=> Matches(c, v)
<1>1. Contract!QueueCalls = QueueCalls
  BY DEF Contract!QueueCalls, Contract!Timeouts, QueueCalls, Timeouts
<1>2. Contract!SemaphoreCalls = SemaphoreCalls
  BY DEF Contract!SemaphoreCalls, Contract!Timeouts, SemaphoreCalls, Timeouts
<1>3. Contract!EventCalls = EventCalls
  BY DEF Contract!EventCalls, Contract!Timeouts, EventCalls, Timeouts
<1>4. \A k : Contract!CallsOf(k) = CallsOf(k)
  BY <1>1, <1>2, <1>3 DEF Contract!CallsOf, CallsOf
<1>5. /\ Contract!NoCall = NoCall /\ Contract!Failed = Failed /\ Contract!Kinds = Kinds
      /\ \A v : Contract!Done(v) = Done(v)
  BY DEF Contract!NoCall, NoCall, Contract!Failed, Failed, Contract!Kinds, Kinds,
         Contract!Done, Done
<1>6. \A c, v : Contract!Matches(c, v) <=> Matches(c, v)
  BY DEF Contract!Matches, Matches
<1> QED BY <1>4, <1>5, <1>6

(* The object allows a call when the call does not wait.                   *)
LEMMA AllowedWhenReady ==
    ASSUME PosixInv, NEW t \in Threads, pc[t] # "idle"
    PROVE  /\ Contract!Allows(call[t]) => Ready(call[t])
           /\ Ready(call[t]) => Contract!Allows(call[t]) \/ call[t].op = "give"
           /\ call[t].op = "give" => (Contract!Allows(call[t]) <=> count < Maximum)
<1>1. DataTypeOK
  BY DEF PosixInv
<1>2. CASE kind = "queue"
  <2>1. call[t].op \in {"send", "receive"} /\ Value = Ring(storage, head, count)
    BY <1>2, CallUnderWay, ValueIs
  <2>2. count \in 0 .. Capacity
    BY <1>1, <1>2 DEF DataTypeOK
  <2>3. Value \in Seq(Items) /\ Len(Value) = count
    BY <1>1, <2>1, <2>2, RingType DEF DataTypeOK
  <2>4. Value # <<>> <=> count > 0
    BY <2>2, <2>3
  <2> QED BY <2>1, <2>3, <2>4, SameCalls DEF Ready, Contract!Allows
<1>3. CASE kind = "semaphore"
  <2>1. call[t].op \in {"take", "give"} /\ Value = count
    BY <1>3, CallUnderWay, ValueIs
  <2> QED BY <2>1, SameCalls DEF Ready, Contract!Allows
<1>4. CASE kind = "event"
  <2>1. call[t].op \in {"wait", "set"} /\ Value = bits
    BY <1>4, CallUnderWay, ValueIs
  <2> QED BY <2>1, SameCalls DEF Ready, Contract!Allows
<1>5. kind \in Kinds
  BY <1>1 DEF DataTypeOK
<1> QED BY <1>2, <1>3, <1>4, <1>5 DEF Kinds

(* A refused call had a deadline, or would have had to wait.               *)
LEMMA RefusedFails ==
    ASSUME PosixInv, NEW t \in Threads, LockFails(t) \/ GiveUp(t) \/ Leave(t)
    PROVE  Contract!Fails(t)
<1>1. /\ pc[t] # "idle" /\ UNCHANGED dataVars
      /\ call' = [call EXCEPT ![t] = NoCall] /\ result' = [result EXCEPT ![t] = Failed]
  BY DEF LockFails, GiveUp, Leave, Returns
<1>2. Contract!Returns(t, Failed) /\ Value' = Value
  BY <1>1, ValueKept, SameCalls DEF Contract!Returns, dataVars
<1>3. call[t] # NoCall /\ call[t].timeout \in Timeouts
  BY <1>1, CallUnderWay
<1>4. CASE call[t].timeout = "TIMED"
  BY <1>2, <1>3, <1>4, SameCalls DEF Contract!Fails
<1>5. CASE LockFails(t) /\ call[t].timeout = "NO_WAIT"
  <2>1. pc[t] = "locking" /\ owner # Nobody
    BY <1>5 DEF LockFails
  <2>2. owner \in Threads /\ pc[owner] \in {"holding", "leaving"}
    BY <2>1 DEF PosixInv, ThreadTypeOK, MutexHeld
  <2>3. owner \in Threads \ {t} /\ call[owner] # NoCall
    BY <2>1, <2>2, CallUnderWay
  <2> QED BY <1>2, <1>3, <1>5, <2>3, SameCalls DEF Contract!Fails
<1>6. CASE GiveUp(t) /\ call[t].timeout = "NO_WAIT"
  <2>1. ~Ready(call[t])
    BY <1>6 DEF GiveUp
  <2>2. ~Contract!Allows(call[t])
    BY <1>1, <2>1, AllowedWhenReady
  <2> QED BY <1>2, <1>3, <1>6, <2>2, SameCalls DEF Contract!Fails
<1>7. CASE Leave(t)
  <2>1. pc[t] = "leaving"
    BY <1>7 DEF Leave
  <2>2. call[t].timeout = "TIMED"
    BY <2>1 DEF PosixInv, InCall
  <2> QED BY <1>4, <2>2
<1>8. call[t].timeout # "FOREVER" \/ Leave(t)
  BY DEF LockFails, GiveUp
<1> QED BY <1>3, <1>4, <1>5, <1>6, <1>7, <1>8 DEF Timeouts

LEMMA SendSucceeds ==
    ASSUME PosixInv, NEW t \in Threads, Send(t) PROVE Contract!Succeeds(t)
<1>1. /\ pc[t] # "idle" /\ call[t].op = "send" /\ Ready(call[t]) /\ count < Capacity
      /\ storage' = [storage EXCEPT ![(head + count) % Capacity] = call[t].item]
      /\ count' = count + 1 /\ UNCHANGED <<kind, head, bits>>
      /\ call' = [call EXCEPT ![t] = NoCall] /\ result' = [result EXCEPT ![t] = Done({})]
  BY DEF Send, Holds, Ready, Unlocks, Returns, TailSlot
<1>2. kind = "queue" /\ call[t].item \in Items
  BY <1>1, CallUnderWay
<1>3. storage \in [0 .. Capacity - 1 -> Items] /\ head \in 0 .. Capacity - 1
      /\ count \in 0 .. Capacity - 1
  BY <1>1 DEF PosixInv, DataTypeOK
<1>4. Ring(storage', head, count + 1) = Append(Ring(storage, head, count), call[t].item)
  BY <1>1, <1>2, <1>3, RingAppend
<1>5. Value = Ring(storage, head, count)
  BY <1>2, ValueIs
<1>6. Value' = Ring(storage', head', count')
  BY <1>1, <1>2 DEF Value, Ring
<1>7. Value' = Append(Value, call[t].item)
  BY <1>1, <1>4, <1>5, <1>6
<1>8. Contract!Allows(call[t]) /\ Contract!Returns(t, Done({}))
  BY <1>1, AllowedWhenReady, SameCalls DEF Contract!Returns
<1> QED BY <1>1, <1>7, <1>8, SameCalls DEF Contract!Succeeds

LEMMA ReceiveSucceeds ==
    ASSUME PosixInv, NEW t \in Threads, Receive(t) PROVE Contract!Succeeds(t)
<1>1. /\ pc[t] # "idle" /\ call[t].op = "receive" /\ Ready(call[t]) /\ count > 0
      /\ head' = (head + 1) % Capacity /\ count' = count - 1
      /\ UNCHANGED <<kind, storage, bits>>
      /\ call' = [call EXCEPT ![t] = NoCall]
      /\ result' = [result EXCEPT ![t] = Done({storage[head]})]
  BY DEF Receive, Holds, Ready, Unlocks, Returns
<1>2. kind = "queue"
  BY <1>1, CallUnderWay
<1>3. storage \in [0 .. Capacity - 1 -> Items] /\ head \in 0 .. Capacity - 1
      /\ count \in 1 .. Capacity
  BY <1>1, <1>2 DEF PosixInv, DataTypeOK
<1>4. /\ Head(Ring(storage, head, count)) = storage[head]
      /\ Ring(storage, (head + 1) % Capacity, count - 1) = Tail(Ring(storage, head, count))
  BY <1>3, RingTail, Zenon
<1>5. Value = Ring(storage, head, count)
  BY <1>2, ValueIs
<1>6. Value' = Ring(storage', head', count')
  BY <1>1, <1>2 DEF Value, Ring
<1>7. Value' = Tail(Value) /\ Head(Value) = storage[head]
  BY <1>1, <1>4, <1>5, <1>6, Zenon
<1>8. Contract!Allows(call[t]) /\ Contract!Returns(t, Done({Head(Value)}))
  <2>1. Contract!Allows(call[t])
    BY <1>1, AllowedWhenReady
  <2> QED BY <1>1, <1>7, <2>1, Zenon, SameCalls DEF Contract!Returns
<1> QED BY <1>1, <1>7, <1>8, SameCalls DEF Contract!Succeeds

LEMMA TakeSucceeds ==
    ASSUME PosixInv, NEW t \in Threads, Take(t) PROVE Contract!Succeeds(t)
<1>1. /\ pc[t] # "idle" /\ call[t].op = "take" /\ Ready(call[t])
      /\ count' = count - 1 /\ UNCHANGED <<kind, storage, head, bits>>
      /\ call' = [call EXCEPT ![t] = NoCall] /\ result' = [result EXCEPT ![t] = Done({})]
  BY DEF Take, Holds, Unlocks, Returns
<1>2. kind = "semaphore"
  BY <1>1, CallUnderWay
<1>3. Value = count /\ Value' = count'
  BY <1>1, <1>2 DEF Value
<1>4. Contract!Allows(call[t]) /\ Contract!Returns(t, Done({}))
  BY <1>1, AllowedWhenReady, SameCalls DEF Contract!Returns
<1> QED BY <1>1, <1>3, <1>4, SameCalls DEF Contract!Succeeds

(* A semaphore at its maximum refuses another unit.                        *)
LEMMA GiveSucceedsOrFails ==
    ASSUME PosixInv, NEW t \in Threads, Give(t)
    PROVE  Contract!Succeeds(t) \/ Contract!Fails(t)
<1>1. /\ pc[t] # "idle" /\ call[t].op = "give" /\ UNCHANGED <<kind, storage, head, bits>>
      /\ \/ /\ count < Maximum /\ count' = count + 1 /\ Returns(t, Done({}))
         \/ /\ count = Maximum /\ count' = count /\ Returns(t, Failed)
  BY DEF Give, Holds, Unlocks
<1>2. kind = "semaphore"
  BY <1>1, CallUnderWay
<1>3. Value = count /\ Value' = count'
  BY <1>1, <1>2 DEF Value
<1>4. Contract!Allows(call[t]) <=> count < Maximum
  BY <1>1, AllowedWhenReady
<1>5. CASE count < Maximum /\ count' = count + 1 /\ Returns(t, Done({}))
  <2>1. Contract!Returns(t, Done({}))
    BY <1>1, <1>5, SameCalls DEF Returns, Contract!Returns
  <2> QED BY <1>1, <1>3, <1>4, <1>5, <2>1, SameCalls DEF Contract!Succeeds
<1>6. CASE count = Maximum /\ count' = count /\ Returns(t, Failed)
  <2>1. Contract!Returns(t, Failed)
    BY <1>1, <1>6, SameCalls DEF Returns, Contract!Returns
  <2> QED BY <1>1, <1>3, <1>4, <1>6, <2>1, SameCalls DEF Contract!Fails
<1> QED BY <1>1, <1>5, <1>6

LEMMA AwaitBitsSucceeds ==
    ASSUME PosixInv, NEW t \in Threads, AwaitBits(t) PROVE Contract!Succeeds(t)
<1>1. /\ pc[t] # "idle" /\ call[t].op = "wait" /\ Ready(call[t])
      /\ bits' = (IF call[t].clear THEN bits \ call[t].bits ELSE bits)
      /\ UNCHANGED <<kind, storage, head, count>>
      /\ call' = [call EXCEPT ![t] = NoCall]
      /\ result' = [result EXCEPT ![t] = Done(bits \cap call[t].bits)]
  BY DEF AwaitBits, Holds, Unlocks, Returns
<1>2. kind = "event"
  BY <1>1, CallUnderWay
<1>3. Value = bits /\ Value' = bits'
  BY <1>1, <1>2 DEF Value
<1>4. Contract!Allows(call[t]) /\ Contract!Returns(t, Done(Value \cap call[t].bits))
  BY <1>1, <1>3, AllowedWhenReady, SameCalls DEF Contract!Returns
<1> QED BY <1>1, <1>3, <1>4, SameCalls DEF Contract!Succeeds

LEMMA SetBitsSucceeds ==
    ASSUME PosixInv, NEW t \in Threads, SetBits(t) PROVE Contract!Succeeds(t)
<1>1. /\ pc[t] # "idle" /\ call[t].op = "set" /\ Ready(call[t])
      /\ bits' = bits \cup call[t].bits
      /\ UNCHANGED <<kind, storage, head, count>>
      /\ call' = [call EXCEPT ![t] = NoCall] /\ result' = [result EXCEPT ![t] = Done({})]
  BY DEF SetBits, Holds, Unlocks, Returns
<1>2. kind = "event"
  BY <1>1, CallUnderWay
<1>3. Value = bits /\ Value' = bits'
  BY <1>1, <1>2 DEF Value
<1>4. Contract!Allows(call[t]) /\ Contract!Returns(t, Done({}))
  BY <1>1, AllowedWhenReady, SameCalls DEF Contract!Returns
<1> QED BY <1>1, <1>3, <1>4, SameCalls DEF Contract!Succeeds

LEMMA ContractInit == PosixInit => Contract!Init
<1> SUFFICES ASSUME PosixInit PROVE Contract!Init
  OBVIOUS
<1>1. CASE kind = "queue"
  <2>1. Value = Ring(storage, head, count) /\ count = 0
    BY <1>1, ValueIs DEF PosixInit
  <2>2. Value = <<>>
    BY <2>1 DEF Ring
  <2> QED BY <1>1, <2>2, SameCalls DEF PosixInit, Contract!Init
<1>2. CASE kind = "semaphore"
  BY <1>2, ValueIs, SameCalls DEF PosixInit, Contract!Init
<1>3. CASE kind = "event"
  BY <1>3, ValueIs, SameCalls DEF PosixInit, Contract!Init
<1> QED BY <1>1, <1>2, <1>3 DEF PosixInit, Kinds

LEMMA ContractStep ==
    PosixInv /\ [PosixNext]_posixVars => [Contract!Next]_(Contract!vars)
<1> SUFFICES ASSUME PosixInv, [PosixNext]_posixVars
             PROVE  [Contract!Next]_(Contract!vars)
  OBVIOUS
<1>1. ASSUME UNCHANGED <<dataVars, call, result>> PROVE UNCHANGED Contract!vars
  BY <1>1, ValueKept DEF Contract!vars, dataVars
<1>2. CASE UNCHANGED posixVars
  BY <1>1, <1>2 DEF posixVars
<1>3. ASSUME NEW t \in Threads, Step(t) PROVE [Contract!Next]_(Contract!vars)
  <2>1. CASE Begin(t)
    <3>1. /\ pc[t] = "idle" /\ UNCHANGED dataVars
          /\ \E c \in CallsOf(kind) : call' = [call EXCEPT ![t] = c]
          /\ result' = [result EXCEPT ![t] = Done({})]
      BY <2>1 DEF Begin
    <3>2. call[t] = NoCall
      BY <3>1 DEF PosixInv, InCall
    <3>3. Contract!Begins(t)
      BY <3>1, <3>2, ValueKept, SameCalls DEF Contract!Begins, dataVars
    <3> QED BY <3>3 DEF Contract!Next
  <2>2. CASE Lock(t) \/ Wait(t) \/ TimesOut(t) \/ WakesSpuriously(t)
    BY <1>1, <2>2 DEF Lock, Wait, TimesOut, WakesSpuriously
  <2>3. CASE LockFails(t) \/ GiveUp(t) \/ Leave(t)
    BY <2>3, RefusedFails DEF Contract!Next
  <2>4. CASE \/ Send(t) \/ Receive(t) \/ Take(t) \/ Give(t)
             \/ AwaitBits(t) \/ SetBits(t)
    <3>1. Contract!Succeeds(t) \/ Contract!Fails(t)
      BY <2>4, SendSucceeds, ReceiveSucceeds, TakeSucceeds, GiveSucceedsOrFails,
         AwaitBitsSucceeds, SetBitsSucceeds
    <3> QED BY <3>1 DEF Contract!Next
  <2> QED BY <1>3, <2>1, <2>2, <2>3, <2>4 DEF Step
<1> QED BY <1>2, <1>3 DEF PosixNext

(* The mutex of an object is held by at most one thread, every index into  *)
(* its storage is in range, and its count stays within its limit.          *)
THEOREM PosixCorrect == PosixSpec => []PosixInv
  BY PosixInvInit, PosixInvStep, PTL DEF PosixSpec

(* The objects of the POSIX OSAL keep the contract of the OSAL: every call *)
(* takes effect at once or fails, and fails only when the contract says.   *)
THEOREM ContractIsKept == PosixSpec => ContractSpec
  BY PosixInvInit, PosixInvStep, ContractInit, ContractStep, PTL
     DEF PosixSpec, ContractSpec, Contract!Spec

-----------------------------------------------------------------------------
(* Wakeups.                                                                *)

Operations == {"send", "receive", "take"}

(* What the callers of op could have.                                      *)
Available(op) == IF op = "send" THEN Capacity - count ELSE count

Covered(op) == Waiters(op) # {} => Cardinality(Coming(op)) >= Available(op)

AllCovered == ~swallowed => \A op \in Operations : Covered(op)
NoneOverlooked == \A t \in Waiters("wait") : ~Matches(call[t], bits)

WakeupInv == PosixInv /\ AllCovered /\ NoneOverlooked

LEMMA ComingCount ==
    ASSUME NEW op
    PROVE  /\ IsFiniteSet(Coming(op)) /\ Cardinality(Coming(op)) \in Nat
           /\ IsFiniteSet(Coming(op)') /\ Cardinality(Coming(op)') \in Nat
<1>1. Coming(op) \subseteq Threads /\ Coming(op)' \subseteq Threads
  BY DEF Coming
<1>2. IsFiniteSet(Coming(op)) /\ IsFiniteSet(Coming(op)')
  BY <1>1, FS_Subset
<1> QED BY <1>2, FS_CardinalityType

LEMMA AvailableType ==
    ASSUME PosixInv, PosixInv', NEW op
    PROVE  Available(op) \in Int /\ Available(op)' \in Int
<1>1. count \in Int /\ count' \in Int
  BY DEF PosixInv, DataTypeOK
<1> QED BY <1>1 DEF Available

(* Nobody more waits, as many come and there is no more to have.           *)
LEMMA CoveredStays ==
    ASSUME PosixInv, PosixInv', NEW op, Covered(op), Waiters(op) = {} => Waiters(op)' = {},
           Coming(op) \subseteq Coming(op)', Available(op)' <= Available(op)
    PROVE  Covered(op)'
<1>1. IsFiniteSet(Coming(op)') /\ Cardinality(Coming(op)') \in Nat
      /\ Cardinality(Coming(op)) \in Nat
  BY ComingCount
<1>2. Cardinality(Coming(op)) <= Cardinality(Coming(op)')
  BY <1>1, FS_Subset
<1>3. Available(op) \in Int /\ Available(op)' \in Int
  BY AvailableType
<1> QED BY <1>1, <1>2, <1>3 DEF Covered

(* One who came has taken one of what there was.                           *)
LEMMA CoveredTaken ==
    ASSUME PosixInv, PosixInv', NEW op, NEW t \in Coming(op), Covered(op),
           Waiters(op) = {} => Waiters(op)' = {},
           Coming(op) \ {t} \subseteq Coming(op)', Available(op)' = Available(op) - 1
    PROVE  Covered(op)'
<1>1. IsFiniteSet(Coming(op)) /\ IsFiniteSet(Coming(op)') /\ Cardinality(Coming(op)') \in Nat
      /\ Cardinality(Coming(op)) \in Nat
  BY ComingCount
<1>2. IsFiniteSet(Coming(op) \ {t})
      /\ Cardinality(Coming(op) \ {t}) = Cardinality(Coming(op)) - 1
  BY <1>1, FS_RemoveElement
<1>3. Cardinality(Coming(op) \ {t}) <= Cardinality(Coming(op)')
  BY <1>1, FS_Subset
<1>4. Available(op) \in Int /\ Available(op)' \in Int
  BY AvailableType
<1> QED BY <1>1, <1>2, <1>3, <1>4 DEF Covered

(* There is one more to have, and one who waited comes.                    *)
LEMMA CoveredWoken ==
    ASSUME PosixInv, PosixInv', NEW op, NEW w \in Waiters(op), Covered(op),
           Coming(op) \cup {w} \subseteq Coming(op)', Available(op)' = Available(op) + 1
    PROVE  Covered(op)'
<1>1. IsFiniteSet(Coming(op)) /\ IsFiniteSet(Coming(op)') /\ Cardinality(Coming(op)') \in Nat
      /\ Cardinality(Coming(op)) \in Nat
  BY ComingCount
<1>2. w \notin Coming(op)
  BY DEF Waiters, Coming
<1>3. Cardinality(Coming(op) \cup {w}) = Cardinality(Coming(op)) + 1
  BY <1>1, <1>2, FS_AddElement
<1>4. Cardinality(Coming(op) \cup {w}) <= Cardinality(Coming(op)')
  BY <1>1, FS_Subset
<1>5. Available(op) \in Int /\ Available(op)' \in Int
  BY AvailableType
<1> QED BY <1>1, <1>2, <1>3, <1>4, <1>5 DEF Covered

(* There is nothing to have.                                               *)
LEMMA CoveredNothing ==
    ASSUME NEW op, Available(op)' <= 0, Available(op)' \in Int
    PROVE  Covered(op)'
<1>1. Cardinality(Coming(op)') \in Nat
  BY ComingCount
<1> QED BY <1>1 DEF Covered

(* Thread t is the only one that may stop coming, or start to wait.        *)
OnlyMover(t, op) ==
    /\ Waiters(op)' \subseteq Waiters(op) \cup {t}
    /\ Coming(op) \subseteq Coming(op)' \cup {t}

LEMMA MoverIsOnly ==
    ASSUME PosixInv, PosixInv', NEW t \in Threads, Step(t), NEW op
    PROVE  OnlyMover(t, op)
<1>1. ASSUME NEW u \in Threads \ {t}
      PROVE  /\ call'[u] = call[u]
             /\ pc'[u] = pc[u] \/ (pc[u] = "waiting" /\ pc'[u] \in {"woken", "late"})
  <2>1. /\ call \in [Threads -> CallsOf(kind) \cup {NoCall}] /\ pc \in [Threads -> PcValues]
    BY DEF PosixInv, ThreadTypeOK
  <2>2. CASE Begin(t) \/ Lock(t) \/ LockFails(t) \/ Wait(t) \/ TimesOut(t) \/ WakesSpuriously(t)
    <3>1. (\E c : call' = [call EXCEPT ![t] = c]) \/ call' = call
      BY <2>2 DEF Begin, Lock, LockFails, Wait, TimesOut, WakesSpuriously, Returns
    <3>2. \E p : pc' = [pc EXCEPT ![t] = p]
      BY <2>2 DEF Begin, Lock, LockFails, Wait, TimesOut, WakesSpuriously
    <3> QED BY <2>1, <3>1, <3>2
  <2>3. CASE \/ GiveUp(t) \/ Leave(t) \/ Send(t) \/ Receive(t) \/ Take(t)
             \/ Give(t) \/ AwaitBits(t) \/ SetBits(t)
    <3>1. PICK r, o : Ends(t, r, o)
      BY <2>3, EffectsEnd
    <3>2. call' = [call EXCEPT ![t] = NoCall] /\ Wakes(o, u)
      BY <3>1 DEF Ends, Returns
    <3> QED BY <2>1, <3>2 DEF Wakes
  <2> QED BY <2>2, <2>3 DEF Step
<1> QED BY <1>1 DEF OnlyMover, Waiters, Coming

(* When the mover was not coming for op and does not wait for it, and      *)
(* there is no more to have, the callers of op are as well off as before.  *)
LEMMA OthersCovered ==
    ASSUME PosixInv, PosixInv', NEW t \in Threads, NEW op, OnlyMover(t, op), Covered(op),
           t \notin Waiters(op)', t \notin Coming(op) \/ t \in Coming(op)',
           Available(op)' <= Available(op)
    PROVE  Covered(op)'
<1>1. Waiters(op)' \subseteq Waiters(op) /\ Coming(op) \subseteq Coming(op)'
  BY DEF OnlyMover
<1>2. Waiters(op) = {} => Waiters(op)' = {}
  BY <1>1
<1> QED BY <1>1, <1>2, CoveredStays

LEMMA TakersCovered ==
    ASSUME PosixInv, PosixInv', NEW t \in Threads, NEW op, OnlyMover(t, op), Covered(op),
           t \notin Waiters(op)', t \in Coming(op), Available(op)' = Available(op) - 1
    PROVE  Covered(op)'
<1>1. Waiters(op)' \subseteq Waiters(op) /\ Coming(op) \ {t} \subseteq Coming(op)'
  BY DEF OnlyMover, Waiters, Coming
<1>2. Waiters(op) = {} => Waiters(op)' = {}
  BY <1>1
<1> QED BY <1>1, <1>2, CoveredTaken

(* A signal makes up for one more that there is to have, unless a wait     *)
(* that timed out has taken it.                                            *)
LEMMA SignalledCovered ==
    ASSUME PosixInv, PosixInv', NEW t \in Threads, NEW op, OnlyMover(t, op), Covered(op),
           t \notin Waiters(op), t \notin Coming(op), call'[t] = NoCall,
           \A u \in Threads \ {t} : call'[u] = call[u], op # "none",
           Signal(t, op), ~swallowed', Available(op)' = Available(op) + 1
    PROVE  Covered(op)'
<1>1. t \notin Waiters(op)' /\ t \notin Coming(op)'
  BY DEF Waiters, Coming, NoCall
<1>2. Waiters(op)' \subseteq Waiters(op) /\ Coming(op) \subseteq Coming(op)'
  BY <1>1 DEF OnlyMover
<1>3. pc \in [Threads -> PcValues]
  BY DEF PosixInv, ThreadTypeOK
<1>4. CASE Waiters(op) = {}
  BY <1>2, <1>4 DEF Covered
<1>5. ASSUME NEW w \in Waiters(op), pc' = [pc EXCEPT ![t] = "idle", ![w] = "woken"]
      PROVE  Covered(op)'
  <2>1. w \in Threads \ {t} /\ call[w].op = op
    BY DEF Waiters
  <2>2. pc'[w] = "woken" /\ call'[w] = call[w]
    BY <1>3, <1>5, <2>1
  <2>3. w \in Coming(op)'
    BY <2>1, <2>2 DEF Coming
  <2> QED BY <1>2, <2>3, CoveredWoken
<1>6. ASSUME NEW w \in Waiters(op), pc' = [pc EXCEPT ![t] = "idle", ![w] = "late"],
             swallowed' = (swallowed \/ Waiters(op) # {w})
      PROVE  Covered(op)'
  <2>1. w \in Threads \ {t}
    BY DEF Waiters
  <2>2. pc'[w] = "late"
    BY <1>3, <1>6, <2>1
  <2>3. w \notin Waiters(op)'
    BY <2>2 DEF Waiters
  <2>4. Waiters(op) = {w}
    BY <1>6, Zenon
  <2>5. Waiters(op)' = {}
    BY <1>2, <2>3, <2>4
  <2> QED BY <2>5 DEF Covered
<1> QED BY <1>4, <1>5, <1>6 DEF Signal

(* Nobody waits for what is not a call on the object.                      *)
LEMMA NoWaiters ==
    ASSUME PosixInv', NEW op \in {"send", "receive", "take", "give", "wait", "set"},
           \/ kind' = "queue" /\ op \notin {"send", "receive"}
           \/ kind' = "semaphore" /\ op \notin {"take", "give"}
           \/ kind' = "event" /\ op \notin {"wait", "set"}
    PROVE  Waiters(op)' = {}
<1> SUFFICES ASSUME NEW u \in Threads, pc'[u] = "waiting", call'[u].op = op PROVE FALSE
  BY DEF Waiters
<1>1. kind' \in Kinds /\ call'[u] \in CallsOf(kind')
  BY DEF PosixInv, DataTypeOK, ThreadTypeOK, InCall
<1> QED BY <1>1, CallFields

LEMMA SwallowedStays ==
    ASSUME PosixInv, NEW t \in Threads, Step(t), ~swallowed' PROVE ~swallowed
<1>1. swallowed \in BOOLEAN
  BY DEF PosixInv, ThreadTypeOK
<1>2. CASE Send(t) \/ Receive(t) \/ Give(t)
  <2>1. UNCHANGED swallowed
        \/ (\E op : \E w \in Waiters(op) : swallowed' = (swallowed \/ Waiters(op) # {w}))
    BY <1>2 DEF Send, Receive, Give, Signal
  <2> QED BY <1>1, <2>1, Zenon
<1>3. CASE ~(Send(t) \/ Receive(t) \/ Give(t))
  <2>1. UNCHANGED swallowed
    BY <1>3 DEF Step, Begin, Lock, LockFails, Wait, GiveUp, TimesOut, WakesSpuriously,
                Leave, Take, AwaitBits, SetBits
  <2> QED BY <2>1
<1> QED BY <1>2, <1>3

LEMMA CoveredStep ==
    ASSUME PosixInv, PosixInv', AllCovered, NEW t \in Threads, Step(t),
           ~swallowed', NEW op \in Operations
    PROVE  Covered(op)'
<1>1. Covered(op) /\ OnlyMover(t, op) /\ op # "none"
  BY SwallowedStays, MoverIsOnly DEF AllCovered, Operations
<1>2. /\ pc \in [Threads -> PcValues] /\ call \in [Threads -> CallsOf(kind) \cup {NoCall}]
      /\ Available(op) \in Int /\ Available(op)' \in Int
  BY AvailableType DEF PosixInv, ThreadTypeOK
<1>3. CASE \/ Begin(t) \/ Lock(t) \/ LockFails(t) \/ TimesOut(t) \/ WakesSpuriously(t)
           \/ Leave(t)
  <2>1. Available(op)' = Available(op)
    BY <1>3 DEF Begin, Lock, LockFails, TimesOut, WakesSpuriously, Leave, dataVars, Available
  <2>2. pc'[t] # "waiting"
    BY <1>2, <1>3 DEF Begin, Lock, LockFails, TimesOut, WakesSpuriously, Leave
  <2>3. \/ pc[t] \notin {"woken", "holding"}
        \/ pc'[t] = "holding" /\ call'[t] = call[t]
    BY <1>2, <1>3 DEF Begin, Lock, LockFails, TimesOut, WakesSpuriously, Leave
  <2>4. t \notin Waiters(op)' /\ (t \notin Coming(op) \/ t \in Coming(op)')
    BY <2>2, <2>3 DEF Waiters, Coming
  <2> QED BY <1>1, <1>2, <2>1, <2>4, OthersCovered
<1>4. CASE Wait(t) \/ GiveUp(t)
  <2>1. ~Ready(call[t]) /\ pc[t] = "holding" /\ Available(op)' = Available(op)
    BY <1>4 DEF Wait, GiveUp, dataVars, Available
  <2>2. CASE call[t].op = op
    <3>1. count \in Int /\ Available(op) <= 0
      BY <2>1, <2>2 DEF Ready, Available, Operations, PosixInv, DataTypeOK
    <3> QED BY <1>2, <2>1, <3>1, CoveredNothing
  <2>3. CASE call[t].op # op
    <3>1. call'[t] = call[t] \/ call'[t] = NoCall
      BY <1>2, <1>4 DEF Wait, GiveUp, Returns
    <3>2. t \notin Waiters(op)' /\ t \notin Coming(op)
      BY <1>1, <2>3, <3>1 DEF Waiters, Coming, NoCall
    <3> QED BY <1>1, <1>2, <2>1, <3>2, OthersCovered
  <2> QED BY <2>2, <2>3
<1>5. ASSUME NEW r, NEW o, Ends(t, r, o)
      PROVE  call'[t] = NoCall /\ pc'[t] = "idle" /\ t \notin Waiters(op)'
             /\ \A u \in Threads \ {t} : call'[u] = call[u]
  BY <1>2, <1>5 DEF Ends, Returns, Waiters
<1>6. CASE Send(t)
  <2>1. /\ pc[t] = "holding" /\ call[t].op = "send" /\ Signal(t, "receive")
        /\ count' = count + 1 /\ count \in Int
    BY <1>6 DEF Send, Holds, PosixInv, DataTypeOK
  <2>2. call'[t] = NoCall /\ t \notin Waiters(op)'
        /\ \A u \in Threads \ {t} : call'[u] = call[u]
    BY <1>5, <1>6, EffectsEnd
  <2>3. kind = "queue"
    BY <2>1, CallUnderWay
  <2>4. CASE op = "send"
    <3>1. t \in Coming(op) /\ Available(op)' = Available(op) - 1
      BY <2>1, <2>4 DEF Coming, Available
    <3> QED BY <1>1, <2>2, <3>1, TakersCovered
  <2>5. CASE op = "receive"
    <3>1. t \notin Waiters(op) /\ t \notin Coming(op) /\ Available(op)' = Available(op) + 1
          /\ Signal(t, op)
      BY <2>1, <2>5 DEF Waiters, Coming, Available
    <3> QED BY <1>1, <2>2, <3>1, SignalledCovered
  <2>6. CASE op = "take"
    <3>1. Waiters(op)' = {}
      BY <2>3, <2>6, <1>6, NoWaiters DEF Send
    <3> QED BY <3>1 DEF Covered
  <2> QED BY <2>4, <2>5, <2>6 DEF Operations
<1>7. CASE Receive(t)
  <2>1. /\ pc[t] = "holding" /\ call[t].op = "receive" /\ Signal(t, "send")
        /\ count' = count - 1 /\ count \in Int
    BY <1>7 DEF Receive, Holds, PosixInv, DataTypeOK
  <2>2. call'[t] = NoCall /\ t \notin Waiters(op)'
        /\ \A u \in Threads \ {t} : call'[u] = call[u]
    BY <1>5, <1>7, EffectsEnd
  <2>3. kind = "queue"
    BY <2>1, CallUnderWay
  <2>4. CASE op = "receive"
    <3>1. t \in Coming(op) /\ Available(op)' = Available(op) - 1
      BY <2>1, <2>4 DEF Coming, Available
    <3> QED BY <1>1, <2>2, <3>1, TakersCovered
  <2>5. CASE op = "send"
    <3>1. t \notin Waiters(op) /\ t \notin Coming(op) /\ Available(op)' = Available(op) + 1
          /\ Signal(t, op)
      BY <2>1, <2>5 DEF Waiters, Coming, Available
    <3> QED BY <1>1, <2>2, <3>1, SignalledCovered
  <2>6. CASE op = "take"
    <3>1. Waiters(op)' = {}
      BY <2>3, <2>6, <1>7, NoWaiters DEF Receive
    <3> QED BY <3>1 DEF Covered
  <2> QED BY <2>4, <2>5, <2>6 DEF Operations
<1>8. CASE Take(t) \/ Give(t)
  <2>1. pc[t] = "holding" /\ call[t].op \in {"take", "give"} /\ kind' = kind
    BY <1>8 DEF Take, Give, Holds
  <2>2. call'[t] = NoCall /\ t \notin Waiters(op)'
        /\ \A u \in Threads \ {t} : call'[u] = call[u]
    BY <1>5, <1>8, EffectsEnd
  <2>3. kind = "semaphore" /\ count \in Int
    BY <2>1, CallUnderWay DEF PosixInv, DataTypeOK
  <2>4. CASE op # "take"
    <3>1. Waiters(op)' = {}
      BY <2>1, <2>3, <2>4, NoWaiters DEF Operations
    <3> QED BY <3>1 DEF Covered
  <2>5. CASE op = "take" /\ Take(t)
    <3>1. t \in Coming(op) /\ Available(op)' = Available(op) - 1
      BY <2>5 DEF Take, Holds, Coming, Available
    <3> QED BY <1>1, <2>2, <3>1, TakersCovered
  <2>6. CASE op = "take" /\ Give(t)
    <3>1. t \notin Waiters(op) /\ t \notin Coming(op)
      BY <2>6 DEF Give, Holds, Waiters, Coming
    <3>2. \/ count' = count + 1 /\ Signal(t, "take")
          \/ count' = count
      BY <2>6 DEF Give
    <3>3. CASE count' = count + 1 /\ Signal(t, "take")
      <4>1. Available(op)' = Available(op) + 1 /\ Signal(t, op)
        BY <2>6, <3>3 DEF Available
      <4> QED BY <1>1, <2>2, <3>1, <4>1, SignalledCovered
    <3>4. CASE count' = count
      <4>1. Available(op)' <= Available(op)
        BY <2>3, <2>6, <3>4 DEF Available
      <4> QED BY <1>1, <2>2, <3>1, <4>1, OthersCovered
    <3> QED BY <3>2, <3>3, <3>4
  <2> QED BY <1>8, <2>4, <2>5, <2>6
<1>9. CASE AwaitBits(t) \/ SetBits(t)
  <2>1. pc[t] = "holding" /\ call[t].op \in {"wait", "set"} /\ kind' = kind
    BY <1>9 DEF AwaitBits, SetBits, Holds
  <2>2. kind = "event"
    BY <2>1, CallUnderWay
  <2>3. Waiters(op)' = {}
    BY <2>1, <2>2, NoWaiters DEF Operations
  <2> QED BY <2>3 DEF Covered
<1> QED BY <1>3, <1>4, <1>6, <1>7, <1>8, <1>9 DEF Step

(* Clearing bits makes no caller's condition true.                         *)
LEMMA FewerBits ==
    ASSUME NEW c, NEW b, NEW d, d \subseteq b, Matches(c, d) PROVE Matches(c, b)
  BY DEF Matches

LEMMA OverlookedStep ==
    ASSUME PosixInv, PosixInv', NoneOverlooked, NEW t \in Threads, Step(t)
    PROVE  NoneOverlooked'
<1> SUFFICES ASSUME NEW u \in Waiters("wait")' PROVE ~Matches(call[u], bits)'
  BY DEF NoneOverlooked
<1>1. u \in Threads /\ pc'[u] = "waiting" /\ call'[u].op = "wait"
  BY DEF Waiters
<1>2. pc \in [Threads -> PcValues] /\ call \in [Threads -> CallsOf(kind) \cup {NoCall}]
  BY DEF PosixInv, ThreadTypeOK
<1>3. u \in Waiters("wait") \/ u = t
  BY MoverIsOnly DEF OnlyMover
<1>4. CASE Wait(t) /\ u = t
  <2>1. pc[t] = "holding" /\ ~Ready(call[t]) /\ call' = call /\ bits' = bits
    BY <1>4 DEF Wait, dataVars
  <2> QED BY <1>1, <1>4, <2>1 DEF Ready
<1>5. CASE ~Wait(t) \/ u # t
  <2>1. u \in Waiters("wait")
    <3>1. CASE u = t
      <4>1. \/ Begin(t) \/ Lock(t) \/ LockFails(t) \/ TimesOut(t) \/ WakesSpuriously(t)
            \/ \E r, o : Ends(t, r, o)
        BY <1>5, <3>1, EffectsEnd DEF Step
      <4>2. pc'[t] # "waiting"
        BY <1>2, <4>1 DEF Begin, Lock, LockFails, TimesOut, WakesSpuriously, Ends
      <4> QED BY <1>1, <3>1, <4>2
    <3> QED BY <1>3, <3>1
  <2>2. ~Matches(call[u], bits)
    BY <2>1 DEF NoneOverlooked
  <2>3. pc[u] = "waiting" /\ call[u].op = "wait"
    BY <2>1 DEF Waiters
  <2>4. ~SetBits(t)
    <3> SUFFICES ASSUME SetBits(t) PROVE FALSE
      OBVIOUS
    <3>1. pc' = [v \in Threads |-> IF v = t THEN "idle"
                     ELSE IF v \in Waiters("wait") THEN "woken" ELSE pc[v]]
      BY DEF SetBits
    <3> QED BY <1>1, <2>1, <3>1
  <2>5. bits' \subseteq bits
    BY <2>4 DEF Step, Begin, Lock, LockFails, Wait, GiveUp, TimesOut, WakesSpuriously,
                Leave, Send, Receive, Take, Give, AwaitBits, dataVars
  <2>6. call'[u] = call[u]
    <3>1. CASE Begin(t) \/ LockFails(t)
      <4>1. pc'[t] # "waiting"
        BY <1>2, <3>1 DEF Begin, LockFails
      <4>2. \E c : call' = [call EXCEPT ![t] = c]
        BY <3>1 DEF Begin, LockFails, Returns
      <4> QED BY <1>1, <1>2, <4>1, <4>2
    <3>2. CASE Lock(t) \/ Wait(t) \/ TimesOut(t) \/ WakesSpuriously(t)
      BY <3>2 DEF Lock, Wait, TimesOut, WakesSpuriously
    <3>3. CASE \E r, o : Ends(t, r, o)
      <4>1. pc'[t] = "idle" /\ call' = [call EXCEPT ![t] = NoCall]
        BY <3>3 DEF Ends, Returns
      <4> QED BY <1>1, <1>2, <4>1
    <3> QED BY <3>1, <3>2, <3>3, EffectsEnd DEF Step
  <2> QED BY <2>2, <2>5, <2>6, FewerBits
<1> QED BY <1>4, <1>5

LEMMA WakeupInit == PosixInit => WakeupInv
<1> SUFFICES ASSUME PosixInit PROVE WakeupInv
  OBVIOUS
<1>1. \A op : Waiters(op) = {}
  BY DEF PosixInit, Waiters
<1> QED BY <1>1, PosixInvInit DEF WakeupInv, AllCovered, Covered, NoneOverlooked

LEMMA WakeupStep == WakeupInv /\ [PosixNext]_posixVars => WakeupInv'
<1> SUFFICES ASSUME WakeupInv, [PosixNext]_posixVars PROVE WakeupInv'
  OBVIOUS
<1>1. PosixInv /\ AllCovered /\ NoneOverlooked /\ PosixInv'
  BY PosixInvStep DEF WakeupInv
<1>2. CASE UNCHANGED posixVars
  BY <1>1, <1>2 DEF posixVars, dataVars, WakeupInv, AllCovered, Covered, NoneOverlooked,
                    Waiters, Coming, Available
<1>3. ASSUME NEW t \in Threads, Step(t) PROVE WakeupInv'
  <2>1. AllCovered'
    BY <1>1, <1>3, CoveredStep DEF AllCovered
  <2>2. NoneOverlooked'
    BY <1>1, <1>3, OverlookedStep
  <2> QED BY <1>1, <2>1, <2>2 DEF WakeupInv
<1> QED BY <1>2, <1>3 DEF PosixNext

(* No thread of the POSIX OSAL sleeps beside an item, a free place or a    *)
(* unit that nobody else is on the way to take, unless a wait that timed   *)
(* out has taken the signal; and none sleeps beside the bits it waits for. *)
THEOREM WakeupsAreNotLost == PosixSpec => []NoLostWakeup
<1>1. WakeupInv => NoLostWakeup
  BY DEF WakeupInv, AllCovered, Covered, Operations, Available, NoneOverlooked, NoLostWakeup
<1> QED BY <1>1, WakeupInit, WakeupStep, PTL DEF PosixSpec
=============================================================================
