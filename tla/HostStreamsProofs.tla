-------------------------- MODULE HostStreamsProofs --------------------------
(***************************************************************************)
(* The properties of HostStreams for any number of threads and sessions,   *)
(* any credit, window and queue depth, and any channels of HCI frames.     *)
(***************************************************************************)
EXTENDS HostStreams, QueueCountsProofs

USE HostStreamsAssumption

(* Records and frames are told apart by their channels.                    *)
LEMMA JobsAre ==
    /\ \A r \in Records : r.ch \in Streams /\ r.of \in Sessions /\ r # NoRecord /\ r \in Jobs
    /\ \A f \in Frames : f.ch \in Inbound /\ f.of \in Sessions /\ f \in Jobs
    /\ \A j \in Jobs : j.ch \in Streams => j \in Records
    /\ \A s \in Streams, n \in Sessions : [ch |-> s, of |-> n] \in Records
    /\ \A c \in Inbound, n \in Sessions : [ch |-> c, of |-> n] \in Frames
    /\ \A j \in Jobs : j = [ch |-> j.ch, of |-> j.of] /\ j.of \in Nat
    /\ Streams = {"hci", "ota"} /\ Streams \cap Inbound = {}
    /\ Sessions \subseteq Nat /\ 0 \in Sessions
<1>1. \A r \in Records : r.ch \in Streams /\ r.ch # "none"
  BY DEF Records, Streams
<1>2. NoRecord.ch = "none"
  BY DEF NoRecord
<1>3. Streams \cap Inbound = {}
  BY DEF Streams
<1>4. \A f \in Frames : f.ch \in Inbound
  BY DEF Frames
<1> QED BY <1>1, <1>2, <1>3, <1>4 DEF Records, Frames, Jobs, Streams, Sessions

-----------------------------------------------------------------------------
(* Type correctness.                                                       *)

LEMMA LessTyped == \A n \in Nat : OneLess(n) \in Nat /\ OneLess(n) <= n
BY DEF OneLess

(* What taking a promise back does to the counters.                        *)
LEMMA TakesBackCounts ==
    ASSUME TypeOK, NEW r \in Records, TakesBack(r)
    PROVE  /\ inflight' \in [Streams -> Nat] /\ crossed' \in [Streams -> Nat]
           /\ \A s \in Streams :
                 /\ inflight'[s] = IF r.ch = s THEN OneLess(inflight[s]) ELSE inflight[s]
                 /\ crossed'[s] = IF r.ch = s /\ r.of # opened THEN crossed[s] + 1
                                                               ELSE crossed[s]
<1>1. r.ch \in Streams /\ inflight[r.ch] \in Nat /\ crossed[r.ch] \in Nat
  BY JobsAre DEF TypeOK
<1>2. inflight' = [inflight EXCEPT ![r.ch] = OneLess(inflight[r.ch])]
  BY DEF TakesBack
<1>3. crossed' = IF r.of = opened THEN crossed
                                  ELSE [crossed EXCEPT ![r.ch] = crossed[r.ch] + 1]
  BY DEF TakesBack
<1>4. inflight \in [Streams -> Nat] /\ crossed \in [Streams -> Nat]
  BY DEF TypeOK
<1>5. OneLess(inflight[r.ch]) \in Nat /\ crossed[r.ch] + 1 \in Nat
  BY <1>1, LessTyped
<1>6. /\ inflight' \in [Streams -> Nat]
      /\ \A s \in Streams :
             inflight'[s] = IF r.ch = s THEN OneLess(inflight[s]) ELSE inflight[s]
  BY <1>1, <1>2, <1>4, <1>5
<1>7. /\ crossed' \in [Streams -> Nat]
      /\ \A s \in Streams :
             crossed'[s] = IF r.ch = s /\ r.of # opened THEN crossed[s] + 1 ELSE crossed[s]
  BY <1>1, <1>3, <1>4, <1>5
<1> QED BY <1>6, <1>7

LEMMA ForgetTyped ==
    ASSUME TypeOK, ForgetStreams
    PROVE  /\ session' \in Sessions /\ supported' \in [Streams -> BOOLEAN]
           /\ bluetooth' \in BluetoothStates /\ stopped' \in BOOLEAN
           /\ inflight' \in [Streams -> Nat] /\ abandoned' \in [Streams -> Nat]
           /\ crossed' \in [Streams -> Nat] /\ freed' \in [Streams -> BOOLEAN]
<1>1. session' \in Sessions /\ crossed' \in [Streams -> Nat]
  BY JobsAre DEF ForgetStreams, TypeOK
<1>2. bluetooth' \in BluetoothStates /\ stopped' \in BOOLEAN
  BY DEF ForgetStreams, BluetoothStates
<1>3. /\ supported' \in [Streams -> BOOLEAN] /\ inflight' \in [Streams -> Nat]
      /\ abandoned' \in [Streams -> Nat] /\ freed' \in [Streams -> BOOLEAN]
  BY DEF ForgetStreams
<1> QED BY <1>1, <1>2, <1>3

LEMMA TakesTyped ==
    ASSUME TypeOK, NEW S, TakesNext(S)
    PROVE  /\ queue' \in Seq(Jobs) /\ Len(queue') <= Depth
           /\ Head(queue) \in Jobs /\ Head(queue) \in S /\ queue # <<>>
           /\ queue' = Tail(queue)
BY DEF TakesNext, TypeOK

LEMMA TypeStep == TypeOK /\ [Next]_vars => TypeOK'
<1> SUFFICES ASSUME TypeOK, [Next]_vars PROVE TypeOK'
  OBVIOUS
<1>1. CASE Start
  BY <1>1 DEF Start, bluezVars, recordVars, waitVars, rxVars, TypeOK
<1>2. CASE Stop
  <2>1. queue' \in Seq(Jobs) /\ Len(queue') <= Depth
    BY <1>2 DEF Stop, TypeOK
  <2>2. session' \in Sessions /\ running' \in BOOLEAN
    BY <1>2, JobsAre DEF Stop
  <2>3. abandoned' \in [Streams -> Nat]
    <3>1. \A s \in Streams : CountIn(queue, RecordsOf(s)) \in Nat
      BY CountType DEF TypeOK
    <3>2. \A s \in Streams : abandoned[s] + CountIn(queue, RecordsOf(s)) \in Nat
      BY <3>1 DEF TypeOK
    <3> QED BY <1>2, <3>2 DEF Stop
  <2>4. waiting' \in [Streams -> BOOLEAN]
    BY <1>2 DEF Stop
  <2> QED BY <1>2, <2>1, <2>2, <2>3, <2>4 DEF Stop, bluezVars, rxVars, TypeOK
<1>3. CASE LoseSession
  <2>1. credit' \in [Streams -> 0 .. InitialCredit]
    BY <1>3 DEF LoseSession
  <2> QED BY <1>3, <2>1, ForgetTyped DEF LoseSession, rxVars, TypeOK
<1>4. CASE OpenSession
  <2>1. opened' \in Sessions /\ session' \in Sessions
    BY <1>4 DEF OpenSession, TypeOK, Sessions
  <2>2. /\ credit' \in [Streams -> 0 .. InitialCredit] /\ crossed' \in [Streams -> Nat]
        /\ freed' \in [Streams -> BOOLEAN] /\ supported' \in [Streams -> BOOLEAN]
        /\ window' \in [Inbound -> Nat] /\ gone' \in [Inbound -> Nat]
    BY <1>4 DEF OpenSession
  <2>3. bluetooth' \in BluetoothStates /\ stopped' \in BOOLEAN
    BY <1>4 DEF OpenSession, BluetoothStates
  <2> QED BY <1>4, <2>1, <2>2, <2>3 DEF OpenSession, TypeOK
<1>5. ASSUME NEW t \in Threads, NEW s \in Streams, Admit(t, s) PROVE TypeOK'
  <2>1. [ch |-> s, of |-> opened] \in Records
    BY JobsAre DEF TypeOK
  <2> QED BY <1>5, <2>1 DEF Admit, linkVars, bluezVars, rxVars, TypeOK
<1>6. ASSUME NEW s \in Streams, RefuseForCredit(s) PROVE TypeOK'
  BY <1>6 DEF RefuseForCredit, linkVars, bluezVars, recordVars, rxVars, TypeOK
<1>7. ASSUME NEW t \in Threads, Enqueue(t) PROVE TypeOK'
  <2>1. at[t] \in Jobs
    BY <1>7, JobsAre DEF Enqueue, TypeOK
  <2> QED BY <1>7, <2>1 DEF Enqueue, linkVars, bluezVars, waitVars, rxVars, TypeOK
<1>8. ASSUME NEW t \in Threads, GiveUp(t) PROVE TypeOK'
  <2>1. PICK r \in Records : r = at[t] /\ TakesBack(r)
    BY <1>8 DEF GiveUp, TypeOK
  <2>2. inflight' \in [Streams -> Nat] /\ crossed' \in [Streams -> Nat]
    BY <2>1, TakesBackCounts
  <2> QED BY <1>8, <2>2 DEF GiveUp, linkVars, bluezVars, rxVars, TypeOK
<1>9. CASE HandleRecord
  <2>1. PICK r \in Records : r = Head(queue)
    BY <1>9, TakesTyped DEF HandleRecord
  <2>2. TakesBack(r) /\ r.ch \in Streams
    BY <1>9, <2>1, JobsAre DEF HandleRecord
  <2>3. inflight' \in [Streams -> Nat] /\ crossed' \in [Streams -> Nat]
    BY <2>2, TakesBackCounts
  <2>4. \/ credit' = credit /\ freed' = [freed EXCEPT ![r.ch] = TRUE]
        \/ credit[r.ch] > 0 /\ credit' = [credit EXCEPT ![r.ch] = credit[r.ch] - 1]
           /\ freed' = freed
    BY <1>9, <2>1, Zenon DEF HandleRecord
  <2>5. credit' \in [Streams -> 0 .. InitialCredit] /\ freed' \in [Streams -> BOOLEAN]
    <3>1. credit[r.ch] > 0 => credit[r.ch] - 1 \in 0 .. InitialCredit
      BY <2>2 DEF TypeOK
    <3> QED BY <2>2, <2>4, <3>1 DEF TypeOK
  <2>6. queue' \in Seq(Jobs) /\ Len(queue') <= Depth
    BY <1>9, TakesTyped DEF HandleRecord
  <2> QED BY <1>9, <2>3, <2>5, <2>6 DEF HandleRecord, linkVars, bluezVars, rxVars, TypeOK
<1>10. CASE HandleOtherSession
  <2>1. queue' \in Seq(Jobs) /\ Len(queue') <= Depth
    BY <1>10, TakesTyped DEF HandleOtherSession
  <2> QED BY <1>10, <2>1, ForgetTyped DEF HandleOtherSession, rxVars, TypeOK
<1>11. CASE HandleFrame \/ HandleMalformed \/ HandleFrameStopped
  <2>1. queue' \in Seq(Jobs) /\ Len(queue') <= Depth /\ Head(queue) \in Frames
    BY <1>11, TakesTyped DEF HandleFrame, HandleMalformed, HandleFrameStopped, TakesFrame
  <2>2. PICK f \in Frames : f = Head(queue)
    BY <2>1
  <2>3. f.ch \in Inbound
    BY JobsAre
  <2>4. window' \in [Inbound -> Nat] /\ gone' \in [Inbound -> Nat]
    BY <1>11, <2>2, <2>3
       DEF HandleFrame, HandleMalformed, HandleFrameStopped, Returned, Withheld, TypeOK
  <2>5. bluetooth' \in BluetoothStates /\ stopped' \in BOOLEAN
    BY <1>11 DEF HandleFrame, HandleMalformed, HandleFrameStopped, bluezVars, TypeOK,
                 BluetoothStates
  <2> QED BY <1>11, <2>1, <2>4, <2>5
          DEF HandleFrame, HandleMalformed, HandleFrameStopped, linkVars, recordVars,
              waitVars, TypeOK
<1>12. CASE HandleStateChanged
  BY <1>12 DEF HandleStateChanged, linkVars, recordVars, waitVars, rxVars, TypeOK
<1>13. ASSUME NEW s \in Streams, CreditUpdate(s) PROVE TypeOK'
  <2>1. credit[s] + 1 \in 0 .. InitialCredit
    BY <1>13 DEF CreditUpdate, TypeOK
  <2>2. waiting' \in [Streams -> BOOLEAN]
    BY <1>13 DEF CreditUpdate, TypeOK
  <2> QED BY <1>13, <2>1, <2>2 DEF CreditUpdate, linkVars, bluezVars, rxVars, TypeOK
<1>14. ASSUME NEW c \in Inbound, OnFrame(c) PROVE TypeOK'
  <2>1. PICK f \in Frames : f = [ch |-> c, of |-> opened]
    BY JobsAre DEF TypeOK
  <2>2. queue' \in Seq(Jobs) /\ Len(queue') <= Depth
    <3>1. queue' = queue \/ (Len(queue) < Depth /\ queue' = Append(queue, f))
      BY <1>14, <2>1 DEF OnFrame
    <3>2. queue \in Seq(Jobs) /\ Len(queue) <= Depth /\ f \in Jobs
      BY JobsAre DEF TypeOK
    <3>3. Append(queue, f) \in Seq(Jobs) /\ Len(Append(queue, f)) = Len(queue) + 1
      BY <3>2
    <3>4. Len(queue) \in Nat
      BY <3>2
    <3> QED BY <3>1, <3>2, <3>3, <3>4
  <2>3. window' \in [Inbound -> Nat] /\ gone' \in [Inbound -> Nat]
    <3>1. /\ window' = [window EXCEPT ![c] = window[c] - 1] /\ window[c] > 0
          /\ gone' = gone \/ gone' = [gone EXCEPT ![c] = gone[c] + 1]
      BY <1>14, Zenon DEF OnFrame
    <3>2. window \in [Inbound -> Nat] /\ gone \in [Inbound -> Nat]
      BY DEF TypeOK
    <3>3. window[c] - 1 \in Nat /\ gone[c] + 1 \in Nat
      BY <3>1, <3>2
    <3>4. window' \in [Inbound -> Nat]
      BY <3>1, <3>2, <3>3
    <3> QED BY <3>1, <3>2, <3>3, <3>4
  <2> QED BY <1>14, <2>2, <2>3 DEF OnFrame, linkVars, bluezVars, recordVars, waitVars, TypeOK
<1>15. CASE UNCHANGED vars
  BY <1>15 DEF vars, linkVars, bluezVars, recordVars, waitVars, rxVars, TypeOK
<1> QED BY <1>1, <1>2, <1>3, <1>4, <1>5, <1>6, <1>7, <1>8, <1>9, <1>10, <1>11, <1>12,
           <1>13, <1>14, <1>15 DEF Next, Link, Send, Worker

(* The state of the streams is well typed; in particular the counters of   *)
(* promises never wrap below zero (host_bluetooth.c:222, host_ota.c:379,   *)
(* host.c:416).                                                            *)
THEOREM TypeCorrect == Spec => []TypeOK
<1>1. ASSUME Init PROVE TypeOK
  <2>1. queue \in Seq(Jobs) /\ Len(queue) <= Depth
    BY <1>1 DEF Init
  <2>2. at \in [Threads -> Records \cup {NoRecord}]
    BY <1>1 DEF Init
  <2>3. session \in Sessions /\ opened \in Sessions /\ bluetooth \in BluetoothStates
    BY <1>1, JobsAre DEF Init, BluetoothStates
  <2>4. /\ supported \in [Streams -> BOOLEAN] /\ credit \in [Streams -> 0 .. InitialCredit]
        /\ inflight \in [Streams -> Nat] /\ crossed \in [Streams -> Nat]
        /\ abandoned \in [Streams -> Nat] /\ waiting \in [Streams -> BOOLEAN]
        /\ freed \in [Streams -> BOOLEAN]
    BY <1>1 DEF Init
  <2>5. window \in [Inbound -> Nat] /\ gone \in [Inbound -> Nat]
    BY <1>1 DEF Init
  <2> QED BY <1>1, <2>1, <2>2, <2>3, <2>4, <2>5 DEF Init, TypeOK
<1> QED BY <1>1, TypeStep, PTL DEF Spec

-----------------------------------------------------------------------------
(* The records that wait.  What one step does to their number, counted     *)
(* over the queue q and what the threads hold, a.                          *)

Held(a, P) == {t \in Threads : a[t] \in P}
Waits(q, a, P) == CountIn(q, P) + Cardinality(Held(a, P))

LEMMA HeldFinite == \A a, P : IsFiniteSet(Held(a, P)) /\ Cardinality(Held(a, P)) \in Nat
<1> TAKE a, P
<1>1. Held(a, P) \subseteq Threads
  BY DEF Held
<1> QED BY <1>1, FS_Subset, FS_CardinalityType

LEMMA WaitsType ==
    ASSUME NEW q \in Seq(Jobs), NEW a, NEW P
    PROVE  Waits(q, a, P) \in Nat
<1>1. CountIn(q, P) \in Nat /\ Cardinality(Held(a, P)) \in Nat
  BY CountType, HeldFinite
<1> QED BY <1>1 DEF Waits

(* Between a and b the thread t takes the record x up.                     *)
TakesUp(a, b, t, x) ==
    /\ t \in Threads /\ a[t] = NoRecord /\ b[t] = x
    /\ \A u \in Threads \ {t} : b[u] = a[u]

LEMMA HeldMore ==
    ASSUME NEW a, NEW b, NEW t, NEW x, TakesUp(a, b, t, x), NEW P, NoRecord \notin P
    PROVE  Cardinality(Held(b, P)) = Cardinality(Held(a, P)) + IF x \in P THEN 1 ELSE 0
<1>1. Held(b, P) = IF x \in P THEN Held(a, P) \cup {t} ELSE Held(a, P)
  BY DEF Held, TakesUp
<1>2. t \notin Held(a, P)
  BY DEF Held, TakesUp
<1>3. Cardinality(Held(a, P) \cup {t}) = Cardinality(Held(a, P)) + 1
  BY <1>2, HeldFinite, FS_AddElement
<1> QED BY <1>1, <1>3, HeldFinite

(* One more waits once a thread has taken it up, ...                       *)
LEMMA WaitsTaken ==
    ASSUME NEW q \in Seq(Jobs), NEW a, NEW b, NEW t, NEW x, TakesUp(a, b, t, x),
           NEW P, NoRecord \notin P
    PROVE  Waits(q, b, P) = Waits(q, a, P) + IF x \in P THEN 1 ELSE 0
<1>1. Cardinality(Held(b, P)) = Cardinality(Held(a, P)) + IF x \in P THEN 1 ELSE 0
  BY HeldMore
<1>2. CountIn(q, P) \in Nat /\ Cardinality(Held(a, P)) \in Nat
  BY CountType, HeldFinite
<1> QED BY <1>1, <1>2 DEF Waits

(* ... as many when the thread queues it, ...                              *)
LEMMA WaitsQueued ==
    ASSUME NEW q \in Seq(Jobs), NEW a, NEW b, NEW t, NEW x \in Jobs, TakesUp(b, a, t, x),
           NEW P, NoRecord \notin P
    PROVE  Waits(Append(q, x), b, P) = Waits(q, a, P)
<1>1. Cardinality(Held(a, P)) = Cardinality(Held(b, P)) + IF x \in P THEN 1 ELSE 0
  BY HeldMore
<1>2. CountIn(Append(q, x), P) = CountIn(q, P) + IF x \in P THEN 1 ELSE 0
  BY CountAppend
<1>3. CountIn(q, P) \in Nat /\ Cardinality(Held(b, P)) \in Nat
  BY CountType, HeldFinite
<1>4. /\ Waits(Append(q, x), b, P) = CountIn(Append(q, x), P) + Cardinality(Held(b, P))
      /\ Waits(q, a, P) = CountIn(q, P) + Cardinality(Held(a, P))
  BY DEF Waits
<1> QED BY <1>1, <1>2, <1>3, <1>4

(* ... and one less when it leaves the queue.                              *)
LEMMA WaitsServed ==
    ASSUME NEW q \in Seq(Jobs), q # <<>>, NEW a, NEW P
    PROVE  Waits(q, a, P) = Waits(Tail(q), a, P) + IF Head(q) \in P THEN 1 ELSE 0
<1>1. CountIn(q, P) = CountIn(Tail(q), P) + IF Head(q) \in P THEN 1 ELSE 0
  BY CountTail
<1>2. Tail(q) \in Seq(Jobs)
  OBVIOUS
<1>3. CountIn(Tail(q), P) \in Nat /\ Cardinality(Held(a, P)) \in Nat
  BY <1>2, CountType, HeldFinite
<1>4. /\ Waits(q, a, P) = CountIn(q, P) + Cardinality(Held(a, P))
      /\ Waits(Tail(q), a, P) = CountIn(Tail(q), P) + Cardinality(Held(a, P))
  BY DEF Waits
<1> QED BY <1>1, <1>3, <1>4

(* A frame of the coprocessor is no record.                                *)
LEMMA WaitsFramed ==
    ASSUME NEW q \in Seq(Jobs), NEW a, NEW f \in Jobs, NEW P, f \notin P
    PROVE  Waits(Append(q, f), a, P) = Waits(q, a, P)
<1>1. CountIn(Append(q, f), P) = CountIn(q, P) + 0
  BY CountAppend
<1>2. CountIn(q, P) \in Nat
  BY CountType
<1> QED BY <1>1, <1>2 DEF Waits

(* All records of a stream, and those admitted in session n.               *)
OfSession(s, n) == {[ch |-> s, of |-> n]}

LEMMA OutstandingIs ==
    TypeOK => \A s \in Streams : Outstanding(s) = Waits(queue, at, RecordsOf(s))
<1> SUFFICES ASSUME TypeOK, NEW s \in Streams
             PROVE  Outstanding(s) = Waits(queue, at, RecordsOf(s))
  OBVIOUS
<1>1. \A r \in Records \cup {NoRecord} : r.ch = s <=> r \in RecordsOf(s)
  <2>1. \A r \in Records : r.ch = s <=> r \in RecordsOf(s)
    BY DEF Records, RecordsOf
  <2>2. NoRecord.ch # s
    BY DEF NoRecord, Streams
  <2>3. NoRecord \notin RecordsOf(s)
    BY <2>2 DEF RecordsOf
  <2> QED BY <2>1, <2>2, <2>3
<1>2. {t \in Threads : at[t].ch = s} = Held(at, RecordsOf(s))
  BY <1>1 DEF Held, TypeOK
<1> QED BY <1>2 DEF Outstanding, Waits

LEMMA FreshIs ==
    \A s \in Streams : Fresh(s) = Waits(queue, at, OfSession(s, opened))
<1> TAKE s \in Streams
<1>1. PICK r : r = [ch |-> s, of |-> opened]
  OBVIOUS
<1>2. Fresh(s) = CountIn(queue, {r}) + Cardinality({t \in Threads : at[t] = r})
  BY <1>1 DEF Fresh
<1>3. {t \in Threads : at[t] = r} = Held(at, {r})
  BY DEF Held
<1> QED BY <1>1, <1>2, <1>3 DEF OfSession, Waits

LEMMA MembersAre ==
    \A s \in Streams, n \in Sessions :
        /\ NoRecord \notin RecordsOf(s) /\ NoRecord \notin OfSession(s, n)
        /\ \A r \in Records : /\ r \in RecordsOf(s) <=> r.ch = s
                              /\ r \in OfSession(s, n) <=> r.ch = s /\ r.of = n
        /\ \A f \in Frames : f \notin RecordsOf(s) /\ f \notin OfSession(s, n)
<1> TAKE s \in Streams, n \in Sessions
<1>1. RecordsOf(s) \subseteq Records /\ OfSession(s, n) \subseteq Records
  BY JobsAre DEF RecordsOf, Records, OfSession
<1>2. NoRecord \notin Records /\ \A f \in Frames : f \notin Records
  BY JobsAre
<1>3. \A r \in Records : r \in RecordsOf(s) <=> r.ch = s
  BY DEF Records, RecordsOf
<1>4. \A r \in Records : r \in OfSession(s, n) <=> r.ch = s /\ r.of = n
  BY DEF Records, OfSession
<1> QED BY <1>1, <1>2, <1>3, <1>4

(* The numbers before and after a step, as counts over queue and at.       *)
LEMMA CountsAre ==
    ASSUME TypeOK, TypeOK'
    PROVE  \A s \in Streams :
               /\ Outstanding(s) = Waits(queue, at, RecordsOf(s))
               /\ Outstanding(s)' = Waits(queue', at', RecordsOf(s))
               /\ Fresh(s) = Waits(queue, at, OfSession(s, opened))
               /\ Fresh(s)' = Waits(queue', at', OfSession(s, opened'))
               /\ Outstanding(s) \in Nat /\ Outstanding(s)' \in Nat
               /\ Fresh(s) \in Nat /\ Fresh(s)' \in Nat
<1>1. (\A s \in Streams : Outstanding(s) = Waits(queue, at, RecordsOf(s)))'
  BY OutstandingIs, PTL
<1>2. (\A s \in Streams : Fresh(s) = Waits(queue, at, OfSession(s, opened)))'
  BY FreshIs, PTL
<1>3. queue \in Seq(Jobs) /\ queue' \in Seq(Jobs)
  BY DEF TypeOK
<1> QED BY <1>1, <1>2, <1>3, OutstandingIs, FreshIs, WaitsType

-----------------------------------------------------------------------------
(* No record or frame is of a session that was not opened yet, and the     *)
(* session there is was the last to be opened.                             *)

QueueKnown == \A i \in 1 .. Len(queue) : queue[i].of <= opened
HeldKnown == \A t \in Threads : at[t] # NoRecord => at[t].of <= opened
SessionIsLast == session # 0 => session = opened
Known == QueueKnown /\ HeldKnown /\ SessionIsLast

LEMMA QueueKnownStep ==
    ASSUME TypeOK, TypeOK', QueueKnown, opened' = opened \/ opened' = opened + 1,
           \/ queue' = queue
           \/ queue # <<>> /\ queue' = Tail(queue)
           \/ \E x \in Jobs : x.of <= opened /\ queue' = Append(queue, x)
           \/ queue' = <<>>
    PROVE  QueueKnown'
<1>1. opened \in Nat /\ opened <= opened' /\ Len(queue) \in Nat /\ queue \in Seq(Jobs)
  <2>1. queue \in Seq(Jobs) /\ opened \in Sessions
    BY DEF TypeOK
  <2>2. opened \in Nat
    BY <2>1, JobsAre
  <2>3. Len(queue) \in Nat
    BY <2>1
  <2> QED BY <2>1, <2>2, <2>3
<1>2. \A i \in 1 .. Len(queue) : queue[i].of \in Nat /\ queue[i].of <= opened'
  <2>1. \A i \in 1 .. Len(queue) : queue[i].of \in Nat /\ queue[i].of <= opened
    BY <1>1, JobsAre DEF QueueKnown
  <2> QED BY <1>1, <2>1
<1>3. CASE queue' = queue
  BY <1>2, <1>3 DEF QueueKnown
<1>4. CASE queue # <<>> /\ queue' = Tail(queue)
  <2>1. /\ Len(queue') = Len(queue) - 1
        /\ \A i \in 1 .. Len(queue') : queue'[i] = queue[i + 1]
    BY <1>1, <1>4
  <2> QED BY <1>1, <1>2, <2>1 DEF QueueKnown
<1>5. ASSUME NEW x \in Jobs, x.of <= opened, queue' = Append(queue, x) PROVE QueueKnown'
  <2>1. /\ Len(queue') = Len(queue) + 1
        /\ \A i \in 1 .. Len(queue') : queue'[i] = IF i = Len(queue) + 1 THEN x ELSE queue[i]
    BY <1>1, <1>5
  <2>2. x.of <= opened'
    BY <1>1, <1>5, JobsAre
  <2> QED BY <1>1, <1>2, <2>1, <2>2 DEF QueueKnown
<1>6. CASE queue' = <<>>
  BY <1>6 DEF QueueKnown
<1> QED BY <1>3, <1>4, <1>5, <1>6

LEMMA HeldKnownStep ==
    ASSUME TypeOK, TypeOK', HeldKnown, opened' = opened \/ opened' = opened + 1,
           \A t \in Threads :
               at'[t] = at[t] \/ at'[t] = NoRecord \/ at'[t].of = opened
    PROVE  HeldKnown'
<1>1. opened \in Nat /\ opened <= opened'
  <2>1. opened \in Nat
    BY JobsAre DEF TypeOK
  <2> QED BY <2>1
<1>2. \A t \in Threads : at[t] # NoRecord => at[t].of \in Nat
  <2>1. \A t \in Threads : at[t] # NoRecord => at[t] \in Records
    BY DEF TypeOK
  <2>2. \A r \in Records : r.of \in Nat
    BY JobsAre
  <2> QED BY <2>1, <2>2
<1> QED BY <1>1, <1>2 DEF HeldKnown

LEMMA KnownStep == TypeOK /\ TypeOK' /\ Known /\ [Next]_vars => Known'
<1> SUFFICES ASSUME TypeOK, TypeOK', Known, [Next]_vars PROVE Known'
  OBVIOUS
<1> USE DEF Known
<1>1. CASE UNCHANGED <<session, opened, queue, at>>
  BY <1>1 DEF QueueKnown, HeldKnown, SessionIsLast
<1>2. ASSUME opened' = opened, at' = at, session' = session \/ session' = 0,
             \/ queue' = queue
             \/ queue # <<>> /\ queue' = Tail(queue)
             \/ queue' = <<>>
      PROVE  Known'
  BY <1>2, QueueKnownStep, HeldKnownStep DEF SessionIsLast
<1>3. CASE OpenSession
  <2>1. /\ opened' = opened + 1 /\ session' = opened' /\ queue' = queue /\ at' = at
    BY <1>3 DEF OpenSession
  <2> QED BY <2>1, QueueKnownStep, HeldKnownStep DEF SessionIsLast
<1>4. ASSUME NEW t \in Threads, NEW s \in Streams, Admit(t, s) PROVE Known'
  <2>1. PICK x : x = [ch |-> s, of |-> opened]
    OBVIOUS
  <2>2. /\ UNCHANGED <<opened, session, queue>> /\ x.of = opened
        /\ at' = [at EXCEPT ![t] = x]
    BY <1>4, <2>1 DEF Admit, linkVars
  <2>3. \A u \in Threads : at'[u] = at[u] \/ at'[u].of = opened
    BY <2>2 DEF TypeOK
  <2> QED BY <2>2, <2>3, QueueKnownStep, HeldKnownStep DEF SessionIsLast
<1>5. ASSUME NEW t \in Threads, Enqueue(t) \/ GiveUp(t) PROVE Known'
  <2>1. /\ UNCHANGED <<opened, session>> /\ at[t] # NoRecord
        /\ at' = [at EXCEPT ![t] = NoRecord]
        /\ queue' = queue \/ queue' = Append(queue, at[t])
    BY <1>5 DEF Enqueue, GiveUp, linkVars
  <2>2. at[t] \in Jobs /\ at[t].of <= opened
    BY <2>1, JobsAre DEF TypeOK, HeldKnown
  <2>3. \A u \in Threads : at'[u] = at[u] \/ at'[u] = NoRecord
    BY <2>1 DEF TypeOK
  <2> QED BY <2>1, <2>2, <2>3, QueueKnownStep, HeldKnownStep DEF SessionIsLast
<1>6. ASSUME NEW c \in Inbound, OnFrame(c) PROVE Known'
  <2>1. PICK f \in Frames : f = [ch |-> c, of |-> opened]
    BY JobsAre DEF TypeOK
  <2>2. f \in Jobs /\ f.of = opened /\ opened \in Nat
    BY <2>1, JobsAre DEF TypeOK
  <2>3. /\ UNCHANGED <<opened, session, at>>
        /\ queue' = queue \/ queue' = Append(queue, f)
    BY <1>6, <2>1 DEF OnFrame, linkVars, recordVars
  <2> QED BY <2>2, <2>3, QueueKnownStep, HeldKnownStep DEF SessionIsLast
<1>7. CASE HandleRecord \/ HandleOtherSession \/ HandleFrame \/ HandleMalformed
           \/ HandleFrameStopped
  <2>1. queue # <<>> /\ queue' = Tail(queue)
    BY <1>7 DEF HandleRecord, HandleOtherSession, HandleFrame, HandleMalformed,
                HandleFrameStopped, TakesFrame, TakesNext
  <2>2. opened' = opened /\ at' = at /\ (session' = session \/ session' = 0)
    BY <1>7 DEF HandleRecord, HandleOtherSession, HandleFrame, HandleMalformed,
                HandleFrameStopped, ForgetStreams, linkVars, recordVars
  <2> QED BY <1>2, <2>1, <2>2
<1>8. CASE Stop \/ LoseSession
  BY <1>2, <1>8 DEF Stop, LoseSession, ForgetStreams
<1>9. CASE Start \/ HandleStateChanged \/ UNCHANGED vars
  BY <1>1, <1>9 DEF Start, HandleStateChanged, linkVars, recordVars, vars
<1>10. ASSUME NEW s \in Streams, RefuseForCredit(s) \/ CreditUpdate(s) PROVE Known'
  BY <1>1, <1>10 DEF RefuseForCredit, CreditUpdate, linkVars, recordVars
<1> QED BY <1>3, <1>4, <1>5, <1>6, <1>7, <1>8, <1>9, <1>10 DEF Next, Link, Send, Worker

LEMMA KnownInvariant == Spec => []Known
<1>1. Init => Known
  BY DEF Init, Known, QueueKnown, HeldKnown, SessionIsLast
<1> QED BY <1>1, KnownStep, TypeCorrect, PTL DEF Spec

-----------------------------------------------------------------------------
(* The promises.                                                           *)

CreditCovers == \A s \in Streams : inflight[s] <= credit[s]
PromiseInv == CreditCovers /\ PromisesCounted

(* The two conjuncts of a stream, as arithmetic over the counts before and *)
(* after a step: i promises, c credit, o records, f of them of this        *)
(* session, x of them crossed, a abandoned.                                *)
Kept(s) ==
    /\ inflight[s] <= credit[s]
    /\ inflight[s] <= Outstanding(s) + abandoned[s]
    /\ session # 0 => Fresh(s) <= inflight[s] + crossed[s]

LEMMA KeptIs == PromiseInv <=> \A s \in Streams : Kept(s)
BY DEF PromiseInv, CreditCovers, PromisesCounted, Kept

LEMMA NumbersAre ==
    ASSUME TypeOK
    PROVE  \A s \in Streams :
               /\ inflight[s] \in Nat /\ credit[s] \in Nat /\ credit[s] <= InitialCredit
               /\ crossed[s] \in Nat /\ abandoned[s] \in Nat
BY DEF TypeOK

(* No record is of the session that opens.                                 *)
LEMMA OpenWaits ==
    TypeOK /\ Known /\ OpenSession =>
        \A s \in Streams : Waits(queue', at', OfSession(s, opened')) = 0
<1> SUFFICES ASSUME TypeOK, Known, OpenSession, NEW s \in Streams
             PROVE  Waits(queue', at', OfSession(s, opened')) = 0
  OBVIOUS
<1>1. PICK r : r = [ch |-> s, of |-> opened']
  OBVIOUS
<1>2. OfSession(s, opened') = {r}
  BY <1>1 DEF OfSession
<1>3. opened \in Nat /\ r.of = opened + 1 /\ queue' = queue /\ at' = at
  <2>1. opened \in Nat
    BY JobsAre DEF TypeOK
  <2> QED BY <1>1, <2>1 DEF OpenSession
<1>4. r # NoRecord
  <2>1. r.ch # NoRecord.ch
    BY <1>1 DEF NoRecord, Streams
  <2> QED BY <2>1
<1>5. {i \in DOMAIN queue : queue[i] \in {r}} = {}
  <2>1. \A i \in 1 .. Len(queue) : queue[i].of <= opened
    BY DEF Known, QueueKnown
  <2>2. DOMAIN queue = 1 .. Len(queue)
    BY DEF TypeOK
  <2>3. ~(r.of <= opened)
    BY <1>3
  <2> QED BY <2>1, <2>2, <2>3
<1>6. Held(at, {r}) = {}
  BY <1>3, <1>4 DEF Known, HeldKnown, Held
<1>7. CountIn(queue, {r}) = 0 /\ Cardinality(Held(at, {r})) = 0
  BY <1>5, <1>6, FS_EmptySet DEF CountIn
<1> QED BY <1>2, <1>3, <1>7 DEF Waits

(* A record r leaves: it is taken back and, if it is of s, waits no more.  *)
LEMMA LeavesKept ==
    ASSUME TypeOK, TypeOK', NEW s \in Streams, Kept(s), NEW r \in Records, TakesBack(r),
           UNCHANGED <<session, opened, abandoned>>,
           Waits(queue, at, RecordsOf(s)) =
               Waits(queue', at', RecordsOf(s)) + (IF r \in RecordsOf(s) THEN 1 ELSE 0),
           Waits(queue, at, OfSession(s, opened)) =
               Waits(queue', at', OfSession(s, opened))
                   + (IF r \in OfSession(s, opened) THEN 1 ELSE 0),
           \/ credit'[s] = credit[s]
           \/ credit'[s] = credit[s] - 1 /\ r.ch = s /\ credit[s] > 0
    PROVE  Kept(s)'
<1>1. /\ inflight'[s] = IF r.ch = s THEN OneLess(inflight[s]) ELSE inflight[s]
      /\ crossed'[s] = IF r.ch = s /\ r.of # opened THEN crossed[s] + 1 ELSE crossed[s]
  BY TakesBackCounts
<1>2. /\ r \in RecordsOf(s) <=> r.ch = s
      /\ r \in OfSession(s, opened) <=> r.ch = s /\ r.of = opened
  BY MembersAre DEF TypeOK
<1>3. /\ Outstanding(s) = Outstanding(s)' + IF r.ch = s THEN 1 ELSE 0
      /\ Fresh(s) = Fresh(s)' + IF r.ch = s /\ r.of = opened THEN 1 ELSE 0
      /\ Outstanding(s)' \in Nat /\ Fresh(s)' \in Nat
  BY <1>2, CountsAre
<1>4. /\ inflight[s] \in Nat /\ credit[s] \in Nat
      /\ crossed[s] \in Nat /\ abandoned[s] \in Nat
  BY NumbersAre
<1>5. inflight'[s] <= credit'[s]
  BY <1>1, <1>4 DEF Kept, OneLess
<1>6. inflight'[s] <= Outstanding(s)' + abandoned'[s]
  BY <1>1, <1>3, <1>4 DEF Kept, OneLess
<1>7. session' # 0 => Fresh(s)' <= inflight'[s] + crossed'[s]
  BY <1>1, <1>3, <1>4 DEF Kept, OneLess
<1> QED BY <1>5, <1>6, <1>7 DEF Kept

(* Nothing the promises depend on changes.                                 *)
LEMMA SameKept ==
    ASSUME TypeOK, TypeOK', NEW s \in Streams, Kept(s),
           UNCHANGED <<opened, inflight, crossed, abandoned>>,
           session' = session \/ session' = 0,
           credit'[s] \in Nat, credit'[s] >= credit[s],
           Waits(queue', at', RecordsOf(s)) = Waits(queue, at, RecordsOf(s)),
           Waits(queue', at', OfSession(s, opened)) = Waits(queue, at, OfSession(s, opened))
    PROVE  Kept(s)'
<1>1. Outstanding(s)' = Outstanding(s) /\ Fresh(s)' = Fresh(s)
  BY CountsAre
<1>2. /\ inflight[s] \in Nat /\ credit[s] \in Nat
      /\ Outstanding(s) \in Nat /\ Fresh(s) \in Nat
  BY NumbersAre, CountsAre
<1>3. inflight'[s] <= credit'[s]
  BY <1>2 DEF Kept
<1>4. inflight'[s] <= Outstanding(s)' + abandoned'[s]
  BY <1>1 DEF Kept
<1>5. session' # 0 => Fresh(s)' <= inflight'[s] + crossed'[s]
  BY <1>1 DEF Kept
<1> QED BY <1>3, <1>4, <1>5 DEF Kept

(* The head of the queue is a frame, which is no record.                   *)
LEMMA FrameWaits ==
    ASSUME TypeOK, NEW s \in Streams, queue # <<>>, Head(queue) \in Frames,
           queue' = Tail(queue), at' = at
    PROVE  /\ Waits(queue', at', RecordsOf(s)) = Waits(queue, at, RecordsOf(s))
           /\ Waits(queue', at', OfSession(s, opened)) = Waits(queue, at, OfSession(s, opened))
<1>1. Head(queue) \notin RecordsOf(s) /\ Head(queue) \notin OfSession(s, opened)
  BY MembersAre DEF TypeOK
<1>2. queue \in Seq(Jobs) /\ Tail(queue) \in Seq(Jobs)
  BY DEF TypeOK
<1>3. \A P : Waits(Tail(queue), at, P) \in Nat
  BY <1>2, WaitsType
<1>4. \A P : Waits(queue, at, P) = Waits(Tail(queue), at, P) + IF Head(queue) \in P THEN 1 ELSE 0
  BY <1>2, WaitsServed
<1> QED BY <1>1, <1>3, <1>4

LEMMA KeptStep ==
    ASSUME TypeOK, TypeOK', Known, [Next]_vars, NEW s \in Streams, Kept(s)
    PROVE  Kept(s)'
<1>0. /\ inflight[s] \in Nat /\ credit[s] \in Nat /\ credit[s] <= InitialCredit
      /\ crossed[s] \in Nat /\ abandoned[s] \in Nat
      /\ queue \in Seq(Jobs) /\ opened \in Sessions /\ at \in [Threads -> Records \cup {NoRecord}]
  BY NumbersAre DEF TypeOK
<1>1. CASE UNCHANGED <<opened, recordVars, queue>> /\ (session' = session \/ session' = 0)
  BY <1>0, <1>1, SameKept DEF recordVars
<1>2. CASE Stop
  <2>1. /\ UNCHANGED <<opened, inflight, credit, crossed>> /\ at' = at /\ session' = 0
        /\ abandoned'[s] = abandoned[s] + CountIn(queue, RecordsOf(s))
        /\ \A t \in Threads : at[t] = NoRecord
    BY <1>2 DEF Stop
  <2>2. Held(at, RecordsOf(s)) = {}
    BY <2>1, <1>0, MembersAre DEF Held
  <2>3. Outstanding(s) = CountIn(queue, RecordsOf(s)) + 0
    BY <2>2, CountsAre, FS_EmptySet DEF Waits
  <2>4. CountIn(queue, RecordsOf(s)) \in Nat /\ Outstanding(s)' \in Nat
    BY <1>0, CountType, CountsAre
  <2>5. inflight'[s] <= Outstanding(s)' + abandoned'[s]
    BY <1>0, <2>1, <2>3, <2>4 DEF Kept
  <2> QED BY <2>1, <2>5 DEF Kept
<1>3. ASSUME ForgetStreams, credit'[s] \in Nat PROVE Kept(s)'
  <2>1. inflight'[s] = 0 /\ abandoned'[s] = 0 /\ session' = 0 /\ Outstanding(s)' \in Nat
    BY <1>3, CountsAre DEF ForgetStreams
  <2> QED BY <1>3, <2>1 DEF Kept
<1>4. CASE LoseSession
  BY <1>3, <1>4 DEF LoseSession
<1>5. CASE OpenSession
  <2>1. /\ credit'[s] = InitialCredit /\ crossed'[s] = 0
        /\ UNCHANGED <<inflight, abandoned, queue, at>>
    BY <1>5 DEF OpenSession
  <2>2. Outstanding(s)' = Outstanding(s) /\ Fresh(s)' = 0
    BY <1>5, <2>1, CountsAre, OpenWaits
  <2>3. inflight'[s] <= credit'[s]
    BY <1>0, <2>1 DEF Kept
  <2> QED BY <1>0, <2>1, <2>2, <2>3 DEF Kept
<1>6. ASSUME NEW t \in Threads, NEW u \in Streams, Admit(t, u) PROVE Kept(s)'
  <2>1. PICK r \in Records : r = [ch |-> u, of |-> opened]
    BY <1>0, JobsAre
  <2>2. /\ at[t] = NoRecord /\ at' = [at EXCEPT ![t] = r]
        /\ credit[u] > inflight[u] /\ inflight' = [inflight EXCEPT ![u] = inflight[u] + 1]
        /\ UNCHANGED <<session, opened, credit, crossed, abandoned, queue>>
    BY <1>6, <2>1, Zenon DEF Admit, HasUnit, linkVars
  <2>3. inflight'[s] = IF u = s THEN inflight[s] + 1 ELSE inflight[s]
    BY <2>2 DEF TypeOK
  <2>4. TakesUp(at, at', t, r)
    BY <2>2, <1>0 DEF TakesUp
  <2>5. /\ r \in RecordsOf(s) <=> u = s
        /\ r \in OfSession(s, opened) <=> u = s
        /\ NoRecord \notin RecordsOf(s) /\ NoRecord \notin OfSession(s, opened)
    BY <1>0, <2>1, MembersAre
  <2>6. /\ Waits(queue, at', RecordsOf(s)) =
               Waits(queue, at, RecordsOf(s)) + IF u = s THEN 1 ELSE 0
        /\ Waits(queue, at', OfSession(s, opened)) =
               Waits(queue, at, OfSession(s, opened)) + IF u = s THEN 1 ELSE 0
    BY <1>0, <2>4, <2>5, WaitsTaken
  <2>7. /\ Outstanding(s)' = Outstanding(s) + IF u = s THEN 1 ELSE 0
        /\ Fresh(s)' = Fresh(s) + IF u = s THEN 1 ELSE 0
        /\ Outstanding(s) \in Nat /\ Fresh(s) \in Nat
    BY <2>2, <2>6, CountsAre
  <2>8. inflight'[s] <= credit'[s]
    BY <1>0, <2>2, <2>3 DEF Kept
  <2>9. inflight'[s] <= Outstanding(s)' + abandoned'[s]
    BY <1>0, <2>2, <2>3, <2>7 DEF Kept
  <2>10. session' # 0 => Fresh(s)' <= inflight'[s] + crossed'[s]
    BY <1>0, <2>2, <2>3, <2>7 DEF Kept
  <2> QED BY <2>8, <2>9, <2>10 DEF Kept
<1>7. ASSUME NEW t \in Threads, Enqueue(t) PROVE Kept(s)'
  <2>1. PICK r \in Records : r = at[t]
    BY <1>0, <1>7 DEF Enqueue
  <2>2. /\ at' = [at EXCEPT ![t] = NoRecord] /\ queue' = Append(queue, r)
        /\ UNCHANGED <<session, opened, credit, inflight, crossed, abandoned>>
    BY <1>7, <2>1 DEF Enqueue, linkVars
  <2>3. TakesUp(at', at, t, r) /\ r \in Jobs
    BY <2>1, <2>2, <1>0, JobsAre DEF TakesUp
  <2>4. NoRecord \notin RecordsOf(s) /\ NoRecord \notin OfSession(s, opened)
    BY <1>0, MembersAre
  <2>5. /\ Waits(queue', at', RecordsOf(s)) = Waits(queue, at, RecordsOf(s))
        /\ Waits(queue', at', OfSession(s, opened)) = Waits(queue, at, OfSession(s, opened))
    BY <1>0, <2>2, <2>3, <2>4, WaitsQueued
  <2>6. credit'[s] \in Nat /\ credit'[s] >= credit[s]
    BY <1>0, <2>2
  <2> QED BY <2>2, <2>5, <2>6, SameKept
<1>8. ASSUME NEW t \in Threads, GiveUp(t) PROVE Kept(s)'
  <2>1. PICK r \in Records : r = at[t] /\ TakesBack(r)
    BY <1>0, <1>8 DEF GiveUp
  <2>2. /\ at' = [at EXCEPT ![t] = NoRecord]
        /\ UNCHANGED <<session, opened, credit, abandoned, queue>>
    BY <1>8 DEF GiveUp, linkVars
  <2>3. TakesUp(at', at, t, r)
    BY <2>1, <2>2, <1>0 DEF TakesUp
  <2>4. NoRecord \notin RecordsOf(s) /\ NoRecord \notin OfSession(s, opened)
    BY <1>0, MembersAre
  <2>5. /\ Waits(queue, at, RecordsOf(s)) =
               Waits(queue, at', RecordsOf(s)) + IF r \in RecordsOf(s) THEN 1 ELSE 0
        /\ Waits(queue, at, OfSession(s, opened)) =
               Waits(queue, at', OfSession(s, opened))
                   + IF r \in OfSession(s, opened) THEN 1 ELSE 0
    BY <1>0, <2>3, <2>4, WaitsTaken
  <2> QED BY <2>1, <2>2, <2>5, LeavesKept
<1>9. CASE HandleRecord
  <2>1. PICK r \in Records : r = Head(queue) /\ TakesBack(r)
    BY <1>9, TakesTyped DEF HandleRecord
  <2>2. /\ queue # <<>> /\ queue' = Tail(queue)
        /\ UNCHANGED <<session, opened, abandoned, at>>
    BY <1>9 DEF HandleRecord, TakesNext, linkVars
  <2>3. \/ credit' = credit
        \/ credit[r.ch] > 0 /\ credit' = [credit EXCEPT ![r.ch] = credit[r.ch] - 1]
    BY <1>9, <2>1, Zenon DEF HandleRecord
  <2>4. \/ credit'[s] = credit[s]
        \/ credit'[s] = credit[s] - 1 /\ r.ch = s /\ credit[s] > 0
    <3>1. credit \in [Streams -> 0 .. InitialCredit]
      BY DEF TypeOK
    <3>2. CASE credit' = credit
      BY <3>2
    <3>3. CASE credit[r.ch] > 0 /\ credit' = [credit EXCEPT ![r.ch] = credit[r.ch] - 1]
      <4>1. credit'[s] = IF r.ch = s THEN credit[s] - 1 ELSE credit[s]
        BY <3>1, <3>3
      <4> QED BY <3>3, <4>1
    <3> QED BY <2>3, <3>2, <3>3
  <2>5. \A P : Waits(queue, at, P) = Waits(queue', at', P) + IF Head(queue) \in P THEN 1 ELSE 0
    BY <1>0, <2>2, WaitsServed
  <2> QED BY <2>1, <2>2, <2>4, <2>5, LeavesKept
<1>10. CASE HandleOtherSession
  BY <1>0, <1>3, <1>10 DEF HandleOtherSession
<1>11. CASE HandleFrame \/ HandleMalformed \/ HandleFrameStopped
  <2>1. queue # <<>> /\ Head(queue) \in Frames /\ queue' = Tail(queue)
    BY <1>11, TakesTyped DEF HandleFrame, HandleMalformed, HandleFrameStopped, TakesFrame
  <2>2. UNCHANGED <<session, opened, credit, inflight, at, crossed, abandoned>>
    BY <1>11 DEF HandleFrame, HandleMalformed, HandleFrameStopped, linkVars, recordVars
  <2>3. credit'[s] \in Nat /\ credit'[s] >= credit[s]
    BY <1>0, <2>2
  <2> QED BY <2>1, <2>2, <2>3, FrameWaits, SameKept
<1>12. ASSUME NEW c \in Inbound, OnFrame(c) PROVE Kept(s)'
  <2>1. PICK f \in Frames : f = [ch |-> c, of |-> opened]
    BY <1>0, JobsAre
  <2>2. /\ queue' = queue \/ queue' = Append(queue, f)
        /\ UNCHANGED <<session, opened, credit, inflight, at, crossed, abandoned>>
    BY <1>12, <2>1 DEF OnFrame, linkVars, recordVars
  <2>3. f \in Jobs /\ f \notin RecordsOf(s) /\ f \notin OfSession(s, opened)
    BY <1>0, JobsAre, MembersAre
  <2>4. /\ Waits(queue', at', RecordsOf(s)) = Waits(queue, at, RecordsOf(s))
        /\ Waits(queue', at', OfSession(s, opened)) = Waits(queue, at, OfSession(s, opened))
    <3>1. \A P : f \notin P => Waits(Append(queue, f), at, P) = Waits(queue, at, P)
      BY <1>0, <2>3, WaitsFramed
    <3> QED BY <2>2, <2>3, <3>1
  <2>5. credit'[s] \in Nat /\ credit'[s] >= credit[s]
    BY <1>0, <2>2
  <2> QED BY <2>2, <2>4, <2>5, SameKept
<1>13. ASSUME NEW u \in Streams, CreditUpdate(u) PROVE Kept(s)'
  <2>1. /\ credit' = [credit EXCEPT ![u] = credit[u] + 1]
        /\ UNCHANGED <<session, opened, inflight, at, crossed, abandoned, queue>>
    BY <1>13, Zenon DEF CreditUpdate, linkVars
  <2>2. credit'[s] = IF u = s THEN credit[s] + 1 ELSE credit[s]
    BY <2>1 DEF TypeOK
  <2>3. credit'[s] \in Nat /\ credit'[s] >= credit[s]
    BY <1>0, <2>2
  <2> QED BY <2>1, <2>3, SameKept
<1>14. CASE Start \/ HandleStateChanged \/ UNCHANGED vars
  BY <1>1, <1>14 DEF Start, HandleStateChanged, linkVars, vars
<1>15. ASSUME NEW u \in Streams, RefuseForCredit(u) PROVE Kept(s)'
  BY <1>1, <1>15 DEF RefuseForCredit, linkVars
<1> QED BY <1>2, <1>4, <1>5, <1>6, <1>7, <1>8, <1>9, <1>10, <1>11, <1>12, <1>13, <1>14,
           <1>15 DEF Next, Link, Send, Worker

LEMMA PromiseInvariant == Spec => []PromiseInv
<1>1. ASSUME Init PROVE PromiseInv
  <2>1. \A s \in Streams : /\ inflight[s] = 0 /\ credit[s] = 0 /\ abandoned[s] = 0
                           /\ Outstanding(s) \in Nat /\ session = 0
    <3>1. queue = <<>> /\ at = [t \in Threads |-> NoRecord]
      BY <1>1 DEF Init
    <3>2. \A s \in Streams : CountIn(queue, RecordsOf(s)) = 0
      BY <3>1, CountEmpty
    <3>3. \A s \in Streams : {t \in Threads : at[t].ch = s} = {}
      BY <3>1 DEF NoRecord, Streams
    <3>4. \A s \in Streams : Outstanding(s) \in Nat
      <4> TAKE s \in Streams
      <4>1. Cardinality({t \in Threads : at[t].ch = s}) = 0
        BY <3>3, FS_EmptySet
      <4>2. Outstanding(s) = CountIn(queue, RecordsOf(s)) + 0
        BY <4>1 DEF Outstanding
      <4> QED BY <3>2, <4>2
    <3> QED BY <1>1, <3>4 DEF Init
  <2> QED BY <2>1 DEF PromiseInv, CreditCovers, PromisesCounted
<1>2. TypeOK /\ TypeOK' /\ Known /\ PromiseInv /\ [Next]_vars => PromiseInv'
  <2> SUFFICES ASSUME TypeOK, TypeOK', Known, PromiseInv, [Next]_vars PROVE PromiseInv'
    OBVIOUS
  <2>1. \A s \in Streams : Kept(s)'
    BY KeptIs, KeptStep
  <2>2. (PromiseInv <=> \A s \in Streams : Kept(s))'
    BY KeptIs, PTL
  <2> QED BY <2>1, <2>2
<1> QED BY <1>1, <1>2, TypeCorrect, KnownInvariant, PTL DEF Spec

(* The promises counted are those of the records that wait: a stop leaves  *)
(* too many, and a record of an earlier session too few, and nothing else  *)
(* does (host_bluetooth.c:222, host_ota.c:378, host.c:416).                *)
THEOREM PromisesAreCounted == Spec => []PromisesCounted
BY PromiseInvariant, PTL DEF PromiseInv

(* A record admitted in this session finds the unit it was promised when   *)
(* the core task hands it on (host_bluetooth.c:257, host_ota.c:329).       *)
THEOREM AdmittedFindsItsCredit == Spec => []AdmittedFindsCredit
<1>1. TypeOK /\ PromiseInv => AdmittedFindsCredit
  <2> SUFFICES ASSUME TypeOK, PromiseInv, session # 0, NEW s \in Streams, crossed[s] = 0
               PROVE  Fresh(s) <= credit[s]
    BY DEF AdmittedFindsCredit
  <2>1. Fresh(s) <= inflight[s] + crossed[s] /\ inflight[s] <= credit[s]
    BY DEF PromiseInv, CreditCovers, PromisesCounted
  <2>2. /\ inflight[s] \in Nat /\ credit[s] \in Nat
    BY NumbersAre
  <2>3. Fresh(s) \in Nat
    BY FreshIs, WaitsType DEF TypeOK
  <2> QED BY <2>1, <2>2, <2>3
<1> QED BY <1>1, TypeCorrect, PromiseInvariant, PTL

-----------------------------------------------------------------------------
(* The notice to a refused application.                                    *)

Told(s) == waiting[s] /\ credit[s] > inflight[s] => freed[s]

LEMMA ToldStep ==
    ASSUME TypeOK, [Next]_vars, NEW s \in Streams, Told(s)
    PROVE  Told(s)'
<1> USE DEF Told
<1>0. inflight[s] \in Nat /\ credit[s] \in Nat
  BY NumbersAre
<1>1. CASE UNCHANGED <<credit, inflight, waitVars>>
  BY <1>1 DEF waitVars
<1>2. CASE Stop
  BY <1>2 DEF Stop
<1>3. CASE ForgetStreams
  BY <1>3 DEF ForgetStreams
<1>4. CASE OpenSession
  BY <1>4 DEF OpenSession
<1>5. ASSUME NEW t \in Threads, NEW u \in Streams, Admit(t, u) PROVE Told(s)'
  <2>1. /\ inflight'[s] = IF u = s THEN inflight[s] + 1 ELSE inflight[s]
        /\ waiting'[s] = IF u = s THEN FALSE ELSE waiting[s]
    BY <1>5 DEF Admit, TypeOK
  <2>2. UNCHANGED <<credit, freed>>
    BY <1>5 DEF Admit
  <2> QED BY <2>1, <2>2
<1>6. ASSUME NEW u \in Streams, RefuseForCredit(u) PROVE Told(s)'
  <2>1. UNCHANGED <<credit, inflight>> /\ ~(credit[u] > inflight[u])
    BY <1>6 DEF RefuseForCredit, HasUnit, recordVars
  <2>2. u # s => waiting'[s] = waiting[s] /\ freed'[s] = freed[s]
    BY <1>6 DEF RefuseForCredit, TypeOK
  <2> QED BY <2>1, <2>2
<1>7. ASSUME NEW t \in Threads, GiveUp(t) PROVE Told(s)'
  <2>1. PICK r \in Records : r = at[t] /\ TakesBack(r)
    BY <1>7 DEF GiveUp, TypeOK
  <2>2. /\ UNCHANGED <<credit, waiting>> /\ freed' = [freed EXCEPT ![r.ch] = TRUE]
        /\ freed \in [Streams -> BOOLEAN]
    BY <1>7, <2>1 DEF GiveUp, TypeOK
  <2>3. r.ch # s => inflight'[s] = inflight[s] /\ freed'[s] = freed[s]
    BY <2>1, <2>2, TakesBackCounts
  <2>4. r.ch = s => freed'[s]
    BY <2>2
  <2> QED BY <2>2, <2>3, <2>4
<1>8. CASE HandleRecord
  <2>1. PICK r \in Records : r = Head(queue) /\ TakesBack(r)
    BY <1>8, TakesTyped DEF HandleRecord
  <2>2. /\ waiting' = waiting /\ freed \in [Streams -> BOOLEAN]
        /\ credit \in [Streams -> 0 .. InitialCredit]
        /\ \/ credit' = credit /\ freed' = [freed EXCEPT ![r.ch] = TRUE]
           \/ /\ credit[r.ch] > 0 /\ credit' = [credit EXCEPT ![r.ch] = credit[r.ch] - 1]
              /\ freed' = freed
    BY <1>8, <2>1, Zenon DEF HandleRecord, TypeOK
  <2>3. inflight'[s] = IF r.ch = s THEN OneLess(inflight[s]) ELSE inflight[s]
    BY <2>1, TakesBackCounts
  <2>4. CASE r.ch # s
    <3>1. credit'[s] = credit[s] /\ freed'[s] = freed[s]
      BY <2>2, <2>4
    <3> QED BY <2>2, <2>3, <2>4, <3>1
  <2>5. CASE r.ch = s /\ freed' = [freed EXCEPT ![r.ch] = TRUE]
    BY <2>2, <2>5
  <2>6. CASE /\ r.ch = s /\ freed' = freed /\ credit[s] > 0
             /\ credit' = [credit EXCEPT ![s] = credit[s] - 1]
    <3>1. credit'[s] = credit[s] - 1
      BY <2>2, <2>6
    <3>2. credit'[s] > inflight'[s] => credit[s] > inflight[s]
      BY <1>0, <2>3, <2>6, <3>1 DEF OneLess
    <3> QED BY <2>2, <2>6, <3>2
  <2> QED BY <2>2, <2>4, <2>5, <2>6
<1>9. ASSUME NEW u \in Streams, CreditUpdate(u) PROVE Told(s)'
  <2>1. /\ UNCHANGED <<inflight, freed>>
        /\ credit' = [credit EXCEPT ![u] = credit[u] + 1]
        /\ waiting' = [waiting EXCEPT ![u] = waiting[u] /\ ~Tells(u)]
    BY <1>9, Zenon DEF CreditUpdate
  <2>2. credit'[s] = IF u = s THEN credit[s] + 1 ELSE credit[s]
    BY <2>1 DEF TypeOK
  <2>3. waiting'[s] <=> waiting[s] /\ ~(u = s /\ Tells(s))
    BY <2>1, Zenon DEF TypeOK
  <2>4. credit'[s] > inflight[s] => credit[s] > inflight[s] \/ (u = s /\ Tells(s))
    BY <1>0, <2>2 DEF Tells
  <2> QED BY <2>1, <2>3, <2>4
<1>10. CASE LoseSession \/ HandleOtherSession
  BY <1>3, <1>10 DEF LoseSession, HandleOtherSession
<1>11. CASE \/ Start \/ HandleFrame \/ HandleMalformed \/ HandleFrameStopped
            \/ HandleStateChanged \/ UNCHANGED vars
  BY <1>1, <1>11 DEF Start, HandleFrame, HandleMalformed, HandleFrameStopped,
                     HandleStateChanged, recordVars, vars
<1>12. ASSUME NEW t \in Threads, Enqueue(t) PROVE Told(s)'
  BY <1>1, <1>12 DEF Enqueue
<1>13. ASSUME NEW c \in Inbound, OnFrame(c) PROVE Told(s)'
  BY <1>1, <1>13 DEF OnFrame, recordVars
<1> QED BY <1>2, <1>4, <1>5, <1>6, <1>7, <1>8, <1>9, <1>10, <1>11, <1>12, <1>13
        DEF Next, Link, Send, Worker

(* An application refused for credit is told when a credit update brings   *)
(* some: it waits in vain only where the unit came free without an update  *)
(* (host_link.c:228-245).                                                  *)
THEOREM RefusedApplicationIsTold == Spec => []RefusedIsTold
<1>1. Init => RefusedIsTold
  BY DEF Init, RefusedIsTold
<1>2. TypeOK /\ RefusedIsTold /\ [Next]_vars => RefusedIsTold'
  <2> SUFFICES ASSUME TypeOK, RefusedIsTold, [Next]_vars PROVE RefusedIsTold'
    OBVIOUS
  <2>1. \A s \in Streams : Told(s)'
    BY ToldStep DEF RefusedIsTold, Told
  <2> QED BY <2>1 DEF RefusedIsTold, Told
<1> QED BY <1>1, <1>2, TypeCorrect, PTL DEF Spec

-----------------------------------------------------------------------------
(* The window of the coprocessor.                                          *)

Accounted(c) ==
    session # 0 =>
        window[c] + CountIn(queue, OfSession(c, opened)) + gone[c] = RxWindow

LEMMA FramesAre ==
    \A c \in Inbound, n \in Sessions :
        /\ \A r \in Records : r \notin OfSession(c, n)
        /\ \A f \in Frames : f \in OfSession(c, n) <=> f.ch = c /\ f.of = n
<1> TAKE c \in Inbound, n \in Sessions
<1>1. OfSession(c, n) \subseteq Frames
  BY JobsAre DEF OfSession
<1>2. \A r \in Records : r \notin Frames
  BY JobsAre
<1>3. \A f \in Frames : f \in OfSession(c, n) <=> f.ch = c /\ f.of = n
  BY DEF Frames, OfSession
<1> QED BY <1>1, <1>2, <1>3

(* The count does not change, nor the terms it is added to.                *)
LEMMA SameAccounted ==
    ASSUME NEW c \in Inbound, Accounted(c), UNCHANGED <<opened, window, gone>>,
           session' = session \/ session' = 0,
           CountIn(queue', OfSession(c, opened)) = CountIn(queue, OfSession(c, opened))
    PROVE  Accounted(c)'
BY DEF Accounted

LEMMA AccountedStep ==
    ASSUME TypeOK, TypeOK', Known, [Next]_vars, NEW c \in Inbound, Accounted(c)
    PROVE  Accounted(c)'
<1>0. /\ window[c] \in Nat /\ gone[c] \in Nat /\ opened \in Sessions
      /\ queue \in Seq(Jobs) /\ queue' \in Seq(Jobs)
      /\ window \in [Inbound -> Nat] /\ gone \in [Inbound -> Nat]
  BY DEF TypeOK
<1>1. CASE session' = 0
  BY <1>1 DEF Accounted
<1>2. CASE UNCHANGED <<session, opened, queue, window, gone>>
  BY <1>2, SameAccounted
<1>3. CASE OpenSession
  <2>1. window'[c] = RxWindow /\ gone'[c] = 0 /\ queue' = queue /\ opened' = opened + 1
    BY <1>3 DEF OpenSession
  <2>2. {i \in DOMAIN queue : queue[i] \in OfSession(c, opened')} = {}
    <3>1. \A i \in 1 .. Len(queue) : queue[i].of <= opened
      BY DEF Known, QueueKnown
    <3>2. DOMAIN queue = 1 .. Len(queue)
      BY <1>0
    <3>3. \A f \in OfSession(c, opened') : ~(f.of <= opened)
      <4>1. opened \in Nat
        BY <1>0, JobsAre
      <4> QED BY <2>1, <4>1 DEF OfSession
    <3> QED BY <3>1, <3>2, <3>3
  <2>3. CountIn(queue', OfSession(c, opened')) = 0
    BY <2>1, <2>2, FS_EmptySet DEF CountIn
  <2> QED BY <2>1, <2>3 DEF Accounted
<1>4. ASSUME NEW t \in Threads, Enqueue(t) PROVE Accounted(c)'
  <2>1. PICK r \in Records : r = at[t]
    BY <1>4 DEF Enqueue, TypeOK
  <2>2. queue' = Append(queue, r) /\ UNCHANGED <<session, opened, window, gone>>
    BY <1>4, <2>1 DEF Enqueue, linkVars, rxVars
  <2>3. r \in Jobs /\ r \notin OfSession(c, opened)
    BY <1>0, JobsAre, FramesAre
  <2>4. CountIn(queue', OfSession(c, opened)) = CountIn(queue, OfSession(c, opened)) + 0
    BY <1>0, <2>2, <2>3, CountAppend
  <2>5. CountIn(queue, OfSession(c, opened)) \in Nat
    BY <1>0, CountType
  <2> QED BY <2>2, <2>4, <2>5, SameAccounted
<1>5. CASE HandleRecord
  <2>1. /\ Head(queue) \in Records /\ queue # <<>> /\ queue' = Tail(queue)
        /\ UNCHANGED <<session, opened, window, gone>>
    BY <1>5, TakesTyped DEF HandleRecord, linkVars, rxVars
  <2>2. Head(queue) \notin OfSession(c, opened)
    BY <1>0, <2>1, FramesAre
  <2>3. CountIn(queue, OfSession(c, opened)) = CountIn(queue', OfSession(c, opened)) + 0
    BY <1>0, <2>1, <2>2, CountTail
  <2>4. CountIn(queue', OfSession(c, opened)) \in Nat
    BY <1>0, CountType
  <2> QED BY <2>1, <2>3, <2>4, SameAccounted
<1>6. ASSUME NEW d \in Inbound, OnFrame(d) PROVE Accounted(c)'
  <2>1. PICK f \in Frames : f = [ch |-> d, of |-> opened]
    BY <1>0, JobsAre
  <2>2. /\ UNCHANGED <<session, opened>> /\ window[d] > 0
        /\ window' = [window EXCEPT ![d] = window[d] - 1]
        /\ \/ queue' = Append(queue, f) /\ gone' = gone
           \/ queue' = queue /\ gone' = [gone EXCEPT ![d] = gone[d] + 1]
    BY <1>6, <2>1, Zenon DEF OnFrame, linkVars
  <2>3. f \in Jobs /\ (f \in OfSession(c, opened) <=> d = c)
    BY <1>0, <2>1, JobsAre, FramesAre
  <2>4. window'[c] = IF d = c THEN window[c] - 1 ELSE window[c]
    BY <1>0, <2>2
  <2>5. CountIn(queue, OfSession(c, opened)) \in Nat
    BY <1>0, CountType
  <2>6. CASE queue' = Append(queue, f) /\ gone' = gone
    <3>1. CountIn(queue', OfSession(c, opened)) =
              CountIn(queue, OfSession(c, opened)) + IF d = c THEN 1 ELSE 0
      BY <1>0, <2>3, <2>6, CountAppend
    <3> QED BY <1>0, <2>2, <2>4, <2>5, <2>6, <3>1 DEF Accounted
  <2>7. CASE queue' = queue /\ gone' = [gone EXCEPT ![d] = gone[d] + 1]
    <3>1. gone'[c] = IF d = c THEN gone[c] + 1 ELSE gone[c]
      BY <1>0, <2>7
    <3> QED BY <1>0, <2>2, <2>4, <2>5, <2>7, <3>1 DEF Accounted
  <2> QED BY <2>2, <2>6, <2>7
<1>7. CASE HandleFrame \/ HandleMalformed \/ HandleFrameStopped
  <2>1. /\ Head(queue) \in Frames /\ queue # <<>> /\ queue' = Tail(queue)
        /\ session = 0 \/ Head(queue).of = session
    BY <1>7, TakesTyped DEF HandleFrame, HandleMalformed, HandleFrameStopped, TakesFrame
  <2>2. PICK f \in Frames : f = Head(queue) /\ (session = 0 \/ f.of = session)
    BY <2>1
  <2>3. /\ UNCHANGED <<session, opened>>
        /\ (Returned(f) /\ gone' = gone) \/ (Withheld(f) /\ window' = window)
    BY <1>7, <2>2 DEF HandleFrame, HandleMalformed, HandleFrameStopped, linkVars
  <2>4. CASE session = 0
    BY <1>1, <2>3, <2>4
  <2>5. CASE session # 0
    <3>1. f.of = session /\ session = opened
      BY <2>2, <2>5 DEF Known, SessionIsLast
    <3>2. f \in OfSession(c, opened) <=> f.ch = c
      BY <1>0, <3>1, FramesAre
    <3>3. CountIn(queue, OfSession(c, opened)) =
              CountIn(queue', OfSession(c, opened)) + IF f.ch = c THEN 1 ELSE 0
      BY <1>0, <2>1, <2>2, <3>2, CountTail
    <3>4. CountIn(queue', OfSession(c, opened)) \in Nat
      BY <1>0, CountType
    <3>5. \/ window' = [window EXCEPT ![f.ch] = window[f.ch] + 1] /\ gone' = gone
          \/ gone' = [gone EXCEPT ![f.ch] = gone[f.ch] + 1] /\ window' = window
      BY <2>3, <3>1, Zenon DEF Returned, Withheld
    <3>6. \/ window'[c] = window[c] + (IF f.ch = c THEN 1 ELSE 0) /\ gone'[c] = gone[c]
          \/ gone'[c] = gone[c] + (IF f.ch = c THEN 1 ELSE 0) /\ window'[c] = window[c]
      BY <1>0, <3>5
    <3>7. window'[c] + CountIn(queue', OfSession(c, opened)) + gone'[c] = RxWindow
      <4>1. window[c] + CountIn(queue, OfSession(c, opened)) + gone[c] = RxWindow
        BY <2>5 DEF Accounted
      <4>2. PICK n \in Nat : n = CountIn(queue', OfSession(c, opened))
        BY <3>4
      <4>3. window[c] \in Nat /\ gone[c] \in Nat /\ RxWindow \in Nat
        BY <1>0
      <4>4. CountIn(queue, OfSession(c, opened)) = n + IF f.ch = c THEN 1 ELSE 0
        BY <3>3, <4>2
      <4>5. window[c] + (n + IF f.ch = c THEN 1 ELSE 0) + gone[c] = RxWindow
        BY <4>1, <4>4
      <4>6. window'[c] + n + gone'[c] = RxWindow
        BY <3>6, <4>3, <4>5
      <4> QED BY <4>2, <4>6
    <3> QED BY <2>3, <3>7 DEF Accounted
  <2> QED BY <2>4, <2>5
<1>8. CASE Stop \/ LoseSession \/ HandleOtherSession
  BY <1>1, <1>8 DEF Stop, LoseSession, HandleOtherSession, ForgetStreams
<1>9. CASE Start \/ HandleStateChanged \/ UNCHANGED vars
  BY <1>2, <1>9 DEF Start, HandleStateChanged, linkVars, rxVars, vars
<1>10. ASSUME NEW s \in Streams, RefuseForCredit(s) \/ CreditUpdate(s) PROVE Accounted(c)'
  BY <1>2, <1>10 DEF RefuseForCredit, CreditUpdate, linkVars, rxVars
<1>11. ASSUME NEW t \in Threads, GiveUp(t) \/ \E s \in Streams : Admit(t, s)
       PROVE  Accounted(c)'
  BY <1>2, <1>11 DEF Admit, GiveUp, linkVars, rxVars
<1> QED BY <1>3, <1>4, <1>5, <1>6, <1>7, <1>8, <1>9, <1>10, <1>11 DEF Next, Link, Send, Worker

(* Every unit of the coprocessor's window is with it, with a frame in the  *)
(* queue, or withheld for a reason the code names (host_bluetooth.c:391,   *)
(* 404-411, host_frame.c:419).                                             *)
THEOREM WindowIsAccounted == Spec => []WindowAccounted
<1>1. WindowAccounted <=> \A c \in Inbound : Accounted(c)
  BY DEF WindowAccounted, Accounted, OfSession
<1>2. Init => WindowAccounted
  BY DEF Init, WindowAccounted
<1>3. TypeOK /\ TypeOK' /\ Known /\ WindowAccounted /\ [Next]_vars => WindowAccounted'
  <2> SUFFICES ASSUME TypeOK, TypeOK', Known, WindowAccounted, [Next]_vars
               PROVE  WindowAccounted'
    OBVIOUS
  <2>1. \A c \in Inbound : Accounted(c)'
    BY <1>1, AccountedStep
  <2>2. (WindowAccounted <=> \A c \in Inbound : Accounted(c))'
    BY <1>1, PTL
  <2> QED BY <2>1, <2>2
<1> QED BY <1>2, <1>3, TypeCorrect, KnownInvariant, PTL DEF Spec

=============================================================================
