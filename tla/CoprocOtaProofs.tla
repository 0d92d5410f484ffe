-------------------------- MODULE CoprocOtaProofs --------------------------
(***************************************************************************)
(* The safety properties of CoprocOta for every image size, chunk size,    *)
(* alignment and credit window, and every number of sessions, transfers    *)
(* and operations.                                                         *)
(***************************************************************************)
EXTENDS CoprocOta, FiniteSetTheorems, TLAPS

USE CoprocOtaAssumption

-----------------------------------------------------------------------------
(* Type correctness.                                                       *)

LEMMA BytesAre == Bytes \subseteq Nat /\ 0 \in Bytes /\ ImageSizes \subseteq Bytes
                      /\ \A b \in Bytes : 0 .. b \subseteq Bytes
BY DEF Bytes

LEMMA SubmitTyped ==
    ASSUME TypeOK, NEW method \in {"BEGIN", "FINALIZE", "ABORT", "ACTIVATE"},
           NEW t \in Transfers, Submit(method, t)
    PROVE  pending' \in Pending /\ submitted' \in 0 .. MaxOp /\ ops' \subseteq Operations
BY DEF Submit, TypeOK, Pending, Operations

LEMMA TypeStep == TypeOK /\ [Next]_vars => TypeOK'
<1> SUFFICES ASSUME TypeOK, [Next]_vars PROVE TypeOK'
  OBVIOUS
<1> USE DEF TypeOK
<1>0. Bytes \subseteq Nat /\ 0 \in Bytes /\ ImageSizes \subseteq Bytes
      /\ (\A b \in Bytes : 0 .. b \subseteq Bytes) /\ NoOp \in Pending
  BY BytesAre DEF Pending
<1>1. CASE Hello
  BY <1>0, <1>1 DEF Hello, Reset, transferVars, creditVars, backendVars, Sessions, States
<1>2. CASE Stop
  BY <1>2 DEF Stop, transferVars, backendVars, Sessions
<1>3. ASSUME NEW n \in ImageSizes, Begin(n) PROVE TypeOK'
  <2>1. transfer' \in Transfers /\ begun' \in Transfers
    BY <1>3 DEF Begin, Transfers
  <2>2. pending' \in Pending /\ submitted' \in 0 .. MaxOp /\ ops' \subseteq Operations
    BY <1>3, <2>1, SubmitTyped DEF Begin
  <2>3. images' \in [Transfers -> ImageSizes \cup {0}]
    BY <1>3, <2>1 DEF Begin
  <2> QED BY <1>0, <1>3, <2>1, <2>2, <2>3 DEF Begin, creditVars
<1>4. ASSUME NEW t \in Transfers, Finalize(t) \/ Activate(t) PROVE TypeOK'
  <2>1. pending' \in Pending /\ submitted' \in 0 .. MaxOp /\ ops' \subseteq Operations
    BY <1>4, SubmitTyped DEF Finalize, Activate
  <2> QED BY <1>4, <2>1 DEF Finalize, Activate, transferVars, creditVars, States
<1>5. ASSUME NEW t \in Transfers, Abort(t) PROVE TypeOK'
  <2>1. pending' \in Pending /\ submitted' \in 0 .. MaxOp /\ ops' \subseteq Operations
    BY <1>5, SubmitTyped DEF Abort
  <2> QED BY <1>5, <2>1 DEF Abort, creditVars, States
<1>6. ASSUME NEW o \in ops, NEW ok \in BOOLEAN, OperationCompletes(o, ok) PROVE TypeOK'
  <2>1. o.transfer \in Transfers
    BY DEF Operations
  <2>2. After(pending.method, ok) \in States
    BY DEF After, States
  <2> QED BY <1>0, <1>6, <2>1, <2>2 DEF OperationCompletes, creditVars
<1>7. CASE ChunkDropped \/ ChunkRejected
  BY <1>7 DEF ChunkDropped, ChunkRejected, Returned, NotReturned, transferVars, backendVars,
              States
<1>8. ASSUME NEW t \in Transfers, NEW off \in Bytes, NEW n \in Bytes, ChunkTaken(t, off, n)
      PROVE  TypeOK'
  <2>1. accepted' \in Bytes
    <3>1. off = accepted /\ n <= size - off /\ accepted' = accepted + n
          /\ accepted \in Nat /\ n \in Nat /\ size \in Bytes
      BY <1>0, <1>8 DEF ChunkTaken, ChunkArrives, Fits
    <3>2. accepted + n \in 0 .. size
      BY <1>0, <3>1
    <3> QED BY <1>0, <3>1, <3>2
  <2>2. [transfer |-> t, offset |-> off, size |-> n, session |-> session, is |-> "held"]
            \in Chunks
    BY DEF Chunks
  <2> QED BY <1>8, <2>1, <2>2 DEF ChunkTaken, ChunkArrives
<1>9. ASSUME NEW t \in Transfers, NEW off \in Bytes, NEW n \in Bytes, ChunkRefused(t, off, n)
      PROVE  TypeOK'
  BY <1>9 DEF ChunkRefused, ChunkArrives, Returned, NotReturned, transferVars, backendVars,
              States
<1>10. ASSUME NEW c \in chunks, NEW ok \in BOOLEAN, NEW report \in Bytes,
              WriteCompletes(c, ok, report)
       PROVE  TypeOK'
  <2>1. [c EXCEPT !.is = IF ok THEN "durable" ELSE "failed"] \in Chunks
    BY DEF Chunks
  <2> QED BY <1>10, <2>1 DEF WriteCompletes, States
<1>11. CASE UNCHANGED vars
  BY <1>11 DEF vars, transferVars, backendVars, creditVars
<1> QED BY <1>1, <1>2, <1>3, <1>4, <1>5, <1>6, <1>7, <1>8, <1>9, <1>10, <1>11
        DEF Next, Request, Stream, Backend

(* The state of the service is well typed; in particular no more bytes are *)
(* accepted than an image has (coproc_ota.c:475).                          *)
THEOREM TypeCorrect == Spec => []TypeOK
<1>1. Init => TypeOK
  BY BytesAre DEF Init, TypeOK, Sessions, Transfers, States, Pending, Operations
<1> QED BY <1>1, TypeStep, PTL DEF Spec

-----------------------------------------------------------------------------
(* Activation.  An operation id stands for one operation: the completion   *)
(* that ends the pending operation is of its method and its transfer.      *)

OpsKnown ==
    /\ \A o \in ops : o.op <= submitted
    /\ pending # NoOp =>
           /\ pending.op <= submitted
           /\ \A o \in ops : o.op = pending.op =>
                  o.transfer = pending.transfer /\ o.method = pending.method

(* Only an image that was verified is ready to be activated.               *)
ReadyIsVerified == state = "READY_TO_ACTIVATE" => transfer \in verified

ActivateInv == OpsKnown /\ PendingIsCurrent /\ ReadyIsVerified /\ ActivatesVerified

LEMMA SubmitKnown ==
    ASSUME TypeOK, OpsKnown, NEW method, NEW t, Submit(method, t)
    PROVE  OpsKnown' /\ (pending' # NoOp => pending'.transfer = t)
<1>1. /\ submitted \in Nat /\ submitted' = submitted + 1
      /\ \A o \in ops : o.op \in Nat /\ o.op <= submitted
  BY DEF TypeOK, Operations, Submit, OpsKnown
<1>2. CASE pending' = NoOp /\ ops' = ops
  BY <1>1, <1>2 DEF OpsKnown
<1>3. ASSUME NEW p, NEW new,
             p = [op |-> submitted', transfer |-> t, session |-> session,
                  method |-> method],
             new = [op |-> submitted', transfer |-> t, method |-> method],
             pending' = p, ops' = ops \cup {new}
      PROVE  OpsKnown' /\ pending'.transfer = t
  <2>1. /\ p.op = submitted' /\ p.transfer = t /\ p.method = method
        /\ new.op = submitted' /\ new.transfer = t /\ new.method = method
    BY <1>3
  <2>2. \A o \in ops : o.op # submitted' /\ o.op <= submitted'
    BY <1>1
  <2> QED BY <1>1, <1>3, <2>1, <2>2 DEF OpsKnown
<1> QED BY <1>2, <1>3 DEF Submit

LEMMA ActivateStep == TypeOK /\ ActivateInv /\ [Next]_vars => ActivateInv'
<1> SUFFICES ASSUME TypeOK, ActivateInv, [Next]_vars PROVE ActivateInv'
  OBVIOUS
<1> USE DEF ActivateInv
<1>1. CASE Hello
  BY <1>1 DEF Hello, Reset, backendVars, OpsKnown, PendingIsCurrent, ReadyIsVerified,
              ActivatesVerified
<1>2. CASE Stop \/ ChunkDropped
  BY <1>2 DEF Stop, ChunkDropped, transferVars, backendVars, OpsKnown, PendingIsCurrent,
              ReadyIsVerified, ActivatesVerified
<1>3. ASSUME NEW n \in ImageSizes, Begin(n) PROVE ActivateInv'
  <2>1. OpsKnown' /\ (pending' # NoOp => pending'.transfer = transfer')
    BY <1>3, SubmitKnown DEF Begin
  <2> QED BY <1>3, <2>1 DEF Begin, Idle, PendingIsCurrent, ReadyIsVerified, ActivatesVerified
<1>4. ASSUME NEW t \in Transfers, Finalize(t) \/ Activate(t) PROVE ActivateInv'
  <2>1. OpsKnown' /\ (pending' # NoOp => pending'.transfer = t)
    BY <1>4, SubmitKnown DEF Finalize, Activate
  <2> QED BY <1>4, <2>1 DEF Finalize, Activate, transferVars, PendingIsCurrent,
              ReadyIsVerified, ActivatesVerified
<1>5. ASSUME NEW t \in Transfers, Abort(t) PROVE ActivateInv'
  <2>1. CASE canAbort
    <3>1. OpsKnown' /\ (pending' # NoOp => pending'.transfer = t)
      BY <1>5, <2>1, SubmitKnown DEF Abort
    <3> QED BY <1>5, <2>1, <3>1 DEF Abort, PendingIsCurrent, ReadyIsVerified,
                ActivatesVerified
  <2>2. CASE ~canAbort
    BY <1>5, <2>2 DEF Abort, Free, OpsKnown, PendingIsCurrent, ReadyIsVerified,
                      ActivatesVerified
  <2> QED BY <2>1, <2>2
<1>6. ASSUME NEW o \in ops, NEW ok \in BOOLEAN, OperationCompletes(o, ok)
      PROVE  ActivateInv'
  <2>1. verified \subseteq verified' /\ activated' = activated /\ submitted' = submitted
        /\ ops' = ops \ {o}
    BY <1>6 DEF OperationCompletes
  <2>2. ActivatesVerified'
    BY <2>1 DEF ActivatesVerified
  <2>3. CASE ~Finishes(o)
    BY <1>6, <2>1, <2>2, <2>3 DEF OperationCompletes, OpsKnown, PendingIsCurrent, ReadyIsVerified
  <2>4. CASE Finishes(o)
    <3>1. /\ pending' = NoOp /\ state' = After(pending.method, ok)
          /\ transfer' # transfer => state' = "IDLE"
      BY <1>6, <2>4 DEF OperationCompletes, After
    <3>2. /\ o.transfer = pending.transfer /\ o.method = pending.method
          /\ pending.transfer = transfer
      BY <2>4 DEF Finishes, OpsKnown, PendingIsCurrent
    <3>3. OpsKnown' /\ PendingIsCurrent'
      BY <2>1, <3>1 DEF OpsKnown, PendingIsCurrent
    <3>4. ASSUME state' = "READY_TO_ACTIVATE" PROVE transfer' \in verified'
      <4>1. transfer' = transfer
        BY <3>1, <3>4
      <4>2. CASE ok /\ pending.method = "FINALIZE"
        BY <1>6, <3>2, <4>1, <4>2 DEF OperationCompletes
      <4>3. CASE ~(ok /\ pending.method = "FINALIZE")
        <5>1. state = "READY_TO_ACTIVATE"
          BY <3>1, <3>4, <4>3 DEF After
        <5> QED BY <2>1, <4>1, <5>1 DEF ReadyIsVerified
      <4> QED BY <4>2, <4>3
    <3> QED BY <2>2, <3>3, <3>4 DEF ReadyIsVerified
  <2> QED BY <2>3, <2>4
<1>7. CASE ChunkRejected
  BY <1>7 DEF ChunkRejected, transferVars, backendVars, OpsKnown, PendingIsCurrent,
              ReadyIsVerified, ActivatesVerified
<1>8. ASSUME NEW t \in Transfers, NEW off \in Bytes, NEW n \in Bytes,
             ChunkTaken(t, off, n) \/ ChunkRefused(t, off, n)
      PROVE  ActivateInv'
  BY <1>8 DEF ChunkTaken, ChunkRefused, transferVars, backendVars, OpsKnown,
              PendingIsCurrent, ReadyIsVerified, ActivatesVerified
<1>9. ASSUME NEW c \in chunks, NEW ok \in BOOLEAN, NEW report \in Bytes,
             WriteCompletes(c, ok, report)
      PROVE  ActivateInv'
  BY <1>9 DEF WriteCompletes, OpsKnown, PendingIsCurrent, ReadyIsVerified, ActivatesVerified
<1>10. CASE UNCHANGED vars
  BY <1>10 DEF vars, transferVars, backendVars, OpsKnown, PendingIsCurrent,
               ReadyIsVerified, ActivatesVerified
<1> QED BY <1>1, <1>2, <1>3, <1>4, <1>5, <1>6, <1>7, <1>8, <1>9, <1>10
        DEF Next, Request, Stream, Backend

LEMMA ActivateInvariant == Spec => []ActivateInv
<1>1. Init => ActivateInv
  BY DEF Init, ActivateInv, OpsKnown, PendingIsCurrent, ReadyIsVerified, ActivatesVerified
<1> QED BY <1>1, ActivateStep, TypeCorrect, PTL DEF Spec

(* The backend is asked to activate verified images only                   *)
(* (coproc_ota.c:310, 524).                                                *)
THEOREM OnlyVerifiedActivated == Spec => []ActivatesVerified
<1>1. ActivateInv => ActivatesVerified
  BY DEF ActivateInv
<1> QED BY <1>1, ActivateInvariant, PTL

(* A completion is about the transfer that is current when it is handled   *)
(* (coproc_ota.c:144, 524).                                                *)
THEOREM OperationsStayCurrent == Spec => []PendingIsCurrent
<1>1. ActivateInv => PendingIsCurrent
  BY DEF ActivateInv
<1> QED BY <1>1, ActivateInvariant, PTL

-----------------------------------------------------------------------------
(* The chunks.                                                             *)

(* The bytes accepted so far are those of the present transfer's chunks.   *)
AcceptedIsEnd ==
    transfer # 0 =>
        /\ transfer <= begun /\ images[transfer] = size
        /\ \A c \in chunks : c.transfer = transfer => c.offset + c.size <= accepted
        /\ accepted = 0 \/ \E c \in chunks :
               c.transfer = transfer /\ c.offset + c.size = accepted

ChunksKnown ==
    \A c \in chunks : c.transfer <= begun /\ c.session <= opened /\ c.size # 0

ChunkInv ==
    /\ AcceptedIsEnd /\ ChunksKnown /\ ChunksTile
    /\ session <= opened /\ IsFiniteSet(chunks)

(* A step that leaves the chunks and the images alone.                     *)
LEMMA ChunksUnchanged ==
    ASSUME TypeOK, ChunkInv, UNCHANGED <<chunks, images, begun>>, opened' \in Nat,
           opened' >= opened, session' <= opened',
           transfer' = 0 \/ UNCHANGED <<transfer, size, accepted>>
    PROVE  ChunkInv'
<1>1. ChunksTile' /\ IsFiniteSet(chunks)'
  BY DEF ChunkInv, ChunksTile
<1>2. \A c \in chunks : c.session \in Nat
  BY DEF TypeOK, Chunks, Sessions
<1>3. ChunksKnown'
  BY <1>2 DEF ChunkInv, ChunksKnown, TypeOK, Sessions
<1>4. AcceptedIsEnd'
  BY DEF ChunkInv, AcceptedIsEnd
<1> QED BY <1>1, <1>3, <1>4 DEF ChunkInv

LEMMA TakenKept ==
    ASSUME TypeOK, ChunkInv, NEW t \in Transfers, NEW off \in Bytes, NEW n \in Bytes,
           ChunkTaken(t, off, n)
    PROVE  ChunkInv'
<1> DEFINE new == [transfer |-> t, offset |-> off, size |-> n, session |-> session,
                   is |-> "held"]
<1>1. PICK c : c = new
  OBVIOUS
<1>2. /\ chunks' = chunks \cup {c} /\ c.transfer = t /\ c.offset = off /\ c.size = n
      /\ c.session = session
  BY <1>1 DEF ChunkTaken
<1> HIDE DEF new
<1>3. /\ t = transfer /\ off = accepted /\ n <= size - off
      /\ off % Alignment = 0 /\ (off + n = size \/ n % Alignment = 0) /\ n > 0
      /\ accepted' = accepted + n
      /\ UNCHANGED <<session, opened, transfer, begun, size, images>>
  BY DEF ChunkTaken, ChunkArrives, Fits
<1>4. /\ off \in Nat /\ n \in Nat /\ accepted \in Nat /\ size \in Nat /\ transfer # 0
      /\ transfer <= begun /\ images[transfer] = size
      /\ accepted' \in Nat /\ accepted <= accepted'
  BY <1>3, BytesAre DEF TypeOK, Transfers, ChunkInv, AcceptedIsEnd
<1>5. \A d \in chunks : d.offset \in Nat /\ d.size \in Nat
  BY BytesAre DEF TypeOK, Chunks
<1>6. \A d \in chunks : d.transfer = transfer => d.offset + d.size <= accepted
  BY <1>4 DEF ChunkInv, AcceptedIsEnd
<1>7. ChunksTile'
  <2>1. /\ c.offset + c.size <= images[c.transfer] /\ c.offset % Alignment = 0
        /\ c.size % Alignment = 0 \/ c.offset + c.size = images[c.transfer]
    BY <1>2, <1>3, <1>4
  <2>2. c.offset = 0 \/ \E d \in chunks :
            d.transfer = c.transfer /\ d.offset + d.size = c.offset
    BY <1>2, <1>3, <1>4 DEF ChunkInv, AcceptedIsEnd
  <2>3. \A d \in chunks : d.transfer = c.transfer => d.offset + d.size <= c.offset
    BY <1>2, <1>3, <1>6
  <2> QED BY <1>2, <1>3, <2>1, <2>2, <2>3 DEF ChunkInv, ChunksTile
<1>8. AcceptedIsEnd'
  <2>1. c.offset + c.size = accepted'
    BY <1>2, <1>3
  <2>2. \A d \in chunks : d.transfer = transfer => d.offset + d.size <= accepted'
    BY <1>4, <1>5, <1>6
  <2>3. c.offset + c.size <= accepted'
    BY <1>4, <2>1
  <2> QED BY <1>2, <1>3, <1>4, <2>1, <2>2, <2>3 DEF AcceptedIsEnd
<1>9. ChunksKnown' /\ (session <= opened)'
  BY <1>2, <1>3, <1>4 DEF ChunkInv, ChunksKnown
<1>10. IsFiniteSet(chunks')
  BY <1>2, FS_AddElement DEF ChunkInv
<1> QED BY <1>7, <1>8, <1>9, <1>10 DEF ChunkInv

LEMMA WrittenKept ==
    ASSUME TypeOK, ChunkInv, NEW c \in chunks, NEW ok \in BOOLEAN, NEW report \in Bytes,
           WriteCompletes(c, ok, report)
    PROVE  ChunkInv'
<1>1. PICK w : w = [c EXCEPT !.is = IF ok THEN "durable" ELSE "failed"]
  OBVIOUS
<1>2. /\ chunks' = (chunks \ {c}) \cup {w}
      /\ UNCHANGED <<session, opened, transfer, begun, size, accepted, images>>
  BY <1>1 DEF WriteCompletes
<1>3. /\ w.transfer = c.transfer /\ w.offset = c.offset /\ w.size = c.size
      /\ w.session = c.session
  BY <1>1 DEF TypeOK, Chunks
<1>4. \A d \in chunks' : d = w \/ (d \in chunks /\ d # c)
  BY <1>2
<1>5. \A d \in chunks : \E e \in chunks' : e.transfer = d.transfer /\ e.offset = d.offset
                                               /\ e.size = d.size
  BY <1>2, <1>3
<1>6. ChunksTile'
  <2>1. ASSUME NEW e \in chunks'
        PROVE  /\ e.offset + e.size <= images[e.transfer] /\ e.offset % Alignment = 0
               /\ e.size % Alignment = 0 \/ e.offset + e.size = images[e.transfer]
               /\ e.offset = 0 \/ \E d \in chunks' :
                      d.transfer = e.transfer /\ d.offset + d.size = e.offset
    <3>1. PICK d \in chunks : e.transfer = d.transfer /\ e.offset = d.offset
                                  /\ e.size = d.size
      BY <1>3, <1>4
    <3>2. d.offset = 0 \/ \E f \in chunks' :
              f.transfer = d.transfer /\ f.offset + f.size = d.offset
      BY <1>5 DEF ChunkInv, ChunksTile
    <3> QED BY <3>1, <3>2 DEF ChunkInv, ChunksTile
  <2>2. ASSUME NEW e \in chunks', NEW d \in chunks', d.transfer = e.transfer, d # e
        PROVE  d.offset + d.size <= e.offset \/ e.offset + e.size <= d.offset
    BY <1>3, <1>4, <2>2 DEF ChunkInv, ChunksTile
  <2> QED BY <1>2, <2>1, <2>2 DEF ChunksTile
<1>7. AcceptedIsEnd'
  <2> SUFFICES ASSUME transfer # 0 PROVE AcceptedIsEnd'
    BY <1>2 DEF AcceptedIsEnd
  <2>1. \A d \in chunks' : d.transfer = transfer => d.offset + d.size <= accepted
    BY <1>3, <1>4 DEF ChunkInv, AcceptedIsEnd
  <2>2. accepted = 0 \/ \E d \in chunks' :
            d.transfer = transfer /\ d.offset + d.size = accepted
    BY <1>5 DEF ChunkInv, AcceptedIsEnd
  <2>3. transfer <= begun /\ images[transfer] = size
    BY DEF ChunkInv, AcceptedIsEnd
  <2> QED BY <1>2, <2>1, <2>2, <2>3 DEF AcceptedIsEnd
<1>8. ChunksKnown' /\ (session <= opened)'
  BY <1>2, <1>3, <1>4 DEF ChunkInv, ChunksKnown
<1>9. IsFiniteSet(chunks')
  <2>1. IsFiniteSet(chunks \ {c})
    BY FS_RemoveElement DEF ChunkInv
  <2> QED BY <1>2, <2>1, FS_AddElement
<1> QED BY <1>6, <1>7, <1>8, <1>9 DEF ChunkInv

LEMMA ChunkStep == TypeOK /\ ChunkInv /\ [Next]_vars => ChunkInv'
<1> SUFFICES ASSUME TypeOK, ChunkInv, [Next]_vars PROVE ChunkInv'
  OBVIOUS
<1>0. opened \in Nat /\ session \in Nat /\ session <= opened /\ begun \in Nat
  BY DEF TypeOK, Sessions, Transfers, ChunkInv
<1>1. CASE Hello
  <2>1. /\ opened' \in {opened, opened + 1} /\ session' \in {session, 0, opened'}
        /\ (session' = session => opened' >= opened) /\ transfer' = 0
        /\ UNCHANGED <<chunks, images, begun>>
    BY <1>0, <1>1 DEF Hello, Reset, backendVars
  <2>2. opened' \in Nat /\ opened' >= opened /\ session' <= opened'
    BY <1>0, <2>1
  <2> QED BY <2>1, <2>2, ChunksUnchanged
<1>2. CASE Stop
  BY <1>0, <1>2, ChunksUnchanged DEF Stop, transferVars, backendVars
<1>3. ASSUME NEW n \in ImageSizes, Begin(n) PROVE ChunkInv'
  <2>1. /\ begun' = begun + 1 /\ transfer' = begun' /\ size' = n /\ accepted' = 0
        /\ images' = [images EXCEPT ![transfer'] = n] /\ transfer' \in Transfers
        /\ UNCHANGED <<chunks, session, opened>>
    BY <1>0, <1>3 DEF Begin, Transfers
  <2>2. images'[transfer'] = n /\ \A t \in Transfers : t # transfer' => images'[t] = images[t]
    BY <2>1 DEF TypeOK
  <2>3. \A c \in chunks : c.transfer \in Transfers /\ c.transfer # transfer'
                              /\ c.transfer <= begun'
    <3>1. \A c \in chunks : c.transfer \in Transfers /\ c.transfer <= begun
      BY DEF TypeOK, Chunks, ChunkInv, ChunksKnown
    <3> QED BY <1>0, <2>1, <3>1 DEF Transfers
  <2>4. \A c \in chunks : images'[c.transfer] = images[c.transfer]
    BY <2>2, <2>3
  <2>5. ChunksTile'
    BY <2>1, <2>4 DEF ChunkInv, ChunksTile
  <2>6. AcceptedIsEnd'
    BY <1>0, <2>1, <2>2, <2>3 DEF AcceptedIsEnd
  <2>7. ChunksKnown' /\ (session <= opened)' /\ IsFiniteSet(chunks)'
    BY <1>0, <2>1, <2>3 DEF ChunkInv, ChunksKnown
  <2> QED BY <2>5, <2>6, <2>7 DEF ChunkInv
<1>4. ASSUME NEW t \in Transfers, Finalize(t) \/ Abort(t) \/ Activate(t) PROVE ChunkInv'
  <2>1. /\ UNCHANGED <<chunks, images, begun, session, opened>>
        /\ transfer' = 0 \/ UNCHANGED <<transfer, size, accepted>>
    BY <1>4 DEF Finalize, Abort, Activate, transferVars
  <2> QED BY <1>0, <2>1, ChunksUnchanged
<1>5. ASSUME NEW o \in ops, NEW ok \in BOOLEAN, OperationCompletes(o, ok) PROVE ChunkInv'
  <2>1. /\ UNCHANGED <<chunks, images, begun, session, opened>>
        /\ transfer' = 0 \/ UNCHANGED <<transfer, size, accepted>>
    BY <1>5 DEF OperationCompletes
  <2> QED BY <1>0, <2>1, ChunksUnchanged
<1>6. CASE \/ ChunkDropped \/ ChunkRejected
           \/ \E t \in Transfers, off \in Bytes, n \in Bytes : ChunkRefused(t, off, n)
  BY <1>0, <1>6, ChunksUnchanged
     DEF ChunkDropped, ChunkRejected, ChunkRefused, transferVars, backendVars
<1>7. CASE UNCHANGED vars
  BY <1>0, <1>7, ChunksUnchanged DEF vars, transferVars, backendVars
<1> QED BY <1>1, <1>2, <1>3, <1>4, <1>5, <1>6, <1>7, TakenKept, WrittenKept
        DEF Next, Request, Stream, Backend

LEMMA ChunkInvariant == Spec => []ChunkInv
<1>1. Init => ChunkInv
  <2>1. IsFiniteSet({})
    BY FS_EmptySet
  <2> QED BY <2>1 DEF Init, ChunkInv, AcceptedIsEnd, ChunksKnown, ChunksTile
<1> QED BY <1>1, ChunkStep, TypeCorrect, PTL DEF Spec

(* The chunks the backend is given cover a first part of the image, once   *)
(* (coproc_ota.c:468-483).                                                 *)
THEOREM ChunksCoverOnce == Spec => []ChunksTile
<1>1. ChunkInv => ChunksTile
  BY DEF ChunkInv
<1> QED BY <1>1, ChunkInvariant, PTL

-----------------------------------------------------------------------------
(* Credit.                                                                 *)

Held(s) == {c \in chunks : c.is = "held" /\ c.session = s}

LEMMA CreditStep == TypeOK /\ ChunkInv /\ CreditAccounted /\ [Next]_vars => CreditAccounted'
<1> SUFFICES ASSUME TypeOK, ChunkInv, CreditAccounted, [Next]_vars, session' # 0
             PROVE  credit' + Cardinality(Held(session)') + lost' = InitialCredit + extra'
  BY DEF CreditAccounted, Held
<1>0. /\ credit \in Nat /\ lost \in Nat /\ extra \in Nat /\ opened \in Nat
      /\ IsFiniteSet(chunks) /\ InitialCredit \in Nat
  BY DEF TypeOK, Sessions, ChunkInv
<1>1. IsFiniteSet(Held(session)) /\ Cardinality(Held(session)) \in Nat
  <2>1. Held(session) \subseteq chunks
    BY DEF Held
  <2> QED BY <1>0, <2>1, FS_Subset, FS_CardinalityType
<1>2. session # 0 => credit + Cardinality(Held(session)) + lost = InitialCredit + extra
  BY DEF CreditAccounted, Held
<1>3. CASE UNCHANGED <<session, chunks>>
           /\ (session # 0 => credit' + lost' = credit + lost /\ extra' = extra
                                  /\ credit' \in Nat /\ lost' \in Nat)
  <2>1. Held(session)' = Held(session)
    BY <1>3 DEF Held
  <2> QED BY <1>0, <1>1, <1>2, <1>3, <2>1
<1>4. CASE Hello
  <2>1. CASE UNCHANGED <<session, opened, creditVars>>
    BY <1>0, <1>3, <1>4, <2>1 DEF Hello, backendVars, creditVars
  <2>2. CASE opened' = opened + 1 /\ session' = opened' /\ credit' = InitialCredit
             /\ lost' = 0 /\ extra' = 0
    <3>1. \A c \in chunks : c.session \in Nat /\ c.session <= opened
      BY DEF TypeOK, Chunks, Sessions, ChunkInv, ChunksKnown
    <3>2. chunks' = chunks
      BY <1>4 DEF Hello, backendVars
    <3>3. Held(session)' = {}
      BY <1>0, <2>2, <3>1, <3>2 DEF Held
    <3>4. Cardinality({}) = 0
      BY FS_EmptySet
    <3> QED BY <1>0, <2>2, <3>3, <3>4
  <2> QED BY <1>4, <2>1, <2>2 DEF Hello
<1>5. CASE Stop
  BY <1>5 DEF Stop
<1>6. CASE Request
  <2>1. UNCHANGED <<session, chunks, creditVars>>
    BY <1>6 DEF Request, Begin, Finalize, Abort, Activate
  <2> QED BY <1>0, <1>3, <2>1 DEF creditVars
<1>7. ASSUME NEW o \in ops, NEW ok \in BOOLEAN, OperationCompletes(o, ok)
      PROVE  credit' + Cardinality(Held(session)') + lost' = InitialCredit + extra'
  <2>1. UNCHANGED <<session, chunks, creditVars>>
    BY <1>7 DEF OperationCompletes
  <2> QED BY <1>0, <1>3, <2>1 DEF creditVars
<1>8. CASE \/ ChunkDropped \/ ChunkRejected
           \/ \E t \in Transfers, off \in Bytes, n \in Bytes : ChunkRefused(t, off, n)
  <2>1. /\ UNCHANGED <<session, chunks>> /\ credit > 0 /\ (Returned \/ NotReturned)
    BY <1>8 DEF ChunkDropped, ChunkRejected, ChunkRefused, ChunkArrives, backendVars
  <2>2. /\ credit' + lost' = credit + lost /\ extra' = extra
        /\ credit' \in Nat /\ lost' \in Nat
    BY <1>0, <2>1 DEF Returned, NotReturned
  <2> QED BY <1>3, <2>1, <2>2
<1>9. ASSUME NEW t \in Transfers, NEW off \in Bytes, NEW n \in Bytes, ChunkTaken(t, off, n)
      PROVE  credit' + Cardinality(Held(session)') + lost' = InitialCredit + extra'
  <2>1. PICK c : c = [transfer |-> t, offset |-> off, size |-> n, session |-> session,
                      is |-> "held"]
    OBVIOUS
  <2>2. /\ c.transfer = t /\ c.offset = off /\ c.size = n /\ c.session = session
        /\ c.is = "held" /\ chunks' = chunks \cup {c}
    BY <1>9, <2>1 DEF ChunkTaken
  <2>3. /\ session # 0 /\ session' = session /\ credit' = credit - 1
        /\ lost' = lost /\ extra' = extra
        /\ t = transfer /\ off = accepted /\ n > 0
    BY <1>9 DEF ChunkTaken, ChunkArrives, Fits
  <2>4. c \notin chunks
    <3>1. transfer # 0 /\ off \in Nat /\ n \in Nat
      BY <2>3, BytesAre DEF Transfers
    <3>2. c \in chunks => c.offset + c.size <= accepted
      BY <2>2, <2>3, <3>1 DEF ChunkInv, AcceptedIsEnd
    <3> QED BY <2>2, <2>3, <3>1, <3>2
  <2>5. Held(session)' = Held(session) \cup {c} /\ c \notin Held(session)
    BY <2>2, <2>3, <2>4 DEF Held
  <2>6. Cardinality(Held(session) \cup {c}) = Cardinality(Held(session)) + 1
    BY <1>1, <2>5, FS_AddElement
  <2> QED BY <1>0, <1>1, <1>2, <2>3, <2>5, <2>6
<1>10. ASSUME NEW c \in chunks, NEW ok \in BOOLEAN, NEW report \in Bytes,
              WriteCompletes(c, ok, report)
       PROVE  credit' + Cardinality(Held(session)') + lost' = InitialCredit + extra'
  <2>1. PICK w : w = [c EXCEPT !.is = IF ok THEN "durable" ELSE "failed"]
    OBVIOUS
  <2>2. chunks' = (chunks \ {c}) \cup {w} /\ c.is = "held" /\ session' = session
    BY <1>10, <2>1 DEF WriteCompletes
  <2>3. w.is # "held"
    BY <2>1 DEF TypeOK, Chunks
  <2>4. Held(session)' = Held(session) \ {c}
    BY <2>2, <2>3 DEF Held
  <2>5. Cardinality(Held(session) \ {c})
            = IF c \in Held(session) THEN Cardinality(Held(session)) - 1
                                     ELSE Cardinality(Held(session))
    BY <1>1, FS_RemoveElement
  <2>6. c \in Held(session) <=> c.session = session
    BY <2>2 DEF Held
  <2>7. session # 0
    BY <2>2
  <2>8. PICK k \in Nat, k1 \in Nat :
            /\ k = Cardinality(Held(session)) /\ k1 = Cardinality(Held(session)')
            /\ k1 = IF c.session = session THEN k - 1 ELSE k
    <3>1. CASE c.session = session
      <4>1. Cardinality(Held(session)') = Cardinality(Held(session)) - 1
        BY <2>4, <2>5, <2>6, <3>1
      <4>2. Cardinality(Held(session)') \in Nat
        BY <1>1, <2>4, FS_RemoveElement, FS_CardinalityType
      <4> QED BY <1>1, <3>1, <4>1, <4>2
    <3>2. CASE c.session # session
      BY <1>1, <2>4, <2>5, <2>6, <3>2
    <3> QED BY <3>1, <3>2
  <2>9. credit + k + lost = InitialCredit + extra
    BY <1>2, <2>7, <2>8
  <2>10. credit' + k1 + lost' = InitialCredit + extra'
    <3>1. CASE c.session = session
      BY <1>0, <1>10, <2>7, <2>8, <2>9, <3>1 DEF WriteCompletes
    <3>2. CASE c.session # session
      BY <1>0, <1>10, <2>7, <2>8, <2>9, <3>2 DEF WriteCompletes
    <3> QED BY <3>1, <3>2
  <2> QED BY <2>8, <2>10
<1>11. CASE UNCHANGED vars
  BY <1>0, <1>3, <1>11 DEF vars, backendVars, creditVars
<1> QED BY <1>4, <1>5, <1>6, <1>7, <1>8, <1>9, <1>10, <1>11 DEF Next, Stream, Backend

(* Each unit of the stream's window is accounted for                       *)
(* (coproc_ota.c:516, 529, 608).                                           *)
THEOREM CreditIsAccounted == Spec => []CreditAccounted
<1>1. Init => CreditAccounted
  BY DEF Init, CreditAccounted
<1> QED BY <1>1, CreditStep, TypeCorrect, ChunkInvariant, PTL DEF Spec

-----------------------------------------------------------------------------
(* Progress.                                                               *)

DurableBytes(t) ==
    UNION {c.offset .. c.offset + c.size - 1 :
               c \in {d \in chunks : d.transfer = t /\ d.is = "durable"}}

(* Durable bytes stay durable.                                             *)
LEMMA DurableGrows ==
    ASSUME TypeOK, ChunkInv, TypeOK', ChunkInv', NEW t \in Transfers,
           \A c \in chunks : c.is = "durable" => c \in chunks'
    PROVE  Durable(t) \in Nat /\ Durable(t)' \in Nat /\ Durable(t) <= Durable(t)'
<1>1. DurableBytes(t) \subseteq DurableBytes(t)'
  BY DEF DurableBytes
<1>0. images[t] \in Nat /\ images'[t] \in Nat
  <2>1. /\ images \in [Transfers -> ImageSizes \cup {0}]
        /\ images' \in [Transfers -> ImageSizes \cup {0}]
    BY DEF TypeOK
  <2>2. ImageSizes \cup {0} \subseteq Nat
    BY CoprocOtaAssumption
  <2>3. images[t] \in ImageSizes \cup {0} /\ images'[t] \in ImageSizes \cup {0}
    BY <2>1
  <2> QED BY <2>2, <2>3
<1>2. DurableBytes(t) \subseteq 0 .. images[t]
  <2>1. \A c \in chunks : /\ c.offset \in Nat /\ c.size \in Nat
                          /\ c.offset + c.size <= images[c.transfer]
    BY BytesAre DEF TypeOK, Chunks, ChunkInv, ChunksTile
  <2> QED BY <1>0, <2>1 DEF DurableBytes
<1>3. DurableBytes(t)' \subseteq 0 .. images'[t]
  <2>1. \A c \in chunks' : /\ c.offset \in Nat /\ c.size \in Nat
                           /\ c.offset + c.size <= images'[c.transfer]
    BY BytesAre DEF TypeOK, Chunks, ChunkInv, ChunksTile
  <2> QED BY <1>0, <2>1 DEF DurableBytes
<1>4. IsFiniteSet(DurableBytes(t)) /\ IsFiniteSet(DurableBytes(t)')
  <2>1. images[t] \in Int /\ images'[t] \in Int
    BY <1>0
  <2>2. IsFiniteSet(0 .. images[t]) /\ IsFiniteSet(0 .. images'[t])
    BY <2>1, FS_Interval
  <2> QED BY <1>2, <1>3, <2>2, FS_Subset
<1>5. Durable(t) = Cardinality(DurableBytes(t)) /\ Durable(t)' = Cardinality(DurableBytes(t)')
  BY DEF Durable, DurableBytes
<1> QED BY <1>1, <1>4, <1>5, FS_Subset, FS_CardinalityType

LEMMA ReportStep ==
    TypeOK /\ ChunkInv /\ TypeOK' /\ ChunkInv' /\ ReportedIsDurable /\ [Next]_vars
        => ReportedIsDurable'
<1> SUFFICES ASSUME TypeOK, ChunkInv, TypeOK', ChunkInv', ReportedIsDurable,
                    [Next]_vars, transfer' # 0
             PROVE  received' <= Durable(transfer)'
  BY DEF ReportedIsDurable
<1>0. received \in Nat /\ received' \in Nat /\ transfer' \in Transfers
  BY BytesAre DEF TypeOK
<1>1. PICK t : t = transfer'
  OBVIOUS
<1>2. Durable(transfer)' = Durable(t)'
  BY <1>1 DEF Durable
<1>3. CASE /\ transfer' = transfer /\ received' = received
           /\ \A c \in chunks : c.is = "durable" => c \in chunks'
  <2>1. Durable(t) \in Nat /\ Durable(t)' \in Nat /\ Durable(t) <= Durable(t)'
    BY <1>0, <1>1, <1>3, DurableGrows
  <2>2. received <= Durable(t)
    BY <1>1, <1>3 DEF ReportedIsDurable
  <2> QED BY <1>0, <1>2, <1>3, <2>1, <2>2
<1>4. CASE \E n \in ImageSizes : Begin(n)
  <2>1. received' = 0 /\ chunks' = chunks
    BY <1>4 DEF Begin
  <2>2. Durable(t)' \in Nat
    BY <1>0, <1>1, <2>1, DurableGrows
  <2> QED BY <1>2, <2>1, <2>2
<1>5. ASSUME NEW c \in chunks, NEW ok \in BOOLEAN, NEW report \in Bytes,
             WriteCompletes(c, ok, report)
      PROVE  received' <= Durable(transfer)'
  <2>1. /\ c.is = "held" /\ transfer' = transfer
        /\ \A d \in chunks : d # c => d \in chunks'
    BY <1>5 DEF WriteCompletes
  <2>2. \A d \in chunks : d.is = "durable" => d \in chunks'
    BY <2>1
  <2>3. CASE received' = received
    BY <1>3, <2>1, <2>2, <2>3
  <2>4. CASE received' # received
    <3>1. received' = report /\ c.transfer = transfer
      BY <1>5, <2>4 DEF WriteCompletes, Counts
    <3>2. report <= Durable(c.transfer)'
      BY <1>5 DEF WriteCompletes
    <3> QED BY <1>1, <1>2, <2>1, <3>1, <3>2 DEF Durable
  <2> QED BY <2>3, <2>4
<1>6. CASE Hello
  BY <1>6 DEF Hello, Reset
<1>7. ASSUME NEW s \in Transfers, Finalize(s) \/ Abort(s) \/ Activate(s)
      PROVE  received' <= Durable(transfer)'
  BY <1>3, <1>7 DEF Finalize, Abort, Activate, transferVars
<1>8. ASSUME NEW o \in ops, NEW ok \in BOOLEAN, OperationCompletes(o, ok)
      PROVE  received' <= Durable(transfer)'
  BY <1>3, <1>8 DEF OperationCompletes
<1>9. CASE Stop \/ ChunkDropped \/ ChunkRejected
  BY <1>3, <1>9 DEF Stop, ChunkDropped, ChunkRejected, transferVars, backendVars
<1>10. ASSUME NEW s \in Transfers, NEW off \in Bytes, NEW n \in Bytes,
              ChunkTaken(s, off, n) \/ ChunkRefused(s, off, n)
       PROVE  received' <= Durable(transfer)'
  BY <1>3, <1>10 DEF ChunkTaken, ChunkRefused, transferVars, backendVars
<1>11. CASE UNCHANGED vars
  BY <1>3, <1>11 DEF vars, transferVars, backendVars
<1> QED BY <1>4, <1>5, <1>6, <1>7, <1>8, <1>9, <1>10, <1>11
        DEF Next, Request, Stream, Backend

(* What is reported of a transfer is durable, for every image size and any *)
(* number of transfers and late writes (coproc_ota.c:40, 374-376, 609-617).*)
THEOREM ReportsAreDurable == Spec => []ReportedIsDurable
<1>1. Init => ReportedIsDurable
  BY DEF Init, ReportedIsDurable
<1> QED BY <1>1, ReportStep, TypeCorrect, ChunkInvariant, PTL DEF Spec
=============================================================================
