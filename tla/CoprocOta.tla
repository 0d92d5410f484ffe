------------------------------ MODULE CoprocOta ------------------------------
(***************************************************************************)
(* The firmware update service of the Coprocessor Core (coproc_ota.c): one *)
(* transfer at a time, whose BEGIN, FINALIZE, ABORT and ACTIVATE are       *)
(* operations of an asynchronous backend and whose chunks arrive on a      *)
(* credit-controlled stream and are written behind the core's back.        *)
(*                                                                         *)
(* Everything here runs in the core task, one job at a time.  A frame or a *)
(* completion that waits in the job queue is one that arrives later, as    *)
(* the host and the backend may take any time: the queue is left out.      *)
(***************************************************************************)
EXTENDS Integers, FiniteSets

CONSTANTS
    ImageSizes,     \* sizes of the images the host sends, in bytes
    ChunkSize,      \* WLH_COPROC_OTA_CHUNK_SIZE
    Alignment,      \* WLH_COPROC_OTA_ALIGNMENT
    InitialCredit,  \* WLH_COPROC_OTA_INITIAL_CREDIT
    MaxSession,     \* bound: session ids handed out
    MaxTransfer,    \* bound: transfer ids handed out
    MaxOp           \* bound: operations submitted to the backend

ASSUME CoprocOtaAssumption ==
    /\ ImageSizes \subseteq Nat \ {0}
    /\ ChunkSize \in Nat \ {0} /\ Alignment \in Nat \ {0}
    /\ InitialCredit \in Nat \ {0}
    /\ MaxSession \in Nat /\ MaxTransfer \in Nat /\ MaxOp \in Nat

VARIABLES
    session,    \* coproc->session_id
    opened,     \* the last session id handed out
    canAbort,   \* config.ota.abort is there
    state,      \* ota_state
    transfer,   \* ota_transfer_id
    begun,      \* next_ota_transfer_id - 1
    size,       \* ota_image_size
    accepted,   \* ota_bytes_accepted
    received,   \* ota_bytes_received
    pending,    \* ota_pending, with the transfer it is about; NoOp when not active
    submitted,  \* operations submitted so far: the last operation id
    ops,        \* operations the backend has accepted and not completed
    chunks,     \* the chunks the backend was given and took
    images,     \* the image size each transfer was begun with
    verified,   \* transfers whose FINALIZE the backend completed without error
    activated,  \* transfers the backend was asked to activate
    credit,     \* OTA_STREAM units the host holds in this session
    lost,       \* units of this session that nobody holds any more
    extra       \* units this session was given for chunks of an earlier one

transferVars == <<transfer, begun, size, accepted, received>>
backendVars  == <<submitted, ops, chunks, images, verified, activated>>
creditVars   == <<credit, lost, extra>>
vars == <<session, opened, canAbort, state, transferVars, pending, backendVars,
          creditVars>>

-----------------------------------------------------------------------------
Sessions  == 0 .. MaxSession
Transfers == 1 .. MaxTransfer
States == {"IDLE", "RECEIVING", "VERIFYING", "READY_TO_ACTIVATE", "FAILED"}

(* ota_state_is_idle: the states in which no transfer occupies the slot.   *)
Idle == {"IDLE", "FAILED"}

Operations == [op : 1 .. MaxOp, transfer : Transfers,
               method : {"BEGIN", "FINALIZE", "ABORT", "ACTIVATE"}]
NoOp == [op |-> 0]
Pending == {NoOp} \cup
           [op : 1 .. MaxOp, transfer : Transfers, session : Sessions,
            method : {"BEGIN", "FINALIZE", "ABORT", "ACTIVATE"}]

Bytes == UNION {0 .. n : n \in ImageSizes \cup {0}}
Chunks == [transfer : Transfers, offset : Bytes, size : Bytes,
           session : Sessions, is : {"held", "durable", "failed"}]

Init ==
    /\ session = 0 /\ opened = 0 /\ canAbort \in BOOLEAN
    /\ state = "IDLE" /\ transfer = 0 /\ begun = 0
    /\ size = 0 /\ accepted = 0 /\ received = 0
    /\ pending = NoOp /\ submitted = 0 /\ ops = {} /\ chunks = {}
    /\ images = [t \in Transfers |-> 0] /\ verified = {} /\ activated = {}
    /\ credit = 0 /\ lost = 0 /\ extra = 0

-----------------------------------------------------------------------------
(* ota_reset.  A transfer in progress is aborted at the backend with       *)
(* operation id 0: no completion of it comes back.                         *)
Reset ==
    /\ state' = "IDLE" /\ transfer' = 0
    /\ size' = 0 /\ accepted' = 0 /\ received' = 0 /\ UNCHANGED begun
    /\ pending' = NoOp

(* handle_hello_request: the reset, then the response.  Without a buffer   *)
(* the old session goes on; a response that is refused leaves none.        *)
Hello ==
    /\ Reset
    /\ \/ UNCHANGED <<session, opened, creditVars>>
       \/ /\ opened < MaxSession /\ opened' = opened + 1
          /\ \/ session' = 0 /\ credit' = 0
             \/ session' = opened' /\ credit' = InitialCredit
          /\ lost' = 0 /\ extra' = 0
    /\ UNCHANGED <<canAbort, backendVars>>

(* COPROC_JOB_STOP; a start leaves the transfer as it is, too.             *)
Stop ==
    /\ session # 0 /\ session' = 0
    /\ credit' = 0 /\ lost' = 0 /\ extra' = 0
    /\ UNCHANGED <<opened, canAbort, state, transferVars, pending, backendVars>>

-----------------------------------------------------------------------------
(* The requests.  Those that find an operation pending (BUSY), the wrong   *)
(* state (BUSY, NOT_READY) or another transfer (NOT_FOUND) are answered    *)
(* and change nothing; so does QUERY.                                      *)

(* ota_begin_operation, the backend's begin, finalize, abort or activate,  *)
(* and ota_submit_result: a backend that refuses leaves nothing pending.   *)
Submit(method, t) ==
    /\ submitted < MaxOp /\ submitted' = submitted + 1
    /\ \/ /\ pending' = [op |-> submitted', transfer |-> t, session |-> session,
                         method |-> method]
          /\ ops' = ops \cup {[op |-> submitted', transfer |-> t, method |-> method]}
       \/ pending' = NoOp /\ UNCHANGED ops

Free == session # 0 /\ pending = NoOp

(* The transfer is set up before the backend is asked, and stays so when   *)
(* it refuses.                                                             *)
Begin(n) ==
    /\ Free /\ state \in Idle /\ begun < MaxTransfer
    /\ begun' = begun + 1 /\ transfer' = begun'
    /\ size' = n /\ accepted' = 0 /\ received' = 0
    /\ images' = [images EXCEPT ![transfer'] = n]
    /\ Submit("BEGIN", transfer')
    /\ UNCHANGED <<session, opened, canAbort, state, chunks, verified, activated,
                   creditVars>>

(* The state changes before the backend is asked.                          *)
Finalize(t) ==
    /\ Free /\ state = "RECEIVING" /\ t = transfer
    /\ state' = "VERIFYING" /\ Submit("FINALIZE", t)
    /\ UNCHANGED <<session, opened, canAbort, transferVars, chunks, images, verified,
                   activated, creditVars>>

(* Without a backend abort the transfer is given up at once.               *)
Abort(t) ==
    /\ Free /\ state \notin Idle /\ t = transfer
    /\ IF canAbort
       THEN Submit("ABORT", t) /\ UNCHANGED <<state, transfer>>
       ELSE state' = "IDLE" /\ transfer' = 0 /\ UNCHANGED <<pending, submitted, ops>>
    /\ UNCHANGED <<session, opened, canAbort, begun, size, accepted, received, chunks,
                   images, verified, activated, creditVars>>

Activate(t) ==
    /\ Free /\ state = "READY_TO_ACTIVATE" /\ t = transfer
    /\ Submit("ACTIVATE", t) /\ activated' = activated \cup {t}
    /\ UNCHANGED <<session, opened, canAbort, state, transferVars, chunks, images,
                   verified, creditVars>>

-----------------------------------------------------------------------------
(* ota_operation_completed.                                                *)

(* The completed operation is the pending one, and its session goes on.    *)
(* The slip takes any completion.                                          *)
FinishesAny(o) == pending # NoOp /\ pending.session = session
Finishes(o) == pending # NoOp /\ pending.op = o.op /\ pending.session = session

(* The state after an operation.                                           *)
After(method, ok) ==
    CASE ~ok /\ method # "ABORT"   -> "FAILED"
      [] ok /\ method = "BEGIN"    -> "RECEIVING"
      [] ok /\ method = "FINALIZE" -> "READY_TO_ACTIVATE"
      [] ok /\ method = "ABORT"    -> "IDLE"
      [] OTHER                     -> state

OperationCompletes(o, ok) ==
    /\ ops' = ops \ {o}
    /\ verified' = IF ok /\ o.method = "FINALIZE" THEN verified \cup {o.transfer}
                                                  ELSE verified
    /\ IF Finishes(o)
       THEN /\ pending' = NoOp /\ state' = After(pending.method, ok)
            /\ IF ok /\ pending.method = "ABORT"
               THEN transfer' = 0 /\ accepted' = 0 /\ received' = 0
               ELSE UNCHANGED <<transfer, accepted, received>>
       ELSE UNCHANGED <<pending, state, transfer, accepted, received>>
    /\ UNCHANGED <<session, opened, canAbort, begun, size, submitted, chunks, images,
                   activated, creditVars>>

-----------------------------------------------------------------------------
(* The stream.  A chunk costs the host one unit.                           *)

(* send_credit_update of one unit is not tried again.                      *)
Returned == credit' = credit /\ UNCHANGED <<lost, extra>>
NotReturned == credit' = credit - 1 /\ lost' = lost + 1 /\ UNCHANGED extra

(* A chunk that is lost on the way, or finds the core neither READY nor    *)
(* CONGESTED.                                                              *)
ChunkDropped ==
    /\ session # 0 /\ credit > 0 /\ NotReturned
    /\ UNCHANGED <<session, opened, canAbort, state, transferVars, pending, backendVars>>

(* The next bytes of the image, aligned, the last chunk apart.  The slips  *)
(* let a chunk start anywhere, or reach beyond the image.                  *)
FitsAnywhere(off, n) ==
    /\ n <= ChunkSize /\ off <= size /\ n <= size - off
    /\ off % Alignment = 0 /\ (off + n = size \/ n % Alignment = 0)
FitsBeyondImage(off, n) ==
    /\ n <= ChunkSize /\ off = accepted
    /\ off % Alignment = 0 /\ (off + n = size \/ n % Alignment = 0)
Fits(off, n) ==
    /\ n <= ChunkSize /\ off = accepted /\ off <= size /\ n <= size - off
    /\ off % Alignment = 0 /\ (off + n = size \/ n % Alignment = 0)

ChunkArrives(t, off, n) == session # 0 /\ credit > 0 /\ n > 0
                               /\ state = "RECEIVING" /\ t = transfer /\ Fits(off, n)

ChunkTaken(t, off, n) ==
    /\ ChunkArrives(t, off, n)
    /\ chunks' = chunks \cup {[transfer |-> t, offset |-> off, size |-> n,
                               session |-> session, is |-> "held"]}
    /\ accepted' = accepted + n
    /\ credit' = credit - 1 /\ UNCHANGED <<lost, extra>>
    /\ UNCHANGED <<session, opened, canAbort, state, transfer, begun, size, received,
                   pending, submitted, ops, images, verified, activated>>

(* The backend refuses the chunk.                                          *)
ChunkRefused(t, off, n) ==
    /\ ChunkArrives(t, off, n)
    /\ state' = "FAILED" /\ (Returned \/ NotReturned)
    /\ UNCHANGED <<session, opened, canAbort, transferVars, pending, backendVars>>

(* Anything else on the stream fails the transfer and returns the unit.    *)
(* The slip returns no unit.                                               *)
ChunkRejectedForFree ==
    /\ session # 0 /\ credit > 0
    /\ state' = IF state \in {"RECEIVING", "VERIFYING"} THEN "FAILED" ELSE state
    /\ credit' = credit - 1 /\ UNCHANGED <<lost, extra>>
    /\ UNCHANGED <<session, opened, canAbort, transferVars, pending, backendVars>>

ChunkRejected ==
    /\ session # 0 /\ credit > 0
    /\ state' = IF state \in {"RECEIVING", "VERIFYING"} THEN "FAILED" ELSE state
    /\ Returned \/ NotReturned
    /\ UNCHANGED <<session, opened, canAbort, transferVars, pending, backendVars>>

(* Bytes of a transfer that are durable.                                   *)
Durable(t) ==
    Cardinality(UNION {c.offset .. c.offset + c.size - 1 :
                           c \in {d \in chunks : d.transfer = t /\ d.is = "durable"}})

(* The transfer a completed write counts for is still receiving.  The slip *)
(* does not ask which one it is.                                           *)
CountsForAny(c) == state = "RECEIVING"
Counts(c) == state = "RECEIVING" /\ c.transfer = transfer

(* ota_write_completed.  The unit is returned in the session of the day,   *)
(* whatever the chunk was; the backend reports what is durable, or an      *)
(* earlier count when its threads race.                                    *)
WriteCompletes(c, ok, report) ==
    /\ c.is = "held"
    /\ chunks' = (chunks \ {c}) \cup
                     {[c EXCEPT !.is = IF ok THEN "durable" ELSE "failed"]}
    /\ report <= Durable(c.transfer)'
    /\ \/ /\ session # 0 /\ credit' = credit + 1 /\ UNCHANGED lost
          /\ extra' = IF c.session = session THEN extra ELSE extra + 1
       \/ /\ lost' = IF session # 0 /\ c.session = session THEN lost + 1 ELSE lost
          /\ UNCHANGED <<credit, extra>>
    /\ state' = IF Counts(c) /\ ~ok THEN "FAILED" ELSE state
    /\ received' = IF Counts(c) /\ ok /\ report > received THEN report ELSE received
    /\ UNCHANGED <<session, opened, canAbort, transfer, begun, size, accepted, pending,
                   submitted, ops, images, verified, activated>>

-----------------------------------------------------------------------------
Request ==
    \/ \E n \in ImageSizes : Begin(n)
    \/ \E t \in Transfers : Finalize(t) \/ Abort(t) \/ Activate(t)

Stream ==
    \/ ChunkDropped \/ ChunkRejected
    \/ \E t \in Transfers, off \in Bytes, n \in Bytes :
           ChunkTaken(t, off, n) \/ ChunkRefused(t, off, n)

Backend ==
    \/ \E o \in ops, ok \in BOOLEAN : OperationCompletes(o, ok)
    \/ \E c \in chunks, ok \in BOOLEAN, report \in Bytes : WriteCompletes(c, ok, report)

Next == Hello \/ Stop \/ Request \/ Stream \/ Backend

Spec == Init /\ [][Next]_vars

-----------------------------------------------------------------------------
TypeOK ==
    /\ session \in Sessions /\ opened \in Sessions /\ canAbort \in BOOLEAN
    /\ state \in States /\ transfer \in Transfers \cup {0}
    /\ begun \in Transfers \cup {0} /\ size \in ImageSizes \cup {0}
    /\ accepted \in Bytes /\ received \in Bytes
    /\ pending \in Pending /\ submitted \in 0 .. MaxOp
    /\ ops \subseteq Operations /\ chunks \subseteq Chunks
    /\ images \in [Transfers -> ImageSizes \cup {0}]
    /\ verified \subseteq Transfers /\ activated \subseteq Transfers
    /\ credit \in Nat /\ lost \in Nat /\ extra \in Nat

(* The backend is asked to activate an image only after it has verified    *)
(* that image: no completion of another transfer, of an earlier session or *)
(* of another method stands in for it (coproc_ota.c:310, 524).             *)
ActivatesVerified == activated \subseteq verified

(* While an operation is under way its transfer stays the present one: a   *)
(* completion changes the state of the transfer it is about                *)
(* (coproc_ota.c:144, 524; coproc_link.c:252).                             *)
PendingIsCurrent == pending # NoOp => pending.transfer = transfer

(* The chunks of a transfer that reach the backend cover a first part of   *)
(* its image, without gap or overlap, and are aligned, the last of the     *)
(* image apart (coproc_ota.c:468-483).                                     *)
ChunksTile ==
    \A c \in chunks :
        /\ c.offset + c.size <= images[c.transfer] /\ c.offset % Alignment = 0
        /\ c.size % Alignment = 0 \/ c.offset + c.size = images[c.transfer]
        /\ c.offset = 0 \/ \E d \in chunks :
               d.transfer = c.transfer /\ d.offset + d.size = c.offset
        /\ \A d \in chunks : d.transfer = c.transfer /\ d # c =>
               d.offset + d.size <= c.offset \/ c.offset + c.size <= d.offset

(* In whatever state PROGRESS and QUERY name a transfer, the bytes they    *)
(* report of it are durable: a write of an aborted one that completes late *)
(* is not counted (coproc_ota.c:40, 374-376, 609-617).                     *)
ReportedIsDurable == transfer # 0 => received <= Durable(transfer)

(* In a session, each unit of the window is with the host or with a chunk  *)
(* the backend holds, or an update of it was not sent: rejected, refused   *)
(* and written chunks give theirs back once.  Beyond the window are only   *)
(* the units of an earlier session's chunks (coproc_ota.c:516, 529, 608).  *)
CreditAccounted ==
    session # 0 =>
        credit + Cardinality({c \in chunks : c.is = "held" /\ c.session = session}) + lost
            = InitialCredit + extra

=============================================================================
