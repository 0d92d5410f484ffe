----------------------------- MODULE LinkSession -----------------------------
(***************************************************************************)
(* Both cores and the link between them: how they come to agree on a       *)
(* session, and where the credit of one Ethernet channel from the Host to  *)
(* the Coprocessor goes meanwhile.                                         *)
(*                                                                         *)
(* HostCore and CoprocCore have each core with all of its jobs and a free  *)
(* environment in place of the other one; here each core is its session    *)
(* layer only, and the other one is real.  A channel is the frames on the  *)
(* wire and in the receiver's job queue: they keep their order and may be  *)
(* lost.  The transport may be reported lost, and the Coprocessor may      *)
(* reboot.                                                                 *)
(*                                                                         *)
(* Sessions are numbered as they are opened, and wireId is the session_id  *)
(* each has on the wire: after a reboot the ids start again.               *)
(***************************************************************************)
EXTENDS Integers, SequencesExt

CONSTANTS
    Window,       \* initial_credit, the units a Hello response grants
    MaxRecords,   \* ethernet_tx_aggregation_limit, records in a frame
    MaxWaiting,   \* bound: records admitted and not yet handed on
    MaxSequence,  \* bound: frames sent while the transport stays up
    MaxWire,      \* bound: frames in a channel when one more is sent
    MaxFaults     \* bound: losses, reboots and transport failures

ASSUME LinkSessionAssumption ==
    {Window, MaxRecords, MaxWaiting, MaxSequence, MaxWire, MaxFaults}
        \subseteq Nat \ {0}

HostStates   == {"NEGOTIATING", "READY", "CONGESTED", "RECOVERING",
                 "TRANSPORT_STARTING"}
CoprocStates == {"WAITING_FOR_HELLO", "READY", "CONGESTED"}

VARIABLES
    \* the Host
    hState,     \* state
    hSession,   \* session_id, 0 when there is none
    transport,  \* the transport: up, or being stopped, started, or left stopped
    credit,     \* tx_credit of the channel
    waiting,    \* ethernet_tx_queued: records in the job queue
    sequence,   \* tx_sequence of the channel
    \* the Coprocessor
    cState,     \* state
    cSession,   \* session_id
    nextId,     \* next_session_id
    expected,   \* rx_sequence of the channel, NoSequence when it is not valid
    unreturned, \* units its backend will complete or that are gathered
    \* the link
    toCoproc, toHost,
    faults,     \* failures so far
    \* history
    wireId,     \* the id of every session opened so far
    epoch,      \* how often the Host began its sequence again
    lost,       \* units of cSession that went down with a frame or a Hello
    foreign,    \* units returned in cSession for records not charged to it
    refunded,   \* data frames a unit was returned for in cSession, as missing
    dropped     \* data frames that were lost

hostVars   == <<hState, hSession, transport, credit, waiting, sequence, epoch>>
coprocVars == <<cState, cSession, nextId, expected, unreturned, wireId>>
ledger     == <<lost, foreign, refunded, dropped>>
sessionVars == <<hostVars, coprocVars, toCoproc, toHost, faults, ledger>>

NoSequence == -1

(* The frames, by what they carry.  of is the session in the header; the   *)
(* epoch of a data frame, which tells its number from the same number of   *)
(* another epoch, is not on the wire.                                      *)
HelloRequest == [type |-> "HELLO"]
HelloResponse(s) == [type |-> "HELLO_RESPONSE", of |-> 0, opens |-> s]
Heartbeat(s) == [type |-> "HEARTBEAT", of |-> s]
Data(s, n, k) ==
    [type |-> "DATA", of |-> s, epoch |-> epoch, seq |-> n, units |-> k]
CreditUpdate(s, k) == [type |-> "CREDIT_UPDATE", of |-> s, units |-> k]

(* send_credit_update sends nothing for no units.                          *)
Updates(s, k) == IF k = 0 THEN <<>> ELSE <<CreditUpdate(s, k)>>

(* A data frame among all there ever are.                                  *)
Number(f) == <<f.epoch, f.seq>>

(* Two sessions that cannot be told apart in a header.                     *)
SameId(s, t) == IF 0 \in {s, t} THEN s = t ELSE wireId[s] = wireId[t]

-----------------------------------------------------------------------------
(* The Host has started its transport and said Hello.                             *)
LinkInit ==
    /\ hState = "NEGOTIATING" /\ hSession = 0 /\ transport = "up"
    /\ credit = 0 /\ waiting = 0 /\ sequence = 0 /\ epoch = 0
    /\ cState = "WAITING_FOR_HELLO" /\ cSession = 0 /\ nextId = 1
    /\ expected = NoSequence /\ unreturned = 0 /\ wireId = <<>>
    /\ toCoproc = <<HelloRequest>> /\ toHost = <<>> /\ faults = 0
    /\ lost = 0 /\ foreign = 0 /\ refunded = {} /\ dropped = {}

(* Something goes wrong.                                                   *)
Fails == faults < MaxFaults /\ faults' = faults + 1

-----------------------------------------------------------------------------
(* The Host's records.                                                     *)

(* ethernet_send looks at the credit and the records admitted before, and  *)
(* not at the state.                                                       *)
Admit ==
    /\ credit > waiting /\ waiting < MaxWaiting
    /\ waiting' = waiting + 1
    /\ UNCHANGED <<hState, hSession, transport, credit, sequence, epoch,
                   coprocVars, toCoproc, toHost, faults, ledger>>

(* The ETHERNET_TX job: k records in one frame, charged one unit each.     *)
(* Refused by the transport, or without that much credit, they are gone,   *)
(* and in the second case the state becomes CONGESTED whatever it was.     *)
HandleEthernetTx(k) ==
    /\ k <= waiting /\ waiting' = waiting - k
    /\ \/ /\ credit >= k /\ transport = "up"
          /\ sequence < MaxSequence /\ Len(toCoproc) < MaxWire
          /\ credit' = credit - k /\ sequence' = sequence + 1
          /\ toCoproc' = Append(toCoproc, Data(hSession, sequence, k))
          /\ UNCHANGED hState
       \/ /\ credit >= k
          /\ UNCHANGED <<hState, credit, sequence, toCoproc>>
       \/ /\ credit < k /\ hState' = "CONGESTED"
          /\ UNCHANGED <<credit, sequence, toCoproc>>
    /\ UNCHANGED <<hSession, transport, epoch, coprocVars, toHost, faults,
                   ledger>>

-----------------------------------------------------------------------------
(* The Host's frames and its session.                                      *)

Rx == Head(toHost)

(* With no session any header passes.  The slip is to take every header.   *)
HeaderAcceptedAlways == TRUE
HeaderAccepted == hSession = 0 \/ SameId(Rx.of, hSession)

(* send_hello                                                              *)
SendHello == hState' = "NEGOTIATING" /\ toCoproc' = Append(toCoproc, HelloRequest)

(* process_frame, a frame of another session: the session is given up;     *)
(* credit and sequence number stay.                                        *)
HandleSessionMismatch ==
    /\ toHost # <<>> /\ ~HeaderAccepted
    /\ toHost' = Tail(toHost) /\ hSession' = 0 /\ SendHello
    /\ UNCHANGED <<transport, credit, waiting, sequence, epoch, coprocVars,
                   faults, ledger>>

(* handle_hello_response: in NEGOTIATING any response will do, whichever   *)
(* Hello it answers; in other states it is a response nobody waits for.    *)
HandleHelloResponse ==
    /\ toHost # <<>> /\ HeaderAccepted /\ Rx.type = "HELLO_RESPONSE"
    /\ toHost' = Tail(toHost)
    /\ IF hState = "NEGOTIATING"
       THEN hState' = "READY" /\ hSession' = Rx.opens /\ credit' = Window
       ELSE UNCHANGED <<hState, hSession, credit>>
    /\ UNCHANGED <<transport, waiting, sequence, epoch, coprocVars, toCoproc,
                   faults, ledger>>

(* handle_credit_update                                                    *)
HandleCreditUpdate ==
    /\ toHost # <<>> /\ HeaderAccepted /\ Rx.type = "CREDIT_UPDATE"
    /\ toHost' = Tail(toHost) /\ credit' = credit + Rx.units
    /\ hState' = IF hState = "CONGESTED" THEN "READY" ELSE hState
    /\ UNCHANGED <<hSession, transport, waiting, sequence, epoch, coprocVars,
                   toCoproc, faults, ledger>>

(* handle_heartbeat: only the clock of the last activity changes.          *)
HandleHeartbeat ==
    /\ toHost # <<>> /\ HeaderAccepted /\ Rx.type = "HEARTBEAT"
    /\ toHost' = Tail(toHost)
    /\ UNCHANGED <<hostVars, coprocVars, toCoproc, faults, ledger>>

HostReceives ==
    \/ HandleSessionMismatch \/ HandleHelloResponse
    \/ HandleCreditUpdate \/ HandleHeartbeat

(* process_transport_lost                                                  *)
ProcessTransportLost ==
    /\ hSession' = 0 /\ credit' = 0
    /\ sequence' = 0 /\ epoch' = epoch + 1
    /\ hState' = "RECOVERING" /\ transport' = "stopping"
    /\ UNCHANGED waiting

(* host_process_deadlines: in READY, and nothing is heard of a coprocessor *)
(* that sends no heartbeats, or none in time.                              *)
HeartbeatTimeout ==
    /\ hState = "READY" /\ toHost = <<>> /\ cState # "READY"
    /\ ProcessTransportLost
    /\ UNCHANGED <<coprocVars, toCoproc, toHost, faults, ledger>>

(* TRANSPORT_STOPPED: only a host that is still RECOVERING starts again.   *)
HandleTransportStopped ==
    /\ transport = "stopping"
    /\ IF hState = "RECOVERING"
       THEN hState' = "TRANSPORT_STARTING" /\ transport' = "starting"
       ELSE hState' = hState /\ transport' = "stopped"
    /\ UNCHANGED <<hSession, credit, waiting, sequence, epoch, coprocVars,
                   toCoproc, toHost, faults, ledger>>

HandleTransportStarted ==
    /\ transport = "starting" /\ transport' = "up" /\ SendHello
    /\ UNCHANGED <<hSession, credit, waiting, sequence, epoch, coprocVars,
                   toHost, faults, ledger>>

-----------------------------------------------------------------------------
(* The Coprocessor.                                                        *)

(* send_hello_response: a new session is opened; when the answer cannot be *)
(* sent, the old one is over all the same; and without a buffer for it the *)
(* old one goes on, without the units gathered in it.                      *)
SendHelloResponse ==
    LET s == Len(wireId) + 1 IN
    \/ /\ \/ /\ toHost' = Append(toHost, HelloResponse(s))
             /\ cState' = "READY" /\ cSession' = s /\ UNCHANGED faults
          \/ Fails /\ cSession' = 0 /\ UNCHANGED <<toHost, cState>>
       /\ wireId' = Append(wireId, nextId) /\ nextId' = nextId + 1
       /\ unreturned' = 0 /\ lost' = 0 /\ foreign' = 0 /\ refunded' = {}
    \/ /\ Fails
       /\ \E forgotten \in 0 .. unreturned :
             unreturned' = unreturned - forgotten /\ lost' = lost + forgotten
       /\ UNCHANGED <<cState, cSession, nextId, wireId, toHost, foreign,
                      refunded>>

(* handle_hello_request: whatever the state, the sequence becomes unknown  *)
(* and what was gathered is forgotten.                                     *)
HandleHelloRequest ==
    /\ toCoproc # <<>> /\ Head(toCoproc).type = "HELLO"
    /\ toCoproc' = Tail(toCoproc) /\ expected' = NoSequence
    /\ SendHelloResponse
    /\ UNCHANGED <<hostVars, dropped>>

(* process_frame: the numbers a frame shows to be missing before it; a     *)
(* number from the past shows nothing.  The slip counts the frame itself.  *)
SkippedAndThis(n) == IF expected = NoSequence THEN {} ELSE expected .. n
Skipped(n) == IF expected = NoSequence THEN {} ELSE expected .. n - 1

(* process_frame, an Ethernet frame.  Its session is not looked at.  One   *)
(* unit goes back for each frame that is missing before it.  The backend   *)
(* keeps some of the records and completes them later, for the session it  *)
(* was given them in, and not without one; the units of the others go back *)
(* at once.                                                                *)
HandleData(kept) ==
    LET frame == Head(toCoproc)
        gap   == Skipped(frame.seq)
    IN
    /\ toCoproc # <<>> /\ frame.type = "DATA" /\ kept <= frame.units
    /\ Len(toHost) < MaxWire
    /\ toCoproc' = Tail(toCoproc)
    /\ expected' = frame.seq + 1
    /\ unreturned' = IF cSession = 0 THEN 0 ELSE unreturned + kept
    /\ toHost' = toHost \o Updates(cSession, Cardinality(gap))
                        \o Updates(cSession, frame.units - kept)
    /\ refunded' = refunded \cup {<<frame.epoch, n>> : n \in gap}
    /\ foreign' = IF frame.of = cSession THEN foreign ELSE foreign + frame.units
    /\ UNCHANGED <<hostVars, cState, cSession, nextId, wireId, faults, lost,
                   dropped>>

(* wlh_coproc_ethernet_rx_complete and flush_ethernet_rx_completions       *)
ReturnUnits(k) ==
    /\ k <= unreturned /\ Len(toHost) < MaxWire
    /\ unreturned' = unreturned - k /\ toHost' = Append(toHost, CreditUpdate(cSession, k))
    /\ UNCHANGED <<hostVars, cState, cSession, nextId, expected, wireId,
                   toCoproc, faults, ledger>>

(* coproc_emit_due_heartbeat.  One at a time is under way.                 *)
EmitHeartbeat ==
    /\ cState \in {"READY", "CONGESTED"} /\ Len(toHost) < MaxWire
    /\ Heartbeat(cSession) \notin ToSet(toHost)
    /\ toHost' = Append(toHost, Heartbeat(cSession))
    /\ UNCHANGED <<hostVars, coprocVars, toCoproc, faults, ledger>>

(* handle_rpc, an update of the credit the coprocessor's own sends run on: *)
(* it ends CONGESTED.  That credit is not in this module.                  *)
CoprocCreditUpdate ==
    /\ cState = "CONGESTED" /\ cState' = "READY"
    /\ UNCHANGED <<hostVars, cSession, nextId, expected, unreturned, wireId,
                   toCoproc, toHost, faults, ledger>>

-----------------------------------------------------------------------------
(* What goes wrong.                                                        *)

(* The units of session s a frame carries.                                 *)
UnitsOf(f, s) ==
    IF f.type \in {"DATA", "CREDIT_UPDATE"} /\ f.of = s THEN f.units ELSE 0

(* The data frames of a channel.                                           *)
DataIn(channel) == {Number(f) : f \in {g \in ToSet(channel) : g.type = "DATA"}}

(* A frame is lost on the wire, or finds no room in the receiver's job     *)
(* queue or no buffer (wlh_host_on_frame, wlh_coproc_on_frame).            *)
LoseToCoproc(i) ==
    /\ Fails /\ toCoproc' = RemoveAt(toCoproc, i)
    /\ lost' = lost + UnitsOf(toCoproc[i], cSession)
    /\ dropped' = dropped \cup DataIn(<<toCoproc[i]>>)
    /\ UNCHANGED <<hostVars, coprocVars, toHost, foreign, refunded>>

LoseToHost(i) ==
    /\ Fails /\ toHost' = RemoveAt(toHost, i)
    /\ lost' = lost + UnitsOf(toHost[i], cSession)
    /\ UNCHANGED <<hostVars, coprocVars, toCoproc, foreign, refunded, dropped>>

(* wlh_host_transport_lost, and its job; the frames under way may be lost  *)
(* with the transport.                                                     *)
TransportLost ==
    /\ Fails /\ transport = "up" /\ ProcessTransportLost
    /\ \/ UNCHANGED <<toCoproc, toHost, dropped>>
       \/ /\ toCoproc' = <<>> /\ toHost' = <<>>
          /\ dropped' = dropped \cup DataIn(toCoproc)
    /\ UNCHANGED <<coprocVars, lost, foreign, refunded>>

(* wlh_coproc_init and wlh_coproc_start: the frames that had reached the   *)
(* job queue are gone.                                                     *)
Reboot(queued) ==
    /\ Fails /\ cState' = "WAITING_FOR_HELLO" /\ cSession' = 0 /\ nextId' = 1
    /\ expected' = NoSequence /\ unreturned' = 0
    /\ toCoproc' = SubSeq(toCoproc, queued + 1, Len(toCoproc))
    /\ dropped' = dropped \cup DataIn(SubSeq(toCoproc, 1, queued))
    /\ UNCHANGED <<hostVars, wireId, toHost, lost, foreign, refunded>>

(* A send of the Coprocessor's own finds no credit.                        *)
CoprocCongested ==
    /\ Fails /\ cState' = "CONGESTED"
    /\ UNCHANGED <<hostVars, cSession, nextId, expected, unreturned, wireId,
                   toCoproc, toHost, ledger>>

Fault ==
    \/ \E i \in DOMAIN toCoproc : LoseToCoproc(i)
    \/ \E i \in DOMAIN toHost : LoseToHost(i)
    \/ TransportLost \/ CoprocCongested
    \/ \E queued \in 0 .. Len(toCoproc) : Reboot(queued)

-----------------------------------------------------------------------------
CoprocReceives ==
    HandleHelloRequest \/ \E kept \in 0 .. MaxRecords : HandleData(kept)

HostTransmits == \E k \in 1 .. MaxRecords : HandleEthernetTx(k)

LinkNext ==
    \/ Admit \/ HostTransmits \/ HostReceives \/ HeartbeatTimeout
    \/ HandleTransportStopped \/ HandleTransportStarted
    \/ CoprocReceives \/ CoprocCreditUpdate \/ EmitHeartbeat \/ Fault
    \/ \E k \in 1 .. unreturned : ReturnUnits(k)

LinkSpec == LinkInit /\ [][LinkNext]_sessionVars

(* The core tasks run, the silence is noticed, and the transport completes *)
(* what it is asked.  Heartbeats are sent in READY: in CONGESTED the core  *)
(* task has no deadline for them and sends them when something wakes it.   *)
LinkFairness ==
    /\ WF_sessionVars(HostReceives) /\ WF_sessionVars(CoprocReceives)
    /\ WF_sessionVars(HeartbeatTimeout)
    /\ WF_sessionVars(cState = "READY" /\ EmitHeartbeat)
    /\ WF_sessionVars(HandleTransportStopped) /\ WF_sessionVars(HandleTransportStarted)

FairLinkSpec == LinkSpec /\ LinkFairness

-----------------------------------------------------------------------------
(* The units of session s in a channel: unit u of the frame at place i.    *)
Units(channel, s) ==
    UNION {{i} \X (1 .. UnitsOf(channel[i], s)) : i \in DOMAIN channel}

UnitsUnderWay(channel, s) == Cardinality(Units(channel, s))

(* Both cores are in the same session.                                     *)
Agree == hSession # 0 /\ hSession = cSession

(* While both cores are in a session, every unit of its window is with the *)
(* Host, on its way in one of the directions, with the Coprocessor, or     *)
(* went down with a frame or an ignored Hello.  Beyond the window there    *)
(* are only the units of records charged to no session or another one,     *)
(* which process_frame does not tell apart, and those refunded for gaps in *)
(* the sequence, never more than one for a frame that was lost.            *)
CreditConserved ==
    Agree =>
        /\ credit + UnitsUnderWay(toCoproc, hSession) + unreturned
                  + UnitsUnderWay(toHost, hSession) + lost
             = Window + foreign + Cardinality(refunded)
        /\ refunded \subseteq dropped

(* A Host that is READY in a session is, in the end, in the Coprocessor's: *)
(* stale Hello responses, lost frames, reboots and lost transports leave   *)
(* no two sessions side by side.  A Host that waits in NEGOTIATING for a   *)
(* lost answer, or is CONGESTED, is not told of: no timer runs there.      *)
SessionsAgree ==
    <>[](hState = "READY" /\ hSession # 0 => SameId(hSession, cSession))
=============================================================================
