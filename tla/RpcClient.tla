----------------------------- MODULE RpcClient -----------------------------
(***************************************************************************)
(* What wlh_host_rpc_request promises its caller, whatever happens to the  *)
(* link: an accepted request ends at most once, by one run of its          *)
(* completion callback or by being dropped when the host stops, and a      *)
(* response can only end a request that was sent.                          *)
(***************************************************************************)
EXTENDS Sequences

CONSTANTS Calls, Results

VARIABLES
    accepted,   \* requests the interface accepted
    sent,       \* those handed to the transport
    outcome,    \* results given to each request's callback
    dropped     \* requests discarded without one

vars == <<accepted, sent, outcome, dropped>>

Open == {c \in accepted \ dropped : outcome[c] = <<>>}

Init ==
    /\ accepted = {} /\ sent = {} /\ dropped = {}
    /\ outcome = [c \in Calls |-> <<>>]

Accept(c) ==
    /\ c \notin accepted /\ accepted' = accepted \cup {c}
    /\ UNCHANGED <<sent, outcome, dropped>>

Send(c) ==
    /\ c \in Open /\ sent' = sent \cup {c}
    /\ UNCHANGED <<accepted, outcome, dropped>>

Finish(cs, r) ==
    /\ cs \subseteq Open /\ (r = "OK" => cs \subseteq sent)
    /\ outcome' = [c \in Calls |-> IF c \in cs THEN Append(outcome[c], r)
                                              ELSE outcome[c]]
    /\ UNCHANGED <<accepted, sent, dropped>>

Drop(cs) ==
    /\ cs \subseteq Open /\ dropped' = dropped \cup cs
    /\ UNCHANGED <<accepted, sent, outcome>>

Next ==
    \/ \E c \in Calls : Accept(c) \/ Send(c)
    \/ \E cs \in SUBSET Calls : Drop(cs) \/ \E r \in Results : Finish(cs, r)

Spec == Init /\ [][Next]_vars
=============================================================================
