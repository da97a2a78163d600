--------------------------------- MODULE Rpc ---------------------------------
(***************************************************************************)
(* What Client::send_pdu promises its callers (wezterm-client/src/         *)
(* client.rs): the server runs a request at most once, whatever happens to *)
(* the connection, and a call is settled once, by the reply to that very   *)
(* request, by an error, or by its caller's own timeout.                   *)
(***************************************************************************)
EXTENDS Naturals

CONSTANT Calls

VARIABLES
    outcome,   \* of each call: "idle", "waiting", "failed", "expired" or the
               \* call whose request the reply answers
    runs       \* how often the server ran its request

vars == <<outcome, runs>>

Init ==
    /\ outcome = [c \in Calls |-> "idle"]
    /\ runs = [c \in Calls |-> 0]

Call(c) ==
    /\ outcome[c] = "idle"
    /\ outcome' = [outcome EXCEPT ![c] = "waiting"]
    /\ UNCHANGED runs

(* The request was sent, so its call is no longer idle.                    *)
Execute(c) ==
    /\ outcome[c] # "idle"
    /\ runs[c] = 0
    /\ runs' = [runs EXCEPT ![c] = 1]
    /\ UNCHANGED outcome

Reply(c) ==
    /\ outcome[c] = "waiting"
    /\ runs[c] = 1
    /\ outcome' = [outcome EXCEPT ![c] = c]
    /\ UNCHANGED runs

Expire(c) ==
    /\ outcome[c] = "waiting"
    /\ outcome' = [outcome EXCEPT ![c] = "expired"]
    /\ UNCHANGED runs

(* A broken connection fails several calls at once, and an idle call that  *)
(* finds no client thread fails as well.                                   *)
Fail(S) ==
    /\ \A c \in S : outcome[c] \in {"idle", "waiting"}
    /\ outcome' = [c \in Calls |-> IF c \in S THEN "failed" ELSE outcome[c]]
    /\ UNCHANGED runs

Next ==
    \/ \E c \in Calls : Call(c) \/ Execute(c) \/ Reply(c) \/ Expire(c)
    \/ \E S \in SUBSET Calls : Fail(S)

Spec == Init /\ [][Next]_vars

=============================================================================
