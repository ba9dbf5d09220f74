---------------------------- MODULE BrokeredCall ----------------------------
(***************************************************************************)
(* What a target thread is promised by CrossCall: each call is executed by *)
(* the broker at most once, before it returns; a result that comes from    *)
(* the broker is the result of executing this call; SBOX_ERROR_NO_SPACE    *)
(* means the broker never saw it; SBOX_ERROR_CHANNEL_ERROR is returned     *)
(* only after the sign of life of the broker was lost.                     *)
(***************************************************************************)
EXTENDS Naturals

CONSTANTS
  Clients,   \* the calling threads
  Outcomes   \* what executing a call can yield

VARIABLES
  phase,     \* of a thread: "idle", "sent" (called), "done" (executed)
  number,    \* calls a thread has made
  outcome,   \* what the executed call of a thread yielded, "none" before
  result,    \* the last result a thread got: the call and its outcome
  server     \* "up", "lost" (its sign of life is gone) or "dead"

vars == <<phase, number, outcome, result, server>>

NoResult == [call |-> <<"none", 0>>, outcome |-> "none"]

Init ==
  /\ phase = [t \in Clients |-> "idle"]
  /\ number = [t \in Clients |-> 0]
  /\ outcome = [t \in Clients |-> "none"]
  /\ result = [t \in Clients |-> NoResult]
  /\ server = "up"

Call(t) ==
  /\ phase[t] = "idle"
  /\ phase' = [phase EXCEPT ![t] = "sent"]
  /\ number' = [number EXCEPT ![t] = @ + 1]
  /\ UNCHANGED <<outcome, result, server>>

Execute(t) ==
  /\ server # "dead"
  /\ phase[t] = "sent"
  /\ phase' = [phase EXCEPT ![t] = "done"]
  /\ \E o \in Outcomes : outcome' = [outcome EXCEPT ![t] = o]
  /\ UNCHANGED <<number, result, server>>

Return(t, o) ==
  /\ phase' = [phase EXCEPT ![t] = "idle"]
  /\ outcome' = [outcome EXCEPT ![t] = "none"]
  /\ result' = [result EXCEPT ![t] = [call |-> <<t, number[t]>>,
                                      outcome |-> o]]
  /\ UNCHANGED <<number, server>>

(* The answer of the broker; BAD_PARAMS if the caller's own in/out buffer    *)
(* cannot be written.                                                        *)
Deliver(t) ==
  /\ phase[t] = "done"
  /\ \E o \in {outcome[t], "BAD_PARAMS"} : Return(t, o)

Refuse(t) == phase[t] = "sent" /\ Return(t, "NO_SPACE")

Fail(t) ==
  /\ phase[t] # "idle"
  /\ server # "up"
  /\ Return(t, "CHANNEL_ERROR")

Lose ==
  /\ server = "up"
  /\ server' = "lost"
  /\ UNCHANGED <<phase, number, outcome, result>>

Die ==
  /\ server # "dead"
  /\ server' = "dead"
  /\ UNCHANGED <<phase, number, outcome, result>>

Next ==
  \/ \E t \in Clients :
       Call(t) \/ Execute(t) \/ Deliver(t) \/ Refuse(t) \/ Fail(t)
  \/ Lose \/ Die

Spec == Init /\ [][Next]_vars
=============================================================================
