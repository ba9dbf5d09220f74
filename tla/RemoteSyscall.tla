----------------------------- MODULE RemoteSyscall -----------------------------
(***************************************************************************)
(* What a sandboxed thread is promised by the syscall broker: open() and   *)
(* access() answer as the system call made by the broker would, at most    *)
(* one system call is made for each, none for a path that is not on the    *)
(* whitelist, an open file arrives with the answer that announces it, and  *)
(* -ENOMEM is returned only by a process that is short of descriptors or   *)
(* whose broker is dead (the system call may then have been made).         *)
(***************************************************************************)
EXTENDS Naturals

CONSTANTS
  Threads,   \* the calling threads
  Short      \* TRUE when the calling process may be short of descriptors

VARIABLES
  phase,     \* of a thread: "idle", "called", "made" (the system call)
  request,   \* the request of a thread's last call
  number,    \* calls a thread has made
  outcome,   \* what the system call made for a thread returned
  result,    \* the last result a thread got: the call and its value
  files,     \* calls whose open file the process has been given
  broker     \* "up" or "dead"

vars == <<phase, request, number, outcome, result, files, broker>>

Requests == [cmd : {"open", "access"}, path : {"NULL", "listed", "unlisted"}]
NoRequest == [cmd |-> "access", path |-> "NULL"]
NoResult == [call |-> <<"none", 0>>, value |-> "none"]

Init ==
  /\ phase = [t \in Threads |-> "idle"]
  /\ request = [t \in Threads |-> NoRequest]
  /\ number = [t \in Threads |-> 0]
  /\ outcome = [t \in Threads |-> "none"]
  /\ result = [t \in Threads |-> NoResult]
  /\ files = {}
  /\ broker = "up"

Call(t) ==
  /\ phase[t] = "idle"
  /\ \E r \in Requests : request' = [request EXCEPT ![t] = r]
  /\ phase' = [phase EXCEPT ![t] = "called"]
  /\ number' = [number EXCEPT ![t] = @ + 1]
  /\ UNCHANGED <<outcome, result, files, broker>>

Make(t) ==
  /\ broker = "up"
  /\ phase[t] = "called" /\ request[t].path = "listed"
  /\ phase' = [phase EXCEPT ![t] = "made"]
  /\ \E o \in {"ok", "errno"} : outcome' = [outcome EXCEPT ![t] = o]
  /\ UNCHANGED <<request, number, result, files, broker>>

Return(t, value) ==
  /\ phase' = [phase EXCEPT ![t] = "idle"]
  /\ outcome' = [outcome EXCEPT ![t] = "none"]
  /\ result' = [result EXCEPT ![t] = [call |-> <<t, number[t]>>,
                                      value |-> value]]
  /\ UNCHANGED <<request, number, broker>>

Deliver(t) ==
  /\ phase[t] = "made"
  /\ Return(t, outcome[t])
  /\ files' = IF outcome[t] = "ok" /\ request[t].cmd = "open"
              THEN files \union {<<t, number[t]>>} ELSE files

Refuse(t) ==
  /\ phase[t] = "called" /\ request[t].path # "listed"
  /\ Return(t, IF request[t].path = "NULL" THEN "EFAULT" ELSE "denied")
  /\ UNCHANGED files

Fail(t) ==
  /\ phase[t] # "idle"
  /\ Short \/ broker = "dead"
  /\ Return(t, "ENOMEM")
  /\ UNCHANGED files

BrokerDies ==
  /\ broker = "up"
  /\ broker' = "dead"
  /\ UNCHANGED <<phase, request, number, outcome, result, files>>

(* The calling process ends in the middle of its calls.                      *)
CallerDies ==
  /\ phase' = [t \in Threads |-> "idle"]
  /\ outcome' = [t \in Threads |-> "none"]
  /\ UNCHANGED <<request, number, result, files, broker>>

Next ==
  \/ \E t \in Threads :
       Call(t) \/ Make(t) \/ Deliver(t) \/ Refuse(t) \/ Fail(t)
  \/ BrokerDies \/ CallerDies

Spec == Init /\ [][Next]_vars
================================================================================
