--------------------------- MODULE BootstrapSandbox ---------------------------
(***************************************************************************)
(* The bootstrap sandbox of the Mac: a child that the parent launches      *)
(* checks in with a token (BootstrapSandbox), is entered under the         *)
(* identifier of its process, and is given the port of a server that       *)
(* filters what it asks of launchd (LaunchdInterceptionServer).  Processes *)
(* that a child starts have that port as well, and no entry.               *)
(*                                                                         *)
(* Both servers receive from a port that keeps messages of processes which *)
(* have ended since, and identifiers of processes are reused.  The kernel  *)
(* frees an identifier when the parent has reaped the process, which it    *)
(* does after InvalidateClient.                                            *)
(***************************************************************************)
EXTENDS Naturals, Sequences

CONSTANTS
  Clients,     \* processes the parent launches
  Descendants, \* processes that those start
  Pids,
  Policies,    \* named rules and a default one; all are registered
  Requests,    \* what a process asks of launchd
  Nobody

(* Of a policy that IsPolicyValid accepts (bootstrap_sandbox.cc:141).        *)
Rules == {"ALLOW", "DENY_ERROR", "DENY_DUMMY_PORT", "SUBSTITUTE_PORT"}

ASSUME BootstrapAssumption ==
  /\ Pids # {} /\ Nobody \notin Clients \union Descendants \union Policies
  /\ Clients \intersect Descendants = {}
  /\ \A request \in Requests : request.kind \in
       {"lookUp", "swapInteger", "domainManagement", "unknown"}
  /\ \A policy \in Policies :
       /\ policy.default_rule \in Rules
       /\ \A name \in DOMAIN policy.rules : policy.rules[name] \in Rules

Procs == Clients \union Descendants

VARIABLES
  life,          \* "unborn", "launching", "forked", "asking", "inside", "refused", "dead", "invalidated", "gone"
  pid_of, policy_of,         \* the policy a client is launched under
  awaiting_processes,        \* those whose token is known
  sandboxed_processes,       \* the policy of each pid that has checked in
  check_ins,                 \* messages on check_in_port_
  replying,                  \* whose check-in is being answered
  requests,                  \* senders of the messages on the port of the server
  check_failed               \* a CHECK of HandleChildCheckIn ended the parent

lifeVars == <<life, pid_of, policy_of>>
mapVars == <<awaiting_processes, sandboxed_processes>>
serverVars == <<check_ins, replying, requests, check_failed>>
bootstrapVars == <<lifeVars, mapVars, serverVars>>

Lives == {"unborn", "launching", "forked", "asking", "inside", "refused", "dead", "invalidated", "gone"}

BootstrapTypeOK ==
  /\ life \in [Procs -> Lives]
  /\ pid_of \in [Procs -> Pids] /\ policy_of \in [Procs -> Policies \union {Nobody}]
  /\ awaiting_processes \subseteq Procs
  /\ DOMAIN sandboxed_processes \subseteq Pids
  /\ \A pid \in DOMAIN sandboxed_processes : sandboxed_processes[pid] \in Policies
  /\ check_ins \in Seq(Procs) /\ replying \in Procs \union {Nobody}
  /\ requests \in Seq(Procs)
  /\ check_failed \in BOOLEAN

BootstrapInit ==
  /\ life = [q \in Procs |-> "unborn"]
  /\ pid_of = [q \in Procs |-> CHOOSE pid \in Pids : TRUE]
  /\ policy_of = [q \in Procs |-> Nobody]
  /\ awaiting_processes = {} /\ sandboxed_processes = [pid \in {} |-> Nobody]
  /\ check_ins = <<>> /\ replying = Nobody /\ requests = <<>>
  /\ check_failed = FALSE

Live(q) == life[q] \in {"forked", "asking", "inside", "refused"}
HasPid(q) == Live(q) \/ life[q] \in {"dead", "invalidated"}
Free(pid) == \A q \in Procs : HasPid(q) => pid_of[q] # pid
Become(q, stage) == life' = [life EXCEPT ![q] = stage]
Without(pid) == [p \in DOMAIN sandboxed_processes \ {pid} |-> sandboxed_processes[p]]

-----------------------------------------------------------------------------
(* The parent.                                                               *)
NewClient(q, policy) ==
  /\ ~check_failed /\ life[q] = "unborn"
  /\ Become(q, "launching")
  /\ policy_of' = [policy_of EXCEPT ![q] = policy]
  /\ awaiting_processes' = awaiting_processes \union {q}
  /\ UNCHANGED <<pid_of, sandboxed_processes, serverVars>>

LaunchProcess(q, pid) ==
  /\ ~check_failed /\ life[q] = "launching" /\ Free(pid)
  /\ Become(q, "forked")
  /\ pid_of' = [pid_of EXCEPT ![q] = pid]
  /\ UNCHANGED <<policy_of, mapVars, serverVars>>

LaunchFails(q) ==
  /\ ~check_failed /\ life[q] = "launching"
  /\ Become(q, "gone")
  /\ UNCHANGED <<pid_of, policy_of, mapVars, serverVars>>

(* Of a client that did not launch properly, as far as the parent knows.     *)
RevokeToken(q) ==
  /\ ~check_failed /\ life[q] # "launching" /\ q \in awaiting_processes
  /\ awaiting_processes' = awaiting_processes \ {q}
  /\ UNCHANGED <<lifeVars, sandboxed_processes, serverVars>>

InvalidateClient(q) ==
  /\ ~check_failed /\ life[q] = "dead"
  /\ sandboxed_processes' = Without(pid_of[q])
  /\ Become(q, "invalidated")
  /\ UNCHANGED <<pid_of, policy_of, awaiting_processes, serverVars>>

(* Whoever started the process reaps it.                                     *)
ReapProcess(q) ==
  /\ life[q] = IF q \in Clients THEN "invalidated" ELSE "dead"
  /\ Become(q, "gone")
  /\ UNCHANGED <<pid_of, policy_of, mapVars, serverVars>>

-----------------------------------------------------------------------------
(* The processes.                                                            *)
ClientCheckIn(q) ==
  /\ life[q] = "forked"
  /\ Become(q, "asking")
  /\ check_ins' = Append(check_ins, q)
  /\ UNCHANGED <<pid_of, policy_of, mapVars, replying, requests, check_failed>>

(* A process with the port starts another.                                   *)
StartOther(q, other, pid) ==
  /\ life[q] = "inside" /\ life[other] = "unborn" /\ Free(pid)
  /\ Become(other, "inside")
  /\ pid_of' = [pid_of EXCEPT ![other] = pid]
  /\ UNCHANGED <<policy_of, mapVars, serverVars>>

(* It waits for the answer of one request before it sends another.           *)
AskLaunchd(q) ==
  /\ life[q] = "inside"
  /\ \A i \in 1..Len(requests) : requests[i] # q
  /\ requests' = Append(requests, q)
  /\ UNCHANGED <<lifeVars, mapVars, check_ins, replying, check_failed>>

ProcessEnds(q) ==
  /\ Live(q)
  /\ Become(q, "dead")
  /\ UNCHANGED <<pid_of, policy_of, mapVars, serverVars>>

-----------------------------------------------------------------------------
(* The check-in server, which handles one message after another.             *)
(* Destroying a message tells its sender that no reply will come.            *)
Refuse(q) == IF Live(q) THEN Become(q, "refused") ELSE UNCHANGED life

HandleChildCheckIn ==
  /\ ~check_failed /\ replying = Nobody /\ check_ins # <<>>
  /\ check_ins' = Tail(check_ins)
  /\ LET q == Head(check_ins) IN
     \/ /\ q \notin awaiting_processes
        /\ Refuse(q)
        /\ UNCHANGED <<mapVars, replying, check_failed>>
     \/ /\ q \in awaiting_processes
        /\ pid_of[q] \in DOMAIN sandboxed_processes
        /\ check_failed' = TRUE
        /\ UNCHANGED <<life, mapVars, replying>>
     \/ /\ q \in awaiting_processes
        /\ pid_of[q] \notin DOMAIN sandboxed_processes
        /\ sandboxed_processes' = [pid \in DOMAIN sandboxed_processes \union {pid_of[q]} |->
             IF pid = pid_of[q] THEN policy_of[q] ELSE sandboxed_processes[pid]]
        /\ awaiting_processes' = awaiting_processes \ {q}
        /\ replying' = q
        /\ UNCHANGED <<life, check_failed>>
  /\ UNCHANGED <<pid_of, policy_of, requests>>

(* Mutant: a reply that could not be sent is tried again with the message. *)
SendCheckInReplyAgain ==
  /\ ~check_failed /\ replying # Nobody
  /\ replying' = Nobody
  /\ \/ /\ Live(replying)
        /\ Become(replying, "inside") /\ UNCHANGED <<awaiting_processes, check_ins>>
     \/ /\ awaiting_processes' = awaiting_processes \union {replying}
        /\ check_ins' = Append(check_ins, replying)
        /\ UNCHANGED life
  /\ UNCHANGED <<pid_of, policy_of, sandboxed_processes, requests, check_failed>>

(* Without the lock.  The reply cannot be sent to a process that has ended,  *)
(* and may take too long for one that has not.                               *)
SendCheckInReply ==
  /\ ~check_failed /\ replying # Nobody
  /\ replying' = Nobody
  /\ \/ /\ Live(replying)
        /\ Become(replying, "inside") /\ UNCHANGED sandboxed_processes
     \/ /\ Refuse(replying)
        /\ sandboxed_processes' = Without(pid_of[replying])
  /\ UNCHANGED <<pid_of, policy_of, awaiting_processes, check_ins, requests, check_failed>>

-----------------------------------------------------------------------------
(* The server in place of launchd.                                           *)
RuleFor(name, policy) ==
  IF name \in DOMAIN policy.rules THEN policy.rules[name] ELSE policy.default_rule

HandleLookUp(request, policy) ==
  CASE RuleFor(request.name, policy) = "ALLOW" -> "forwarded"
    [] RuleFor(request.name, policy) = "DENY_ERROR" -> "rejected"
    [] RuleFor(request.name, policy) = "DENY_DUMMY_PORT" -> "dummy"
    [] RuleFor(request.name, policy) = "SUBSTITUTE_PORT" -> "substituted"

HandleSwapInteger(request) == IF request.read_only THEN "forwarded" ELSE "rejected"

PolicyForProcess(pid) ==
  IF pid \in DOMAIN sandboxed_processes THEN sandboxed_processes[pid] ELSE Nobody

(* Mutant: the rules bind those who have checked in. *)
DemuxOfAnybody(request, policy) ==
  IF policy = Nobody THEN "forwarded"
  ELSE CASE request.kind = "lookUp" -> HandleLookUp(request, policy)
         [] request.kind = "swapInteger" -> HandleSwapInteger(request)
         [] request.kind = "domainManagement" -> "acknowledged"
         [] OTHER -> "rejected"

Demux(request, policy) ==
  IF policy = Nobody THEN "rejected"
  ELSE CASE request.kind = "lookUp" -> HandleLookUp(request, policy)
         [] request.kind = "swapInteger" -> HandleSwapInteger(request)
         [] request.kind = "domainManagement" -> "acknowledged"
         [] OTHER -> "rejected"

(* What the server would answer to q now.                                    *)
AnswerTo(q, request) == Demux(request, PolicyForProcess(pid_of[q]))

DemuxMessage ==
  /\ ~check_failed /\ requests # <<>>
  /\ requests' = Tail(requests)
  /\ UNCHANGED <<lifeVars, mapVars, check_ins, replying, check_failed>>

-----------------------------------------------------------------------------
BootstrapNext ==
  \/ \E q \in Clients :
       \/ \E policy \in Policies : NewClient(q, policy)
       \/ \E pid \in Pids : LaunchProcess(q, pid)
       \/ LaunchFails(q) \/ RevokeToken(q) \/ InvalidateClient(q) \/ ClientCheckIn(q)
  \/ \E q \in Procs :
       \/ \E other \in Descendants, pid \in Pids : StartOther(q, other, pid)
       \/ AskLaunchd(q) \/ ProcessEnds(q) \/ ReapProcess(q)
  \/ HandleChildCheckIn \/ SendCheckInReply \/ DemuxMessage

(* The dispatch queues serve their ports.                                    *)
CheckInServer == HandleChildCheckIn \/ SendCheckInReply

BootstrapSpec ==
  /\ BootstrapInit /\ [][BootstrapNext]_bootstrapVars
  /\ WF_bootstrapVars(CheckInServer) /\ WF_bootstrapVars(DemuxMessage)

-----------------------------------------------------------------------------
(* The parent does not die of its CHECK that a process checks in once        *)
(* (bootstrap_sandbox.cc:231), whatever became of the processes that had the *)
(* identifier before.                                                        *)
ChecksHold == ~check_failed

(* An entry is of a process that nobody has reaped, or goes with the reply   *)
(* that cannot be sent (bootstrap_sandbox.cc:253): no entry is left for the  *)
(* next process with the identifier.                                         *)
EntriesHaveOwners ==
  \A pid \in DOMAIN sandboxed_processes :
    \E q \in Procs : /\ pid_of[q] = pid /\ policy_of[q] = sandboxed_processes[pid]
                     /\ Live(q) \/ life[q] = "dead" \/ replying = q

(* Of a process that runs, what reaches launchd is what its own policy lets  *)
(* through (launchd_interception_server.cc:76): look ups with a rule that    *)
(* allows them and swaps that only read, and of one that never checked in    *)
(* nothing; but for the moment in which the check-in of a process that ended,*)
(* and had its identifier, is being answered.                                *)
ReachesLaunchd(policy, request) ==
  /\ policy # Nobody
  /\ \/ request.kind = "lookUp" /\ RuleFor(request.name, policy) = "ALLOW"
     \/ request.kind = "swapInteger" /\ request.read_only

Overlooked(q) == policy_of[q] = Nobody /\ replying # Nobody /\ pid_of[replying] = pid_of[q]

AnsweredByOwnPolicy ==
  \A i \in 1..Len(requests), request \in Requests :
    LET q == requests[i] IN
    Live(q) /\ ~Overlooked(q) =>
      (AnswerTo(q, request) = "forwarded" <=> ReachesLaunchd(policy_of[q], request))

(* A child that has checked in does not wait forever before its exec.        *)
CheckInEnds == \A q \in Clients : life[q] = "asking" ~> life[q] # "asking"

(* The table of sandboxed processes is right though identifiers are used     *)
(* again: no check-in meets the entry of another process, and no entry       *)
(* outlives its own (bootstrap_sandbox.cc:231, 253).                         *)
BootstrapInv == BootstrapTypeOK /\ ChecksHold /\ EntriesHaveOwners
================================================================================
