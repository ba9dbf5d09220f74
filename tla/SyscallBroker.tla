----------------------------- MODULE SyscallBroker -----------------------------
(***************************************************************************)
(* The Linux syscall broker: threads of a sandboxed process (BrokerClient) *)
(* have open() and access() made for them by a child process (BrokerHost), *)
(* forked before the sandbox was entered.  Requests share one SEQPACKET    *)
(* channel; each brings the sending end of a socket pair of its own, on    *)
(* which it is answered, with the opened file attached.                    *)
(*                                                                         *)
(* Sockets are modelled from how this code uses them: a message keeps the  *)
(* descriptors attached to it open, a reader sees the end of file when no  *)
(* message is queued and no writing end is open anywhere, and sending      *)
(* fails when the reading end is gone.  A fork copies every descriptor.    *)
(***************************************************************************)
EXTENDS Naturals, Sequences

LOCAL INSTANCE Functions

CONSTANTS
  Threads,       \* threads of the sandboxed process
  MaxCalls,      \* bound: calls the threads make together
  Capacity,      \* messages the channel holds before sendmsg blocks
  MaxMalformed,  \* bound: requests nobody can parse
  Short,         \* TRUE when a process may be short of descriptors
  MayFork        \* TRUE when the sandboxed process may fork

ASSUME ThreadsAssumption == {"none", "malformed"} \cap Threads = {}
ASSUME BoundsAssumption ==
  MaxCalls \in Nat /\ Capacity \in Nat \ {0} /\ MaxMalformed \in Nat
ASSUME SwitchAssumption == Short \in BOOLEAN /\ MayFork \in BOOLEAN

(* The pathname is NULL, or one the policy allows with these flags, or not.  *)
Requests == [cmd : {"open", "access"}, path : {"NULL", "listed", "unlisted"}]
NoRequest == [cmd |-> "access", path |-> "NULL"]

Calls == (Threads \union {"none", "malformed"}) \X Nat
NoCall == <<"none", 0>>
Malformed == <<"malformed", 0>>
Messages == [call : Calls, request : Requests]
NoMessage == [call |-> NoCall, request |-> NoRequest]

Values == {"none", "ok", "errno", "denied", "EFAULT", "ENOMEM"}
Replies == [call : Calls, value : Values, file : BOOLEAN]
NoReply == [call |-> NoCall, value |-> "none", file |-> FALSE]
Results == [call : Calls, value : Values]

VARIABLES
  fast_check,    \* fast_check_in_client_
  pc,            \* where a thread is
  request,       \* what it asked for last
  calls,         \* calls begun by a thread
  result,        \* the last result it got
  files,         \* calls whose opened file the process has been given
  reply,         \* what is queued at the receiving end of a thread's pair
  client,        \* the sandboxed process and its BrokerProcess object
  forked,        \* a child of the sandboxed process is alive
  copies,        \* threads of whose current pair it has copies
  malformed,     \* malformed requests sent
  channel,       \* requests queued in the channel
  host,          \* where the broker process is
  message,       \* the request it handles
  answer,        \* write_pickle and opened_files
  fds            \* descriptors it has opened or received

threadVars == <<pc, request, calls, result, files>>
clientVars == <<fast_check, client, forked, copies, malformed>>
hostVars == <<host, message, answer, fds>>
vars == <<threadVars, clientVars, reply, channel, hostVars>>

HostPC == {"recv", "drop", "handle", "reply", "close", "exited", "killed"}
ThreadPC == {"idle", "pair", "send", "release", "recv"}
Sock(c) == <<"socket", c>>
File(c) == <<"file", c>>

TypeOK ==
  /\ fast_check \in BOOLEAN
  /\ pc \in [Threads -> ThreadPC]
  /\ request \in [Threads -> Requests]
  /\ calls \in [Threads -> Nat]
  /\ result \in [Threads -> Results]
  /\ files \in SUBSET Calls
  /\ reply \in [Threads -> Replies]
  /\ client \in {"up", "closed", "reaping", "reaped", "dead"}
  /\ forked \in BOOLEAN
  /\ copies \in SUBSET Threads
  /\ malformed \in Nat
  /\ channel \in Seq(Messages)
  /\ host \in HostPC
  /\ message \in Messages
  /\ answer \in Replies
  /\ fds \in SUBSET ({"socket", "file"} \X Calls)

(* BrokerProcess::Init has returned in the parent.                           *)
Init ==
  /\ fast_check \in BOOLEAN
  /\ pc = [t \in Threads |-> "idle"]
  /\ request = [t \in Threads |-> NoRequest]
  /\ calls = [t \in Threads |-> 0]
  /\ result = [t \in Threads |-> [call |-> NoCall, value |-> "none"]]
  /\ files = {}
  /\ reply = [t \in Threads |-> NoReply]
  /\ client = "up"
  /\ forked = FALSE
  /\ copies = {}
  /\ malformed = 0
  /\ channel = <<>>
  /\ host = "recv"
  /\ message = NoMessage
  /\ answer = NoReply
  /\ fds = {}

-----------------------------------------------------------------------------
(* The client: PathAndFlagsSyscall over SendRecvMsgWithFlags.                *)

HostDown == host \in {"exited", "killed"}
Goto(t, label) == pc' = [pc EXCEPT ![t] = label]
ThisCall(t) == <<t, calls[t]>>

(* The call ends with both ends of its socket pair closed.                   *)
Return(t, call, value) ==
  /\ Goto(t, "idle")
  /\ result' = [result EXCEPT ![t] = [call |-> call, value |-> value]]
  /\ reply' = [reply EXCEPT ![t] = NoReply]
  /\ copies' = copies \ {t}

CallsMade == FoldFunction(+, 0, calls)

PathAndFlagsSyscall(t) ==
  /\ client = "up" /\ pc[t] = "idle" /\ CallsMade < MaxCalls
  /\ calls' = [calls EXCEPT ![t] = @ + 1]
  /\ \E r \in Requests : request' = [request EXCEPT ![t] = r]
  /\ Goto(t, "pair")
  /\ UNCHANGED <<result, files, clientVars, reply, channel, hostVars>>

(* The early returns: -EFAULT, or -denied_errno by the check in the client.  *)
RefuseEarly(t) ==
  /\ client = "up" /\ pc[t] = "pair"
  /\ \/ request[t].path = "NULL" /\ Return(t, ThisCall(t), "EFAULT")
     \/ /\ request[t].path = "unlisted" /\ fast_check
        /\ Return(t, ThisCall(t), "denied")
  /\ UNCHANGED <<request, calls, files, fast_check, client, forked, malformed,
                 channel, hostVars>>

Sendable(t) ==
  \/ request[t].path = "listed"
  \/ request[t].path = "unlisted" /\ ~fast_check

CreateSocketPair(t) ==
  /\ client = "up" /\ pc[t] = "pair" /\ Sendable(t)
  /\ Goto(t, "send")
  /\ UNCHANGED <<request, calls, result, files, clientVars, reply, channel,
                 hostVars>>

CreateSocketPairFails(t) ==
  /\ client = "up" /\ pc[t] = "pair" /\ Sendable(t) /\ Short
  /\ Return(t, ThisCall(t), "ENOMEM")
  /\ UNCHANGED <<request, calls, files, fast_check, client, forked, malformed,
                 channel, hostVars>>

SendMsg(t) ==
  /\ client = "up" /\ pc[t] = "send"
  /\ ~HostDown /\ Len(channel) < Capacity
  /\ channel' = Append(channel, [call |-> ThisCall(t), request |-> request[t]])
  /\ Goto(t, "release")
  /\ UNCHANGED <<request, calls, result, files, clientVars, reply, hostVars>>

SendMsgFails(t) ==
  /\ client = "up" /\ pc[t] = "send" /\ HostDown
  /\ Return(t, ThisCall(t), "ENOMEM")
  /\ UNCHANGED <<request, calls, files, fast_check, client, forked, malformed,
                 channel, hostVars>>

(* Mutant: send_sock is closed when the call returns only, so its own copy   *)
(* hides the end of the file.                                                *)
ReleaseSendSockLate(t) ==
  /\ client = "up" /\ pc[t] = "release" /\ reply[t] # NoReply
  /\ Goto(t, "recv")
  /\ UNCHANGED <<request, calls, result, files, clientVars, reply, channel,
                 hostVars>>

(* send_sock.reset()                                                         *)
ReleaseSendSock(t) ==
  /\ client = "up" /\ pc[t] = "release"
  /\ Goto(t, "recv")
  /\ UNCHANGED <<request, calls, result, files, clientVars, reply, channel,
                 hostVars>>

RecvReply(t) ==
  /\ client = "up" /\ pc[t] = "recv" /\ reply[t] # NoReply
  /\ files' = IF reply[t].file THEN files \union {reply[t].call} ELSE files
  /\ Return(t, reply[t].call, reply[t].value)
  /\ UNCHANGED <<request, calls, fast_check, client, forked, malformed,
                 channel, hostVars>>

(* MSG_CTRUNC: there is no descriptor left for the file.                     *)
RecvTruncated(t) ==
  /\ client = "up" /\ pc[t] = "recv" /\ reply[t].file /\ Short
  /\ Return(t, ThisCall(t), "ENOMEM")
  /\ UNCHANGED <<request, calls, files, fast_check, client, forked, malformed,
                 channel, hostVars>>

Queued(c) == \E i \in DOMAIN channel : channel[i].call = c
SenderOpen(t) ==
  t \in copies \/ Queued(ThisCall(t)) \/ Sock(ThisCall(t)) \in fds

RecvEOF(t) ==
  /\ client = "up" /\ pc[t] = "recv"
  /\ reply[t] = NoReply /\ ~SenderOpen(t)
  /\ Return(t, ThisCall(t), "ENOMEM")
  /\ UNCHANGED <<request, calls, files, fast_check, client, forked, malformed,
                 channel, hostVars>>

-----------------------------------------------------------------------------
(* The sandboxed process and its BrokerProcess object.                       *)

(* A request that is no pickle, or with no or two descriptors.               *)
SendMalformed ==
  /\ client = "up" /\ malformed < MaxMalformed
  /\ ~HostDown /\ Len(channel) < Capacity
  /\ malformed' = malformed + 1
  /\ channel' = Append(channel, [call |-> Malformed, request |-> NoRequest])
  /\ UNCHANGED <<threadVars, fast_check, client, forked, copies, reply,
                 hostVars>>

Fork ==
  /\ client = "up" /\ MayFork /\ ~forked
  /\ forked' = TRUE
  /\ copies' = {t \in Threads : pc[t] \in {"send", "release"}}
  /\ UNCHANGED <<threadVars, fast_check, client, malformed, reply, channel,
                 hostVars>>

ChildExits ==
  /\ forked
  /\ forked' = FALSE
  /\ copies' = {}
  /\ UNCHANGED <<threadVars, fast_check, client, malformed, reply, channel,
                 hostVars>>

ClientDies ==
  /\ client = "up"
  /\ client' = "dead"
  /\ UNCHANGED <<threadVars, fast_check, forked, copies, malformed, reply,
                 channel, hostVars>>

(* ~BrokerProcess, which nobody calls under a call in progress.              *)
CloseChannel ==
  /\ client = "up" /\ \A t \in Threads : pc[t] = "idle"
  /\ client' = "closed"
  /\ UNCHANGED <<threadVars, fast_check, forked, copies, malformed, reply,
                 channel, hostVars>>

(* Mutant: the end of the channel is trusted to end the broker.              *)
KillNothing ==
  /\ client = "closed" /\ HostDown
  /\ client' = "reaping"
  /\ UNCHANGED <<threadVars, fast_check, forked, copies, malformed, reply,
                 channel, hostVars>>

KillBroker ==
  /\ client = "closed"
  /\ client' = "reaping"
  /\ UNCHANGED <<threadVars, fast_check, forked, copies, malformed, reply,
                 channel, hostVars>>

ReapBroker ==
  /\ client = "reaping" /\ HostDown
  /\ client' = "reaped"
  /\ UNCHANGED <<threadVars, fast_check, forked, copies, malformed, reply,
                 channel, hostVars>>

-----------------------------------------------------------------------------
(* The broker process: the loop over HandleRequest.                          *)

HostGoto(label) == host' = label

RecvMsg ==
  /\ host = "recv" /\ channel # <<>>
  /\ message' = Head(channel)
  /\ channel' = Tail(channel)
  /\ fds' = fds \union {Sock(Head(channel).call)}
  /\ HostGoto(IF Head(channel).call = Malformed THEN "drop" ELSE "handle")
  /\ UNCHANGED <<threadVars, clientVars, reply, answer>>

(* MSG_CTRUNC: the request's socket is lost, and the request refused.        *)
RecvMsgTruncated ==
  /\ host = "recv" /\ channel # <<>> /\ Short
  /\ channel' = Tail(channel)
  /\ UNCHANGED <<threadVars, clientVars, reply, hostVars>>

(* No writing end of the channel is open: the process exits.                 *)
LostClient ==
  /\ host = "recv" /\ channel = <<>>
  /\ client # "up" /\ ~forked
  /\ HostGoto("exited")
  /\ fds' = {}
  /\ UNCHANGED <<threadVars, clientVars, reply, channel, message, answer>>

(* Mutant: an early return keeps the request's socket open.                  *)
DropRequestLeaks ==
  /\ host = "drop"
  /\ HostGoto("recv")
  /\ message' = NoMessage
  /\ fds' = fds
  /\ UNCHANGED <<threadVars, clientVars, reply, channel, answer>>

DropRequest ==
  /\ host = "drop"
  /\ HostGoto("recv")
  /\ message' = NoMessage
  /\ fds' = fds \ {Sock(Malformed)}
  /\ UNCHANGED <<threadVars, clientVars, reply, channel, answer>>

Answer(value, file) ==
  /\ answer' = [call |-> message.call, value |-> value, file |-> file]
  /\ HostGoto("reply")
  /\ UNCHANGED <<threadVars, clientVars, reply, channel, message>>

DenyRequest ==
  /\ host = "handle" /\ message.request.path = "unlisted"
  /\ Answer("denied", FALSE)
  /\ fds' = fds

(* Mutant: the opened file is not attached to the answer.                    *)
OpenFileUnattached ==
  /\ host = "handle" /\ message.request = [cmd |-> "open", path |-> "listed"]
  /\ \/ Answer("ok", FALSE) /\ fds' = fds \union {File(message.call)}
     \/ Answer("errno", FALSE) /\ fds' = fds

OpenFileForIPC ==
  /\ host = "handle" /\ message.request = [cmd |-> "open", path |-> "listed"]
  /\ \/ Answer("ok", TRUE) /\ fds' = fds \union {File(message.call)}
     \/ Answer("errno", FALSE) /\ fds' = fds

AccessFileForIPC ==
  /\ host = "handle" /\ message.request = [cmd |-> "access", path |-> "listed"]
  /\ \E value \in {"ok", "errno"} : Answer(value, FALSE)
  /\ fds' = fds

(* The receiving end is open while its thread waits or a fork has copied it. *)
Receiver(t) ==
  /\ answer.call = ThisCall(t)
  /\ \/ client = "up" /\ pc[t] \in {"release", "recv"}
     \/ t \in copies

SendReply ==
  /\ host = "reply"
  /\ reply' = [t \in Threads |-> IF Receiver(t) THEN answer ELSE reply[t]]
  /\ HostGoto("close")
  /\ UNCHANGED <<threadVars, clientVars, channel, message, answer, fds>>

CloseFiles ==
  /\ host = "close"
  /\ HostGoto("recv")
  /\ message' = NoMessage
  /\ answer' = NoReply
  /\ fds' = fds \ {Sock(message.call), File(message.call)}
  /\ UNCHANGED <<threadVars, clientVars, reply, channel>>

(* By ~BrokerProcess, or by someone else.                                    *)
HostKilled ==
  /\ ~HostDown
  /\ HostGoto("killed")
  /\ channel' = <<>>
  /\ fds' = {}
  /\ UNCHANGED <<threadVars, clientVars, reply, message, answer>>

-----------------------------------------------------------------------------
ClientStep(t) ==
  \/ RefuseEarly(t) \/ CreateSocketPair(t) \/ CreateSocketPairFails(t)
  \/ SendMsg(t) \/ SendMsgFails(t) \/ ReleaseSendSock(t)
  \/ RecvReply(t) \/ RecvTruncated(t) \/ RecvEOF(t)

HandleRequest ==
  \/ RecvMsg \/ RecvMsgTruncated \/ LostClient \/ DropRequest
  \/ DenyRequest \/ OpenFileForIPC \/ AccessFileForIPC
  \/ SendReply \/ CloseFiles

Next ==
  \/ \E t \in Threads : PathAndFlagsSyscall(t) \/ ClientStep(t)
  \/ SendMalformed \/ Fork \/ ChildExits \/ ClientDies
  \/ CloseChannel \/ KillBroker \/ ReapBroker
  \/ HandleRequest \/ HostKilled

Spec == Init /\ [][Next]_vars

(* Threads in a call and the broker process are scheduled, the destructor    *)
(* goes on, and a SIGKILL arrives.                                           *)
Fairness ==
  /\ \A t \in Threads : WF_vars(ClientStep(t))
  /\ WF_vars(HandleRequest)
  /\ WF_vars(KillBroker) /\ WF_vars(ReapBroker)
  /\ WF_vars(client = "reaping" /\ HostKilled)

FairSpec == Spec /\ Fairness

-----------------------------------------------------------------------------
(* The broker's descriptors are those of the request it handles: whatever    *)
(* the outcome, the request's socket and the opened file are closed before   *)
(* HandleRequest returns, so a client cannot exhaust the broker's            *)
(* descriptors by what it sends (broker_host.cc:149, 196).                   *)
NoDescriptorLeft ==
  /\ host = "recv" => fds = {}
  /\ \A fd \in fds : fd[2] = message.call

(* The refinement mapping: what the threads of the sandboxed process are     *)
(* promised, RemoteSyscall.                                                  *)
MadeValue(t) ==
  IF answer.call = ThisCall(t) THEN answer.value
  ELSE IF reply[t].call = ThisCall(t) THEN reply[t].value ELSE "none"

InCall(t) == client = "up" /\ pc[t] # "idle"

Outcome(t) ==
  IF InCall(t) /\ MadeValue(t) \in {"ok", "errno"} THEN MadeValue(t) ELSE "none"

CallPhase(t) ==
  CASE ~InCall(t) -> "idle"
    [] InCall(t) /\ Outcome(t) # "none" -> "made"
    [] OTHER -> "called"

Promise == INSTANCE RemoteSyscall WITH
  phase <- [t \in Threads |-> CallPhase(t)],
  number <- calls,
  outcome <- [t \in Threads |-> Outcome(t)],
  broker <- IF HostDown THEN "dead" ELSE "up"

(* Open and Access answer a thread as the system call made by the broker     *)
(* did, with its own call's answer and its own call's file, and the system   *)
(* call is made at most once and only for a path of the whitelist, however   *)
(* the calls of several threads interleave and whichever process dies        *)
(* (broker_client.cc:36-122 with broker_host.cc:119-228).                    *)
KeepsPromise == Promise!Spec

(* A call ends, also when the broker dies before or after it received the    *)
(* request (unix_domain_socket_linux.cc:217).  The exception is real: a fork *)
(* of the process while the call's sending end is open takes a copy of it,   *)
(* and the call may then wait as long as that child lives.                   *)
CallEnds ==
  \A t \in Threads :
    InCall(t) ~> (~InCall(t) \/ t \in copies)

(* The broker does not outlive the processes that can reach it: when they    *)
(* are gone it drains the channel and exits, without being killed            *)
(* (broker_process.cc:84, 91).                                               *)
HostExits == (client # "up" /\ ~forked) ~> HostDown

(* ~BrokerProcess returns although a fork may hold the channel open          *)
(* (broker_process.cc:47-56).                                                *)
DestructorEnds == (client = "closed") ~> (client = "reaped")

(* The broker process ends in either way: without its clients, or because    *)
(* its object is destroyed (broker_process.cc:47-96).                        *)
BrokerEnds == HostExits /\ DestructorEnds
================================================================================
