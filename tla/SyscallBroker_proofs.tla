------------------------- MODULE SyscallBroker_proofs -------------------------
(* Theorems about SyscallBroker, for any threads and bounds.                 *)
EXTENDS SyscallBroker, SequenceTheorems, TLAPS

(* The descriptors the broker holds are known from where it is.              *)
FdsByPhase ==
  /\ host \in {"recv", "exited", "killed"} => fds = {}
  /\ host = "drop" => message.call = Malformed
  /\ host \in {"drop", "handle"} => fds \subseteq {Sock(message.call)}
  /\ fds \subseteq {Sock(message.call), File(message.call)}

DescriptorInv == TypeOK /\ FdsByPhase

USE DEF HostPC, ThreadPC

(* The values that stand for nothing have the types of what they stand for.  *)
LEMMA NothingTyped ==
  /\ NoRequest \in Requests /\ NoCall \in Calls /\ Malformed \in Calls
  /\ NoMessage \in Messages /\ NoReply \in Replies
  /\ [call |-> NoCall, value |-> "none"] \in Results
BY DEF Requests, NoRequest, Calls, NoCall, Malformed, Messages, NoMessage,
   Values, Replies, NoReply, Results

(* What messages and answers are made of.                                    *)
LEMMA Fields ==
  /\ \A m \in Messages : m.call \in Calls /\ m.request \in Requests
  /\ \A m \in Replies : m.call \in Calls /\ m.value \in Values
BY DEF Messages, Replies

LEMMA TypeInit == Init => TypeOK
<1> SUFFICES ASSUME Init PROVE TypeOK
  OBVIOUS
<1>1. channel \in Seq(Messages)
  BY EmptySeq DEF Init
<1>2. /\ request \in [Threads -> Requests]
      /\ result \in [Threads -> Results]
      /\ reply \in [Threads -> Replies]
  BY NothingTyped DEF Init
<1>3. pc \in [Threads -> ThreadPC] /\ calls \in [Threads -> Nat]
  BY DEF Init
<1>4. message \in Messages /\ answer \in Replies
  BY NothingTyped DEF Init
<1> QED
  BY <1>1, <1>2, <1>3, <1>4 DEF Init, TypeOK

(* A call of a thread is a call.                                             *)
LEMMA CallOfThread ==
  ASSUME TypeOK, NEW t \in Threads
  PROVE  ThisCall(t) \in Calls
BY DEF TypeOK, ThisCall, Calls

LEMMA ReturnType ==
  ASSUME TypeOK, NEW t \in Threads, NEW c \in Calls, NEW v \in Values,
         Return(t, c, v)
  PROVE  /\ pc' \in [Threads -> ThreadPC]
         /\ result' \in [Threads -> Results]
         /\ reply' \in [Threads -> Replies]
         /\ copies' \in SUBSET Threads
<1>1. pc' \in [Threads -> ThreadPC]
  BY DEF TypeOK, Return, Goto
<1>2. [call |-> c, value |-> v] \in Results
  BY DEF Results
<1>3. result' \in [Threads -> Results]
  BY <1>2 DEF TypeOK, Return
<1>4. NoReply \in Replies
  BY NothingTyped
<1>5. reply' \in [Threads -> Replies]
  BY <1>4 DEF TypeOK, Return
<1>6. copies' \in SUBSET Threads
  BY DEF TypeOK, Return
<1> QED
  BY <1>1, <1>3, <1>5, <1>6

LEMMA ThreadType ==
  ASSUME TypeOK, NEW t \in Threads, PathAndFlagsSyscall(t) \/ ClientStep(t)
  PROVE  TypeOK'
<1> USE DEF clientVars, hostVars, threadVars
<1>0. ThisCall(t) \in Calls
  BY CallOfThread
<1>1. CASE PathAndFlagsSyscall(t)
  BY <1>1 DEF TypeOK, PathAndFlagsSyscall, Goto
<1>2. CASE RefuseEarly(t)
  <2>1. PICK v \in Values : Return(t, ThisCall(t), v)
    BY <1>2 DEF RefuseEarly, Values
  <2> QED
    BY <1>0, <1>2, <2>1, ReturnType DEF RefuseEarly, TypeOK
<1>3. CASE CreateSocketPair(t)
  BY <1>3 DEF TypeOK, CreateSocketPair, Goto
<1>e. "ENOMEM" \in Values
  BY DEF Values
<1>4. CASE CreateSocketPairFails(t)
  BY <1>0, <1>4, <1>e, ReturnType DEF CreateSocketPairFails, TypeOK
<1>5. CASE SendMsg(t)
  <2>1. [call |-> ThisCall(t), request |-> request[t]] \in Messages
    BY <1>0 DEF TypeOK, Messages
  <2>2. channel' \in Seq(Messages)
    BY <1>5, <2>1, AppendProperties DEF TypeOK, SendMsg
  <2> QED
    BY <1>5, <2>2 DEF TypeOK, SendMsg, Goto
<1>6. CASE SendMsgFails(t)
  BY <1>0, <1>6, <1>e, ReturnType DEF SendMsgFails, TypeOK
<1>7. CASE ReleaseSendSock(t)
  BY <1>7 DEF TypeOK, ReleaseSendSock, Goto
<1>8. CASE RecvReply(t)
  <2>1. reply[t].call \in Calls /\ reply[t].value \in Values
    BY Fields DEF TypeOK
  <2>2. files' \in SUBSET Calls
    BY <1>8, <2>1 DEF RecvReply, TypeOK
  <2> QED
    <3>1. Return(t, reply[t].call, reply[t].value)
      BY <1>8 DEF RecvReply
    <3>2. /\ pc' \in [Threads -> ThreadPC]
          /\ result' \in [Threads -> Results]
          /\ reply' \in [Threads -> Replies]
          /\ copies' \in SUBSET Threads
      BY <2>1, <3>1, ReturnType
    <3> QED
      BY <1>8, <2>2, <3>2 DEF RecvReply, TypeOK
<1>9. CASE RecvTruncated(t)
  BY <1>0, <1>9, <1>e, ReturnType DEF RecvTruncated, TypeOK
<1>10. CASE RecvEOF(t)
  BY <1>0, <1>10, <1>e, ReturnType DEF RecvEOF, TypeOK
<1> QED
  BY <1>1, <1>2, <1>3, <1>4, <1>5, <1>6, <1>7, <1>8, <1>9, <1>10 DEF ClientStep

LEMMA ProcessType ==
  ASSUME TypeOK,
         \/ SendMalformed \/ Fork \/ ChildExits \/ ClientDies
         \/ CloseChannel \/ KillBroker \/ ReapBroker
  PROVE  TypeOK'
<1> USE DEF clientVars, hostVars, threadVars
<1>1. CASE SendMalformed
  <2>1. [call |-> Malformed, request |-> NoRequest] \in Messages
    BY NothingTyped DEF Messages
  <2>2. channel' \in Seq(Messages)
    BY <1>1, <2>1, AppendProperties DEF TypeOK, SendMalformed
  <2> QED
    BY <1>1, <2>2 DEF TypeOK, SendMalformed
<1>2. CASE Fork
  BY <1>2 DEF TypeOK, Fork
<1>3. CASE ChildExits
  BY <1>3 DEF TypeOK, ChildExits
<1>4. CASE ClientDies
  BY <1>4 DEF TypeOK, ClientDies
<1>5. CASE CloseChannel
  BY <1>5 DEF TypeOK, CloseChannel
<1>6. CASE KillBroker
  BY <1>6 DEF TypeOK, KillBroker
<1>7. CASE ReapBroker
  BY <1>7 DEF TypeOK, ReapBroker
<1> QED
  BY <1>1, <1>2, <1>3, <1>4, <1>5, <1>6, <1>7

(* What the broker reads from the channel is a message.                      *)
LEMMA HeadMessage ==
  ASSUME TypeOK, channel # <<>>
  PROVE  Head(channel) \in Messages /\ Tail(channel) \in Seq(Messages)
BY HeadTailProperties DEF TypeOK

LEMMA HostType ==
  ASSUME TypeOK, HandleRequest \/ HostKilled
  PROVE  TypeOK'
<1> USE DEF clientVars, hostVars, threadVars, HostGoto
<1>1. CASE RecvMsg
  <2>1. Head(channel) \in Messages /\ Tail(channel) \in Seq(Messages)
    BY <1>1, HeadMessage DEF RecvMsg
  <2>2. Sock(Head(channel).call) \in {"socket", "file"} \X Calls
    BY <2>1, Fields DEF Sock
  <2> QED
    BY <1>1, <2>1, <2>2 DEF TypeOK, RecvMsg
<1>2. CASE RecvMsgTruncated
  <2>1. channel' \in Seq(Messages)
    BY <1>2, HeadMessage DEF RecvMsgTruncated
  <2> QED
    BY <1>2, <2>1 DEF TypeOK, RecvMsgTruncated
<1>3. CASE LostClient
  BY <1>3 DEF TypeOK, LostClient
<1>4. CASE DropRequest
  BY <1>4, NothingTyped DEF TypeOK, DropRequest
<1>5. message.call \in Calls /\ File(message.call) \in {"socket", "file"} \X Calls
  BY Fields DEF TypeOK, File
<1>a. ASSUME NEW v \in {"ok", "errno", "denied"}, NEW f \in BOOLEAN, Answer(v, f)
      PROVE  /\ answer' \in Replies /\ host' \in HostPC
             /\ UNCHANGED <<threadVars, clientVars, reply, channel, message>>
  BY <1>5, <1>a DEF Answer, Replies, Values
<1>b. ASSUME answer' \in Replies, host' \in HostPC,
             UNCHANGED <<threadVars, clientVars, reply, channel, message>>,
             fds' = fds \/ fds' = fds \union {File(message.call)}
      PROVE  TypeOK'
  BY <1>5, <1>b DEF TypeOK
<1>6. CASE DenyRequest
  BY <1>6, <1>a, <1>b DEF DenyRequest
<1>7. CASE OpenFileForIPC
  BY <1>7, <1>a, <1>b DEF OpenFileForIPC
<1>8. CASE AccessFileForIPC
  BY <1>8, <1>a, <1>b DEF AccessFileForIPC
<1>9. CASE SendReply
  BY <1>9 DEF TypeOK, SendReply
<1>10. CASE CloseFiles
  BY <1>10, NothingTyped DEF TypeOK, CloseFiles
<1>11. CASE HostKilled
  <2>1. channel' \in Seq(Messages)
    BY <1>11, EmptySeq DEF HostKilled
  <2> QED
    BY <1>11, <2>1 DEF TypeOK, HostKilled
<1> QED
  BY <1>1, <1>2, <1>3, <1>4, <1>6, <1>7, <1>8, <1>9, <1>10, <1>11
  DEF HandleRequest

LEMMA TypeStep == TypeOK /\ [Next]_vars => TypeOK'
<1> SUFFICES ASSUME TypeOK, [Next]_vars PROVE TypeOK'
  OBVIOUS
<1>1. CASE Next
  BY <1>1, ThreadType, ProcessType, HostType DEF Next
<1>2. CASE UNCHANGED vars
  BY <1>2 DEF TypeOK, vars, threadVars, clientVars, hostVars
<1> QED
  BY <1>1, <1>2

(* Every variable keeps its type, for any threads, capacity and bounds.      *)
THEOREM TypeCorrect == Spec => []TypeOK
BY TypeInit, TypeStep, PTL DEF Spec

-----------------------------------------------------------------------------
LEMMA FdsInit == Init => FdsByPhase
BY DEF Init, FdsByPhase

LEMMA FdsStep == DescriptorInv /\ [Next]_vars => FdsByPhase'
<1> SUFFICES ASSUME DescriptorInv, [Next]_vars PROVE FdsByPhase'
  OBVIOUS
<1> USE DEF HostGoto
<1>1. ASSUME UNCHANGED hostVars PROVE FdsByPhase'
  BY <1>1 DEF DescriptorInv, FdsByPhase, hostVars
<1>2. ASSUME NEW t \in Threads, PathAndFlagsSyscall(t) \/ ClientStep(t)
      PROVE  UNCHANGED hostVars
  BY <1>2 DEF PathAndFlagsSyscall, ClientStep, RefuseEarly, CreateSocketPair,
     CreateSocketPairFails, SendMsg, SendMsgFails, ReleaseSendSock, RecvReply,
     RecvTruncated, RecvEOF
<1>3. ASSUME SendMalformed \/ Fork \/ ChildExits \/ ClientDies
             \/ CloseChannel \/ KillBroker \/ ReapBroker
      PROVE  UNCHANGED hostVars
  BY <1>3 DEF SendMalformed, Fork, ChildExits, ClientDies, CloseChannel,
     KillBroker, ReapBroker
<1>4. CASE RecvMsg
  BY <1>4 DEF RecvMsg, DescriptorInv, FdsByPhase
<1>5. CASE RecvMsgTruncated
  BY <1>1, <1>5 DEF RecvMsgTruncated
<1>6. CASE LostClient
  BY <1>6 DEF LostClient, FdsByPhase
<1>7. CASE DropRequest
  BY <1>7 DEF DropRequest, DescriptorInv, FdsByPhase
<1>8. CASE DenyRequest
  BY <1>8 DEF DenyRequest, Answer, DescriptorInv, FdsByPhase
<1>9. CASE OpenFileForIPC
  BY <1>9 DEF OpenFileForIPC, Answer, DescriptorInv, FdsByPhase
<1>10. CASE AccessFileForIPC
  BY <1>10 DEF AccessFileForIPC, Answer, DescriptorInv, FdsByPhase
<1>11. CASE SendReply
  BY <1>11 DEF SendReply, DescriptorInv, FdsByPhase
<1>12. CASE CloseFiles
  BY <1>12 DEF CloseFiles, DescriptorInv, FdsByPhase
<1>13. CASE HostKilled
  BY <1>13 DEF HostKilled, FdsByPhase
<1>14. CASE UNCHANGED vars
  BY <1>1, <1>14 DEF vars
<1> QED
  BY <1>1, <1>2, <1>3, <1>4, <1>5, <1>6, <1>7, <1>8, <1>9, <1>10, <1>11, <1>12,
     <1>13, <1>14 DEF Next, HandleRequest

LEMMA FdsMeanNoneLeft == FdsByPhase => NoDescriptorLeft
BY DEF FdsByPhase, NoDescriptorLeft, Sock, File

(* The broker never keeps a descriptor beyond the request that brought it,   *)
(* whatever is sent to it and however handling ends (broker_host.cc:149,     *)
(* 196).                                                                     *)
THEOREM DescriptorsClosed == Spec => []NoDescriptorLeft
<1>1. Init => DescriptorInv
  BY TypeInit, FdsInit DEF DescriptorInv
<1>2. DescriptorInv /\ [Next]_vars => DescriptorInv'
  BY TypeStep, FdsStep DEF DescriptorInv
<1>3. DescriptorInv => NoDescriptorLeft
  BY FdsMeanNoneLeft DEF DescriptorInv
<1> QED
  BY <1>1, <1>2, <1>3, PTL DEF Spec

-----------------------------------------------------------------------------
(* The promise of RemoteSyscall rests on what may be known of a thread's     *)
(* current call outside that thread: a call is in one place only on its way  *)
(* through the channel, the broker and the reply, with its own request.      *)

(* No call is known before it is made.                                       *)
NoFutureCalls ==
  \A t \in Threads, n \in Nat : n > calls[t] =>
    ~Queued(<<t, n>>) /\ message.call # <<t, n>> /\ answer.call # <<t, n>>

Unsent(t) ==
  /\ ~Queued(ThisCall(t)) /\ message.call # ThisCall(t) /\ answer.call # ThisCall(t)
  /\ reply[t] = NoReply

PairInv ==
  \A t \in Threads :
    /\ pc[t] \in {"pair", "send"} => Unsent(t)
    /\ reply[t] # NoReply => reply[t].call = ThisCall(t) /\ pc[t] \in {"release", "recv"}
    /\ t \in copies => pc[t] \notin {"idle", "pair"}

HostBooks ==
  /\ host = "recv" => message = NoMessage
  /\ host \in {"recv", "drop", "handle"} => answer = NoReply
  /\ host \in {"reply", "close"} => answer.call = message.call

HandledOnce ==
  \A t \in Threads :
    /\ Queued(ThisCall(t)) =>
         message.call # ThisCall(t) /\ answer.call # ThisCall(t) /\ reply[t] = NoReply
    /\ \A i, j \in DOMAIN channel :
         channel[i].call = ThisCall(t) /\ channel[j].call = ThisCall(t) => i = j
    /\ host \in {"handle", "reply"} /\ message.call = ThisCall(t) => reply[t] = NoReply
    /\ answer.call = ThisCall(t) /\ reply[t] # NoReply => reply[t] = answer
    /\ host = "close" /\ answer.call = ThisCall(t) /\ InCall(t) => reply[t] = answer

OwnRequest ==
  \A t \in Threads :
    /\ \A i \in DOMAIN channel :
         channel[i].call = ThisCall(t) => channel[i].request = request[t]
    /\ message.call = ThisCall(t) => message.request = request[t]

(* The answer that the policy and the system call give to a request.         *)
Right(a, r) ==
  /\ \/ a.value = "denied" /\ r.path = "unlisted"
     \/ a.value \in {"ok", "errno"} /\ r.path = "listed"
  /\ a.file <=> a.value = "ok" /\ r.cmd = "open"

AnswersRight ==
  \A t \in Threads :
    /\ answer.call = ThisCall(t) => Right(answer, request[t])
    /\ reply[t] # NoReply => Right(reply[t], request[t])

(* A request that was sent stays on its way until it is answered.            *)
NotLost ==
  ~Short /\ ~HostDown /\ client = "up" =>
    \A t \in Threads :
      pc[t] \in {"release", "recv"} /\ reply[t] = NoReply
        => Queued(ThisCall(t)) \/ Sock(ThisCall(t)) \in fds

CallParts ==
  /\ NoFutureCalls /\ PairInv /\ HostBooks /\ HandledOnce /\ OwnRequest /\ AnswersRight
  /\ NotLost
CallInv == DescriptorInv /\ CallParts

(* What the calls of threads are told apart by.                              *)
LEMMA CallNames ==
  /\ \A t \in Threads : ThisCall(t) # NoCall /\ ThisCall(t) # Malformed
  /\ \A t, u \in Threads : t # u => ThisCall(t) # ThisCall(u)
  /\ \A t \in Threads, n \in Nat : <<t, n>> # NoCall /\ <<t, n>> # Malformed
  /\ NoReply.call = NoCall /\ NoMessage.call = NoCall
BY ThreadsAssumption DEF ThisCall, NoCall, Malformed, NoReply, NoMessage

LEMMA AppendEntries ==
  ASSUME TypeOK, NEW m \in Messages, channel' = Append(channel, m)
  PROVE  /\ \A i \in DOMAIN channel' :
              \/ i \in DOMAIN channel /\ channel'[i] = channel[i]
              \/ i = Len(channel) + 1 /\ channel'[i] = m
         /\ \A i \in DOMAIN channel : i \in DOMAIN channel' /\ channel'[i] = channel[i]
         /\ Len(channel) + 1 \in DOMAIN channel' /\ channel'[Len(channel) + 1] = m
<1>1. channel \in Seq(Messages)
  BY DEF TypeOK
<1>2. /\ channel' \in Seq(Messages) /\ Len(channel') = Len(channel) + 1
      /\ \A i \in 1..Len(channel) : channel'[i] = channel[i]
      /\ channel'[Len(channel) + 1] = m
  BY <1>1, AppendProperties
<1>3. DOMAIN channel = 1..Len(channel) /\ DOMAIN channel' = 1..Len(channel') /\ Len(channel) \in Nat
  BY <1>1, <1>2, LenProperties
<1> QED
  BY <1>2, <1>3

LEMMA TailEntries ==
  ASSUME TypeOK, channel # <<>>, channel' = Tail(channel)
  PROVE  /\ \A i \in DOMAIN channel' : i \in Nat \ {0} /\ i + 1 \in DOMAIN channel /\ channel'[i] = channel[i + 1]
         /\ \A i \in DOMAIN channel : i = 1 \/ (i - 1 \in DOMAIN channel' /\ channel'[i - 1] = channel[i])
         /\ 1 \in DOMAIN channel /\ Head(channel) = channel[1]
<1>1. channel \in Seq(Messages)
  BY DEF TypeOK
<1>2. /\ channel' \in Seq(Messages) /\ Len(channel') = Len(channel) - 1
      /\ \A i \in 1..Len(channel') : channel'[i] = channel[i + 1]
      /\ Head(channel) = channel[1]
  BY <1>1, HeadTailProperties
<1>3. DOMAIN channel = 1..Len(channel) /\ DOMAIN channel' = 1..Len(channel') /\ Len(channel) \in Nat
  BY <1>1, <1>2, LenProperties
<1>4. Len(channel) # 0
  BY <1>1, EmptySeq
<1> QED
  BY <1>2, <1>3, <1>4

(* A step that leaves the channel, the broker and every call's number and    *)
(* request alone, and changes replies and threads as a return does, or not.  *)
LEMMA ReturnCalls ==
  ASSUME CallInv, NEW t \in Threads, NEW c, NEW v, Return(t, c, v),
         UNCHANGED <<request, calls, client, channel, hostVars>>
  PROVE  CallParts'
<1> USE DEF CallInv, CallParts, hostVars
<1>1. /\ pc' = [pc EXCEPT ![t] = "idle"] /\ reply' = [reply EXCEPT ![t] = NoReply]
      /\ copies' = copies \ {t}
      /\ pc \in [Threads -> ThreadPC] /\ reply \in [Threads -> Replies]
      /\ UNCHANGED <<request, calls, client, channel, host, message, answer, fds>>
  BY DEF Return, Goto, DescriptorInv, TypeOK
<1>2. \A u \in Threads :
        /\ u # t => (pc'[u] = pc[u] /\ reply'[u] = reply[u])
        /\ u = t => (pc'[u] = "idle" /\ reply'[u] = NoReply)
        /\ ThisCall(u)' = ThisCall(u)
        /\ InCall(u)' => (InCall(u) /\ u # t)
  BY <1>1 DEF ThisCall, InCall
<1>3. \A k : Queued(k)' <=> Queued(k)
  BY DEF Queued
<1>4. NoFutureCalls' /\ HostBooks'
  BY <1>3 DEF NoFutureCalls, HostBooks
<1>5. PairInv'
  BY <1>1, <1>2, <1>3 DEF PairInv, Unsent
<1>6. HandledOnce'
  BY <1>1, <1>2, <1>3 DEF HandledOnce
<1>7. OwnRequest' /\ AnswersRight'
  BY <1>1, <1>2 DEF OwnRequest, AnswersRight
<1>8. NotLost'
  BY <1>1, <1>2, <1>3 DEF NotLost, HostDown
<1> QED
  BY <1>4, <1>5, <1>6, <1>7, <1>8

(* One step of a calling thread.                                             *)
LEMMA CallThreadStep ==
  ASSUME CallInv, NEW t \in Threads, PathAndFlagsSyscall(t) \/ ClientStep(t)
  PROVE  CallParts'
<1> USE DEF CallInv, CallParts, hostVars
<1>0. /\ pc \in [Threads -> ThreadPC] /\ reply \in [Threads -> Replies]
      /\ calls \in [Threads -> Nat] /\ request \in [Threads -> Requests] /\ TypeOK
  BY DEF DescriptorInv, TypeOK
<1>1. CASE PathAndFlagsSyscall(t)
  <2>1. /\ pc[t] = "idle" /\ pc' = [pc EXCEPT ![t] = "pair"]
        /\ calls' = [calls EXCEPT ![t] = @ + 1]
        /\ \A u \in Threads \ {t} : request'[u] = request[u] /\ ThisCall(u)' = ThisCall(u)
        /\ UNCHANGED <<client, copies, reply, channel, host, message, answer, fds>>
    BY <1>0, <1>1 DEF PathAndFlagsSyscall, Goto, clientVars, ThisCall
  <2>2. calls[t] + 1 \in Nat /\ calls[t] + 1 > calls[t] /\ ThisCall(t)' = <<t, calls[t] + 1>>
    BY <1>0, <2>1 DEF ThisCall
  <2>3. \A k : Queued(k)' <=> Queued(k)
    BY <2>1 DEF Queued
  <2>4. /\ ~Queued(ThisCall(t)') /\ message.call # ThisCall(t)' /\ answer.call # ThisCall(t)'
    BY <2>2 DEF NoFutureCalls
  <2>5. reply[t] = NoReply /\ t \notin copies
    BY <1>0, <2>1 DEF PairInv
  <2>6. NoFutureCalls'
    <3>1. \A u \in Threads, n \in Nat : n > calls'[u] => n > calls[u]
      BY <1>0, <2>1
    <3> QED
      BY <2>1, <2>3, <3>1 DEF NoFutureCalls
  <2>7. PairInv'
    BY <1>0, <2>1, <2>3, <2>4, <2>5 DEF PairInv, Unsent
  <2>8. HandledOnce'
    BY <1>0, <2>1, <2>3, <2>4, <2>5 DEF HandledOnce, Queued, InCall
  <2>9. OwnRequest' /\ AnswersRight'
    BY <1>0, <2>1, <2>4, <2>5 DEF OwnRequest, AnswersRight, Queued
  <2>10. NotLost' /\ HostBooks'
    BY <1>0, <2>1, <2>3 DEF NotLost, HostBooks, HostDown
  <2> QED
    BY <2>6, <2>7, <2>8, <2>9, <2>10
<1>2. CASE \/ RefuseEarly(t) \/ CreateSocketPairFails(t) \/ SendMsgFails(t)
           \/ RecvReply(t) \/ RecvTruncated(t) \/ RecvEOF(t)
  <2>1. /\ UNCHANGED <<request, calls, client, channel, hostVars>>
        /\ \E c, v : Return(t, c, v)
    BY <1>2 DEF RefuseEarly, CreateSocketPairFails, SendMsgFails, RecvReply, RecvTruncated,
       RecvEOF
  <2> QED
    BY <2>1, ReturnCalls
<1>3. CASE CreateSocketPair(t) \/ ReleaseSendSock(t)
  <2>1. /\ pc' = [pc EXCEPT ![t] = pc'[t]]
        /\ \/ pc[t] = "pair" /\ pc'[t] = "send"
           \/ pc[t] = "release" /\ pc'[t] = "recv"
        /\ UNCHANGED <<request, calls, client, copies, reply, channel, hostVars>>
    BY <1>0, <1>3 DEF CreateSocketPair, ReleaseSendSock, Goto, clientVars
  <2>2. /\ \A u \in Threads : ThisCall(u)' = ThisCall(u) /\ (InCall(u)' <=> InCall(u))
        /\ \A k : Queued(k)' <=> Queued(k)
    BY <1>0, <2>1 DEF ThisCall, InCall, Queued
  <2>3. NoFutureCalls' /\ HostBooks' /\ OwnRequest' /\ AnswersRight'
    BY <2>1, <2>2 DEF NoFutureCalls, HostBooks, OwnRequest, AnswersRight
  <2>4. PairInv'
    BY <1>0, <2>1, <2>2 DEF PairInv, Unsent
  <2>5. HandledOnce' /\ NotLost'
    BY <1>0, <2>1, <2>2 DEF HandledOnce, NotLost, HostDown
  <2> QED
    BY <2>3, <2>4, <2>5
<1>4. CASE SendMsg(t)
  <2> DEFINE m == [call |-> ThisCall(t), request |-> request[t]]
  <2>1. /\ pc[t] = "send" /\ pc' = [pc EXCEPT ![t] = "release"]
        /\ channel' = Append(channel, m)
        /\ UNCHANGED <<request, calls, client, copies, reply, host, message, answer, fds>>
    BY <1>4 DEF SendMsg, Goto, clientVars
  <2>2. m \in Messages /\ m.call = ThisCall(t) /\ m.request = request[t]
    BY <1>0, CallOfThread DEF Messages
  <2> HIDE DEF m
  <2>3. /\ \A i \in DOMAIN channel' :
            \/ i \in DOMAIN channel /\ channel'[i] = channel[i]
            \/ i = Len(channel) + 1 /\ channel'[i] = m
        /\ \A i \in DOMAIN channel : i \in DOMAIN channel' /\ channel'[i] = channel[i]
        /\ Len(channel) + 1 \in DOMAIN channel' /\ channel'[Len(channel) + 1] = m
    BY <1>0, <2>1, <2>2, AppendEntries
  <2>4. \A k : Queued(k)' <=> Queued(k) \/ k = ThisCall(t)
    BY <2>2, <2>3 DEF Queued
  <2>5. /\ \A u \in Threads : ThisCall(u)' = ThisCall(u) /\ (InCall(u)' <=> InCall(u))
        /\ \A u \in Threads \ {t} : ThisCall(u) # ThisCall(t)
    BY <1>0, <2>1, CallNames DEF ThisCall, InCall
  <2>6. Unsent(t)
    BY <2>1 DEF PairInv
  <2>7. NoFutureCalls'
    BY <1>0, <2>1, <2>4 DEF NoFutureCalls, ThisCall
  <2>8. PairInv'
    BY <1>0, <2>1, <2>4, <2>5, <2>6 DEF PairInv, Unsent
  <2>9. \A u \in Threads : \A i, j \in DOMAIN channel' :
          channel'[i].call = ThisCall(u) /\ channel'[j].call = ThisCall(u) => i = j
    BY <2>2, <2>3, <2>5, <2>6 DEF HandledOnce, Unsent, Queued
  <2>10. HandledOnce'
    BY <1>0, <2>1, <2>4, <2>5, <2>6, <2>9 DEF HandledOnce, Unsent
  <2>11. OwnRequest'
    BY <2>1, <2>2, <2>3, <2>5 DEF OwnRequest
  <2>12. AnswersRight' /\ HostBooks'
    BY <2>1, <2>5 DEF AnswersRight, HostBooks
  <2>13. NotLost'
    BY <1>0, <2>1, <2>4, <2>5 DEF NotLost, HostDown
  <2> QED
    BY <2>7, <2>8, <2>10, <2>11, <2>12, <2>13
<1> QED
  BY <1>1, <1>2, <1>3, <1>4 DEF ClientStep

(* One step of the sandboxed process outside its calls.                      *)
LEMMA CallProcessStep ==
  ASSUME CallInv,
         \/ SendMalformed \/ Fork \/ ChildExits \/ ClientDies
         \/ CloseChannel \/ KillBroker \/ ReapBroker
  PROVE  CallParts'
<1> USE DEF CallInv, CallParts
<1>0. /\ pc \in [Threads -> ThreadPC] /\ reply \in [Threads -> Replies] /\ TypeOK
  BY DEF DescriptorInv, TypeOK
<1>1. /\ UNCHANGED <<pc, request, calls, reply, host, message, answer, fds>>
      /\ \A t \in copies' : t \in copies \/ (t \in Threads /\ pc[t] \in {"send", "release"})
      /\ client' = "up" => client = "up"
  BY DEF SendMalformed, Fork, ChildExits, ClientDies, CloseChannel, KillBroker, ReapBroker,
     hostVars, threadVars
<1>2. \A t \in Threads : ThisCall(t)' = ThisCall(t) /\ (InCall(t)' => InCall(t))
  BY <1>1 DEF ThisCall, InCall
<1>3. CASE SendMalformed
  <2> DEFINE m == [call |-> Malformed, request |-> NoRequest]
  <2>1. m \in Messages /\ m.call = Malformed
    BY NothingTyped DEF Messages
  <2>2. channel' = Append(channel, m)
    BY <1>3 DEF SendMalformed
  <2> HIDE DEF m
  <2>3. /\ \A i \in DOMAIN channel' :
            \/ i \in DOMAIN channel /\ channel'[i] = channel[i]
            \/ i = Len(channel) + 1 /\ channel'[i] = m
        /\ \A i \in DOMAIN channel : i \in DOMAIN channel' /\ channel'[i] = channel[i]
        /\ Len(channel) + 1 \in DOMAIN channel' /\ channel'[Len(channel) + 1] = m
    BY <1>0, <2>1, <2>2, AppendEntries
  <2>4. \A k : Queued(k)' <=> Queued(k) \/ k = Malformed
    BY <2>1, <2>3 DEF Queued
  <2>5. NoFutureCalls' /\ HostBooks'
    BY <1>1, <2>4, CallNames DEF NoFutureCalls, HostBooks
  <2>6. PairInv'
    BY <1>1, <1>2, <2>4, CallNames DEF PairInv, Unsent
  <2>7. \A t \in Threads : \A i, j \in DOMAIN channel' :
          channel'[i].call = ThisCall(t) /\ channel'[j].call = ThisCall(t) => i = j
    BY <2>1, <2>3, CallNames DEF HandledOnce
  <2>8. HandledOnce'
    BY <1>1, <1>2, <2>4, <2>7, CallNames DEF HandledOnce
  <2>9. OwnRequest' /\ AnswersRight'
    BY <1>1, <1>2, <2>1, <2>3, CallNames DEF OwnRequest, AnswersRight
  <2>10. NotLost'
    BY <1>1, <1>2, <2>4 DEF NotLost, HostDown
  <2> QED
    BY <2>5, <2>6, <2>8, <2>9, <2>10
<1>4. CASE UNCHANGED channel
  <2>1. \A k : Queued(k)' <=> Queued(k)
    BY <1>4 DEF Queued
  <2>2. NoFutureCalls' /\ HostBooks' /\ OwnRequest' /\ AnswersRight'
    BY <1>1, <1>2, <1>4, <2>1 DEF NoFutureCalls, HostBooks, OwnRequest, AnswersRight
  <2>3. PairInv'
    BY <1>1, <1>2, <2>1 DEF PairInv, Unsent
  <2>4. HandledOnce' /\ NotLost'
    BY <1>1, <1>2, <1>4, <2>1 DEF HandledOnce, NotLost, HostDown
  <2> QED
    BY <2>2, <2>3, <2>4
<1> QED
  BY <1>3, <1>4 DEF Fork, ChildExits, ClientDies, CloseChannel, KillBroker, ReapBroker

(* One step of the broker process.                                           *)
LEMMA CallHostStep ==
  ASSUME CallInv, HandleRequest \/ HostKilled
  PROVE  CallParts'
<1> USE DEF CallInv, CallParts, HostGoto
<1>0. /\ pc \in [Threads -> ThreadPC] /\ reply \in [Threads -> Replies] /\ TypeOK
      /\ message \in Messages /\ answer \in Replies
  BY DEF DescriptorInv, TypeOK
<1>1. UNCHANGED <<pc, request, calls, copies, client>>
  BY DEF HandleRequest, HostKilled, RecvMsg, RecvMsgTruncated, LostClient, DropRequest,
     DenyRequest, OpenFileForIPC, AccessFileForIPC, Answer, SendReply, CloseFiles, threadVars,
     clientVars, hostVars
<1>2. \A t \in Threads : ThisCall(t)' = ThisCall(t) /\ (InCall(t)' <=> InCall(t))
  BY <1>1 DEF ThisCall, InCall
<1>3. ASSUME channel # <<>>, channel' = Tail(channel)
      PROVE  /\ \A k : Queued(k)' => Queued(k)
             /\ \A k : Queued(k) => Queued(k)' \/ k = Head(channel).call
             /\ \A t \in Threads : \A i, j \in DOMAIN channel' :
                  channel'[i].call = ThisCall(t) /\ channel'[j].call = ThisCall(t) => i = j
             /\ \A t \in Threads : \A i \in DOMAIN channel' :
                  channel'[i].call = ThisCall(t) => channel'[i].request = request[t]
             /\ \A t \in Threads : Head(channel).call = ThisCall(t) =>
                  Queued(ThisCall(t)) /\ ~Queued(ThisCall(t))' /\ Head(channel).request = request[t]
  <2>1. /\ \A i \in DOMAIN channel' :
            i \in Nat \ {0} /\ i + 1 \in DOMAIN channel /\ channel'[i] = channel[i + 1]
        /\ \A i \in DOMAIN channel :
            i = 1 \/ (i - 1 \in DOMAIN channel' /\ channel'[i - 1] = channel[i])
        /\ 1 \in DOMAIN channel /\ Head(channel) = channel[1]
    BY <1>0, <1>3, TailEntries
  <2>2. \A k : Queued(k)' => Queued(k)
    BY <2>1 DEF Queued
  <2>3. \A k : Queued(k) => Queued(k)' \/ k = Head(channel).call
    BY <2>1 DEF Queued
  <2>4. \A t \in Threads : \A i, j \in DOMAIN channel' :
          channel'[i].call = ThisCall(t) /\ channel'[j].call = ThisCall(t) => i = j
    BY <2>1 DEF HandledOnce
  <2>5. \A t \in Threads : \A i \in DOMAIN channel' :
          channel'[i].call = ThisCall(t) => channel'[i].request = request[t]
    BY <2>1 DEF OwnRequest
  <2>6. ASSUME NEW t \in Threads, Head(channel).call = ThisCall(t)
        PROVE  Queued(ThisCall(t)) /\ ~Queued(ThisCall(t))' /\ Head(channel).request = request[t]
    <3>1. \A i \in DOMAIN channel' : channel'[i].call # ThisCall(t)
      BY <2>1, <2>6 DEF HandledOnce
    <3> QED
      BY <1>2, <2>1, <2>6, <3>1 DEF Queued, OwnRequest
  <2> QED
    BY <2>2, <2>3, <2>4, <2>5, <2>6
<1>4. CASE RecvMsg
  <2> DEFINE m == Head(channel)
  <2>1. /\ host = "recv" /\ channel # <<>> /\ channel' = Tail(channel) /\ message' = m
        /\ fds' = fds \union {Sock(m.call)} /\ host' \in {"drop", "handle"}
        /\ UNCHANGED <<reply, answer>>
    BY <1>4 DEF RecvMsg
  <2>2. /\ \A k : Queued(k)' => Queued(k)
        /\ \A k : Queued(k) => Queued(k)' \/ k = m.call
        /\ \A t \in Threads : \A i, j \in DOMAIN channel' :
             channel'[i].call = ThisCall(t) /\ channel'[j].call = ThisCall(t) => i = j
        /\ \A t \in Threads : \A i \in DOMAIN channel' :
             channel'[i].call = ThisCall(t) => channel'[i].request = request[t]
        /\ \A t \in Threads : m.call = ThisCall(t) =>
             Queued(ThisCall(t)) /\ ~Queued(ThisCall(t))' /\ m.request = request[t]
    BY <1>3, <2>1
  <2>3. m.call \in Calls /\ \E i \in DOMAIN channel : m = channel[i]
    <3>1. m \in Messages
      BY <1>0, <2>1, HeadMessage
    <3>2. 1 \in DOMAIN channel /\ Head(channel) = channel[1]
      BY <1>0, <2>1, TailEntries
    <3> QED
      BY <3>1, <3>2, Fields
  <2> HIDE DEF m
  <2>4. answer = NoReply /\ message = NoMessage
    BY <2>1 DEF HostBooks
  <2>5. NoFutureCalls'
    <3> SUFFICES ASSUME NEW t \in Threads, NEW k \in Nat, k > calls'[t]
                 PROVE  ~Queued(<<t, k>>)' /\ message'.call # <<t, k>> /\ answer'.call # <<t, k>>
      BY DEF NoFutureCalls
    <3>1. ~Queued(<<t, k>>) /\ answer.call # <<t, k>>
      BY <1>1 DEF NoFutureCalls
    <3>2. ~Queued(<<t, k>>)'
      BY <2>2, <3>1
    <3>3. m.call # <<t, k>>
      BY <2>3, <3>1 DEF Queued
    <3> QED
      BY <2>1, <3>1, <3>2, <3>3
  <2>6. PairInv'
    BY <1>1, <1>2, <2>1, <2>2 DEF PairInv, Unsent
  <2>7. HostBooks'
    BY <2>1, <2>4 DEF HostBooks
  <2>8. HandledOnce'
    BY <1>1, <1>2, <2>1, <2>2, <2>4, CallNames DEF HandledOnce
  <2>9. OwnRequest' /\ AnswersRight'
    BY <1>1, <1>2, <2>1, <2>2 DEF OwnRequest, AnswersRight
  <2>10. NotLost'
    BY <1>1, <1>2, <2>1, <2>2 DEF NotLost, HostDown
  <2> QED
    BY <2>5, <2>6, <2>7, <2>8, <2>9, <2>10
<1>5. CASE RecvMsgTruncated
  <2>1. /\ channel # <<>> /\ channel' = Tail(channel) /\ Short
        /\ UNCHANGED <<reply, host, message, answer, fds>>
    BY <1>5 DEF RecvMsgTruncated, hostVars
  <2>2. /\ \A k : Queued(k)' => Queued(k)
        /\ \A t \in Threads : \A i, j \in DOMAIN channel' :
             channel'[i].call = ThisCall(t) /\ channel'[j].call = ThisCall(t) => i = j
        /\ \A t \in Threads : \A i \in DOMAIN channel' :
             channel'[i].call = ThisCall(t) => channel'[i].request = request[t]
    BY <1>3, <2>1
  <2>3. NoFutureCalls' /\ PairInv' /\ HostBooks' /\ NotLost'
    BY <1>1, <1>2, <2>1, <2>2 DEF NoFutureCalls, PairInv, Unsent, HostBooks, NotLost
  <2>4. HandledOnce'
    BY <1>1, <1>2, <2>1, <2>2 DEF HandledOnce
  <2>5. OwnRequest' /\ AnswersRight'
    BY <1>1, <1>2, <2>1, <2>2 DEF OwnRequest, AnswersRight
  <2> QED
    BY <2>3, <2>4, <2>5
(* The other steps leave the channel, or empty it.                           *)
<1>6. CASE LostClient \/ HostKilled
  <2>1. /\ channel' = channel \/ channel' = <<>>
        /\ host' \in {"exited", "killed"} /\ UNCHANGED <<reply, message, answer>>
    BY <1>6 DEF LostClient, HostKilled
  <2>2. \A i \in DOMAIN channel' : i \in DOMAIN channel /\ channel'[i] = channel[i]
    BY <2>1
  <2>3. \A k : Queued(k)' => Queued(k)
    BY <2>2 DEF Queued
  <2>4. NoFutureCalls' /\ PairInv' /\ HostBooks' /\ NotLost'
    BY <1>1, <1>2, <2>1, <2>3 DEF NoFutureCalls, PairInv, Unsent, HostBooks, NotLost, HostDown
  <2>5. HandledOnce'
    BY <1>1, <1>2, <2>1, <2>2, <2>3 DEF HandledOnce
  <2>6. OwnRequest' /\ AnswersRight'
    BY <1>1, <1>2, <2>1, <2>2 DEF OwnRequest, AnswersRight
  <2> QED
    BY <2>4, <2>5, <2>6
<1>7. ASSUME UNCHANGED channel PROVE \A k : Queued(k)' <=> Queued(k)
  BY <1>7 DEF Queued
<1>8. CASE DropRequest
  <2>1. /\ host = "drop" /\ host' = "recv" /\ message' = NoMessage
        /\ fds' = fds \ {Sock(Malformed)} /\ UNCHANGED <<reply, channel, answer>>
    BY <1>8 DEF DropRequest
  <2>2. NoFutureCalls' /\ PairInv' /\ HostBooks'
    BY <1>1, <1>2, <1>7, <2>1, CallNames DEF NoFutureCalls, PairInv, Unsent, HostBooks
  <2>3. HandledOnce'
    BY <1>1, <1>2, <1>7, <2>1, CallNames DEF HandledOnce
  <2>4. OwnRequest' /\ AnswersRight'
    BY <1>1, <1>2, <2>1, CallNames DEF OwnRequest, AnswersRight
  <2>5. NotLost'
    BY <1>1, <1>2, <1>7, <2>1, CallNames DEF NotLost, HostDown, Sock
  <2> QED
    BY <2>2, <2>3, <2>4, <2>5
<1>9. CASE DenyRequest \/ OpenFileForIPC \/ AccessFileForIPC
  <2>1. /\ host = "handle" /\ host' = "reply" /\ answer'.call = message.call
        /\ fds \subseteq fds' /\ UNCHANGED <<reply, channel, message>>
        /\ Right(answer', message.request)
    BY <1>9 DEF DenyRequest, OpenFileForIPC, AccessFileForIPC, Answer, Right
  <2>2. answer = NoReply
    BY <2>1 DEF HostBooks
  <2>3. NoFutureCalls' /\ PairInv' /\ HostBooks'
    BY <1>1, <1>2, <1>7, <2>1 DEF NoFutureCalls, PairInv, Unsent, HostBooks
  <2>4. HandledOnce'
    BY <1>1, <1>2, <1>7, <2>1 DEF HandledOnce
  <2>5. OwnRequest' /\ AnswersRight'
    BY <1>1, <1>2, <2>1 DEF OwnRequest, AnswersRight
  <2>6. NotLost'
    BY <1>1, <1>2, <1>7, <2>1 DEF NotLost, HostDown
  <2> QED
    BY <2>3, <2>4, <2>5, <2>6
<1>10. CASE SendReply
  <2>1. /\ host = "reply" /\ host' = "close"
        /\ reply' = [t \in Threads |-> IF Receiver(t) THEN answer ELSE reply[t]]
        /\ UNCHANGED <<channel, message, answer, fds>>
    BY <1>10 DEF SendReply
  <2>2. /\ answer.call = message.call
        /\ \A t \in Threads : answer.call = ThisCall(t) => reply[t] = NoReply
    BY <2>1 DEF HostBooks, HandledOnce
  <2>3. ASSUME NEW t \in Threads, Receiver(t)
        PROVE  /\ answer.call = ThisCall(t) /\ ~Queued(ThisCall(t))
               /\ pc[t] \in {"release", "recv"} /\ Right(answer, request[t])
    BY <1>0, <2>3 DEF Receiver, HandledOnce, PairInv, Unsent, AnswersRight
  <2>4. ASSUME NEW t \in Threads, InCall(t), answer.call = ThisCall(t)
        PROVE  Receiver(t)
    BY <1>0, <2>4 DEF Receiver, PairInv, Unsent, InCall
  <2>5. NoFutureCalls' /\ HostBooks'
    BY <1>1, <1>7, <2>1, <2>2 DEF NoFutureCalls, HostBooks
  <2>6. PairInv'
    BY <1>1, <1>2, <1>7, <2>1, <2>3 DEF PairInv, Unsent
  <2>7. HandledOnce'
    BY <1>1, <1>2, <1>7, <2>1, <2>2, <2>3, <2>4 DEF HandledOnce
  <2>8. OwnRequest' /\ AnswersRight'
    BY <1>1, <1>2, <2>1, <2>3 DEF OwnRequest, AnswersRight
  <2>9. \A t \in Threads : reply'[t] = NoReply => reply[t] = NoReply
    BY <2>1, <2>2 DEF Receiver
  <2>10. NotLost'
    BY <1>1, <1>2, <1>7, <2>1, <2>9 DEF NotLost, HostDown
  <2> QED
    BY <2>5, <2>6, <2>7, <2>8, <2>10
<1>11. CASE CloseFiles
  <2>1. /\ host = "close" /\ host' = "recv" /\ message' = NoMessage /\ answer' = NoReply
        /\ fds' = fds \ {Sock(message.call), File(message.call)} /\ UNCHANGED <<reply, channel>>
    BY <1>11 DEF CloseFiles
  <2>2. NoFutureCalls' /\ PairInv' /\ HostBooks'
    BY <1>1, <1>2, <1>7, <2>1, CallNames DEF NoFutureCalls, PairInv, Unsent, HostBooks
  <2>3. HandledOnce'
    BY <1>1, <1>2, <1>7, <2>1, CallNames DEF HandledOnce
  <2>4. OwnRequest' /\ AnswersRight'
    BY <1>1, <1>2, <2>1, CallNames DEF OwnRequest, AnswersRight
  <2>5. answer.call = message.call
    BY <2>1 DEF HostBooks
  <2>6. ASSUME NEW t \in Threads, client = "up", pc[t] \in {"release", "recv"}, reply[t] = NoReply,
               Sock(ThisCall(t)) \in fds
        PROVE  Sock(ThisCall(t)) \in fds'
    <3>1. ThisCall(t) # message.call
      BY <2>1, <2>5, <2>6, CallNames DEF HandledOnce, InCall
    <3> QED
      BY <2>1, <2>6, <3>1 DEF Sock, File
  <2>7. NotLost'
    BY <1>1, <1>2, <1>7, <2>1, <2>6 DEF NotLost, HostDown
  <2> QED
    BY <2>2, <2>3, <2>4, <2>7
<1> QED
  BY <1>4, <1>5, <1>6, <1>8, <1>9, <1>10, <1>11 DEF HandleRequest

LEMMA CallInvStep == CallInv /\ [Next]_vars => CallInv'
<1> SUFFICES ASSUME CallInv, [Next]_vars PROVE CallInv'
  OBVIOUS
<1>1. DescriptorInv'
  BY TypeStep, FdsStep DEF CallInv, DescriptorInv
<1>2. CASE UNCHANGED vars
  BY <1>1, <1>2 DEF vars, threadVars, clientVars, hostVars, CallInv, CallParts, NoFutureCalls,
     PairInv, Unsent, HostBooks, HandledOnce, OwnRequest, AnswersRight, Right, NotLost, HostDown,
     Queued, ThisCall, InCall
<1> QED
  BY <1>1, <1>2, CallThreadStep, CallProcessStep, CallHostStep DEF CallInv, Next

(* A request is in one place on its way to the answer, and the answer is the *)
(* one its own path and command call for: the invariant of the refinement.   *)
THEOREM CallInvariant == Spec => []CallInv
<1>1. Init => CallParts
  <2> SUFFICES ASSUME Init PROVE CallParts
    OBVIOUS
  <2>1. DOMAIN channel = {} /\ \A k : ~Queued(k)
    BY DEF Init, Queued
  <2>2. message = NoMessage /\ answer = NoReply /\ host = "recv"
    BY DEF Init
  <2>3. \A t \in Threads : reply[t] = NoReply /\ pc[t] = "idle" /\ t \notin copies
    BY DEF Init
  <2>4. NoFutureCalls /\ HostBooks
    BY <2>1, <2>2, CallNames DEF NoFutureCalls, HostBooks
  <2>5. PairInv /\ OwnRequest /\ AnswersRight /\ NotLost
    BY <2>1, <2>2, <2>3, CallNames DEF PairInv, OwnRequest, AnswersRight, NotLost
  <2>6. HandledOnce
    BY <2>1, <2>2, <2>3 DEF HandledOnce
  <2> QED
    BY <2>4, <2>5, <2>6 DEF CallParts
<1>2. Init => CallInv
  BY <1>1, TypeInit, FdsInit DEF CallInv, DescriptorInv
<1>3. CallInv /\ [Next]_vars => CallInv'
  BY CallInvStep
<1> QED
  BY <1>2, <1>3, PTL DEF Spec

-----------------------------------------------------------------------------
(* The view of one thread in RemoteSyscall.                                  *)
LEMMA SameView ==
  ASSUME NEW t \in Threads, InCall(t)' <=> InCall(t), InCall(t) => MadeValue(t)' = MadeValue(t)
  PROVE  CallPhase(t)' = CallPhase(t) /\ Outcome(t)' = Outcome(t)
BY DEF CallPhase, Outcome

LEMMA View ==
  ASSUME NEW t \in Threads
  PROVE  /\ ~InCall(t) => CallPhase(t) = "idle" /\ Outcome(t) = "none"
         /\ InCall(t) /\ MadeValue(t) \notin {"ok", "errno"}
              => CallPhase(t) = "called" /\ Outcome(t) = "none"
         /\ InCall(t) /\ MadeValue(t) \in {"ok", "errno"}
              => CallPhase(t) = "made" /\ Outcome(t) = MadeValue(t)
BY DEF CallPhase, Outcome

LEMMA NextView ==
  ASSUME NEW t \in Threads
  PROVE  /\ ~InCall(t)' => CallPhase(t)' = "idle" /\ Outcome(t)' = "none"
         /\ InCall(t)' /\ MadeValue(t)' \notin {"ok", "errno"}
              => CallPhase(t)' = "called" /\ Outcome(t)' = "none"
         /\ InCall(t)' /\ MadeValue(t)' \in {"ok", "errno"}
              => CallPhase(t)' = "made" /\ Outcome(t)' = MadeValue(t)'
BY DEF CallPhase, Outcome

LEMMA UnsentView ==
  ASSUME NEW t \in Threads, Unsent(t)
  PROVE  MadeValue(t) = "none"
BY CallNames DEF Unsent, MadeValue

(* What a waiting thread reads is what was done for its call.                *)
LEMMA ReplyView ==
  ASSUME CallInv, NEW t \in Threads, reply[t] # NoReply
  PROVE  MadeValue(t) = reply[t].value /\ reply[t].call = ThisCall(t) /\ Right(reply[t], request[t])
BY DEF CallInv, CallParts, PairInv, HandledOnce, AnswersRight, MadeValue

Unseen ==
  \A t \in Threads : CallPhase(t)' = CallPhase(t) /\ Outcome(t)' = Outcome(t)

LEMMA UnseenStep ==
  ASSUME Unseen, UNCHANGED <<request, calls, result, files>>, HostDown' <=> HostDown
  PROVE  UNCHANGED Promise!vars
BY DEF Unseen, Promise!vars

(* A step of a calling thread is a step of its call or none.                 *)
LEMMA PromiseThreadStep ==
  ASSUME CallInv, NEW t \in Threads, PathAndFlagsSyscall(t) \/ ClientStep(t)
  PROVE  [Promise!Next]_(Promise!vars)
<1>0. /\ pc \in [Threads -> ThreadPC] /\ reply \in [Threads -> Replies]
      /\ calls \in [Threads -> Nat] /\ request \in [Threads -> Requests]
      /\ result \in [Threads -> Results]
  BY DEF CallInv, DescriptorInv, TypeOK
<1>1. /\ UNCHANGED <<client, host, answer>> /\ client = "up"
      /\ \A u \in Threads \ {t} : pc'[u] = pc[u] /\ reply'[u] = reply[u] /\ calls'[u] = calls[u]
  BY <1>0 DEF PathAndFlagsSyscall, ClientStep, RefuseEarly, CreateSocketPair,
     CreateSocketPairFails, SendMsg, SendMsgFails, ReleaseSendSock, RecvReply, RecvTruncated,
     RecvEOF, Return, Goto, clientVars, hostVars
<1>2. \A u \in Threads \ {t} : CallPhase(u)' = CallPhase(u) /\ Outcome(u)' = Outcome(u)
  BY <1>1, SameView DEF InCall, MadeValue, ThisCall
<1>3. HostDown' <=> HostDown
  BY <1>1 DEF HostDown
<1>4. CASE PathAndFlagsSyscall(t)
  <2>1. /\ pc[t] = "idle" /\ pc'[t] = "pair" /\ calls' = [calls EXCEPT ![t] = @ + 1]
        /\ UNCHANGED <<reply, result, files>>
        /\ \E r \in Requests : request' = [request EXCEPT ![t] = r]
    BY <1>0, <1>4 DEF PathAndFlagsSyscall, Goto
  <2>2. calls[t] + 1 \in Nat /\ calls[t] + 1 > calls[t] /\ ThisCall(t)' = <<t, calls[t] + 1>>
    BY <1>0, <2>1 DEF ThisCall
  <2>3. answer.call # ThisCall(t)' /\ reply[t] = NoReply
    BY <1>0, <2>1, <2>2 DEF CallInv, CallParts, NoFutureCalls, PairInv
  <2>4. NoReply.call # ThisCall(t)'
    BY <2>2, CallNames
  <2>5. MadeValue(t)' = "none"
    BY <1>1, <2>1, <2>3, <2>4 DEF MadeValue
  <2>6. ~InCall(t) /\ InCall(t)'
    BY <1>1, <2>1 DEF InCall
  <2>7. /\ CallPhase(t) = "idle" /\ Outcome(t) = "none"
        /\ CallPhase(t)' = "called" /\ Outcome(t)' = "none"
    BY <2>5, <2>6, View, NextView
  <2>8. PICK r \in Requests : request' = [request EXCEPT ![t] = r]
    BY <2>1
  <2>9. r \in Promise!Requests
    BY DEF Promise!Requests, Requests
  <2>10. [u \in Threads |-> CallPhase(u)'] = [[u \in Threads |-> CallPhase(u)] EXCEPT ![t] = "called"]
    BY <1>2, <2>7
  <2>11. [u \in Threads |-> Outcome(u)'] = [u \in Threads |-> Outcome(u)]
    BY <1>2, <2>7
  <2>12. Promise!Call(t)
    BY <1>3, <2>1, <2>7, <2>8, <2>9, <2>10, <2>11 DEF Promise!Call
  <2> QED
    BY <2>12 DEF Promise!Next
(* A call that returns has the result that the promise allows.               *)
<1>5. ASSUME NEW v, Return(t, ThisCall(t), v), UNCHANGED <<request, calls>>
      PROVE  Promise!Return(t, v) /\ (InCall(t) => CallPhase(t) # "idle")
  <2>1. ~InCall(t)'
    BY <1>0, <1>5 DEF Return, Goto, InCall
  <2>2. CallPhase(t)' = "idle" /\ Outcome(t)' = "none"
    BY <2>1, NextView
  <2>3. Promise!Return(t, v)
    BY <1>2, <1>3, <1>5, <2>2 DEF Return, Promise!Return, ThisCall
  <2> QED
    BY <2>3 DEF CallPhase
<1>6. CASE RefuseEarly(t)
  <2>1. pc[t] = "pair" /\ UNCHANGED <<request, calls, files>> /\ InCall(t)
    BY <1>1, <1>6 DEF RefuseEarly, InCall
  <2>2. CallPhase(t) = "called"
    BY <2>1, UnsentView, View DEF CallInv, CallParts, PairInv
  <2>3. PICK v : /\ Return(t, ThisCall(t), v)
                 /\ \/ request[t].path = "NULL" /\ v = "EFAULT"
                    \/ request[t].path = "unlisted" /\ v = "denied"
    BY <1>6 DEF RefuseEarly
  <2>4. Promise!Return(t, v)
    BY <1>5, <2>1, <2>3
  <2> QED
    BY <2>1, <2>2, <2>3, <2>4 DEF Promise!Next, Promise!Refuse
<1>7. CASE \/ CreateSocketPairFails(t) \/ SendMsgFails(t) \/ RecvTruncated(t) \/ RecvEOF(t)
  <2>1. /\ UNCHANGED <<request, calls, files>> /\ InCall(t) /\ Return(t, ThisCall(t), "ENOMEM")
    BY <1>1, <1>7 DEF CreateSocketPairFails, SendMsgFails, RecvTruncated, RecvEOF, InCall
  <2>2. Short \/ HostDown
    BY <1>7 DEF CreateSocketPairFails, SendMsgFails, RecvTruncated, RecvEOF, SenderOpen,
       CallInv, CallParts, NotLost
  <2>3. Promise!Return(t, "ENOMEM") /\ CallPhase(t) # "idle"
    BY <1>5, <2>1
  <2> QED
    BY <2>1, <2>2, <2>3 DEF Promise!Next, Promise!Fail
<1>8. CASE RecvReply(t)
  <2>1. /\ reply[t] # NoReply /\ InCall(t) /\ UNCHANGED <<request, calls>>
        /\ files' = IF reply[t].file THEN files \union {reply[t].call} ELSE files
        /\ Return(t, reply[t].call, reply[t].value)
    BY <1>1, <1>8 DEF RecvReply, InCall
  <2>2. /\ MadeValue(t) = reply[t].value /\ reply[t].call = ThisCall(t)
        /\ Right(reply[t], request[t])
    BY <2>1, ReplyView
  <2>3. Promise!Return(t, reply[t].value)
    BY <1>5, <2>1, <2>2
  <2>4. CASE reply[t].value \in {"ok", "errno"}
    <3>1. CallPhase(t) = "made" /\ Outcome(t) = reply[t].value
      BY <2>1, <2>2, <2>4, View
    <3>2. reply[t].file <=> Outcome(t) = "ok" /\ request[t].cmd = "open"
      BY <2>2, <3>1 DEF Right
    <3>3. files' = IF Outcome(t) = "ok" /\ request[t].cmd = "open"
                   THEN files \union {<<t, calls[t]>>} ELSE files
      BY <2>1, <2>2, <3>2 DEF ThisCall
    <3> QED
      BY <2>3, <3>1, <3>3 DEF Promise!Next, Promise!Deliver
  <2>5. CASE reply[t].value = "denied"
    <3>1. CallPhase(t) = "called" /\ request[t].path = "unlisted" /\ ~reply[t].file
      BY <2>1, <2>2, <2>5, View DEF Right
    <3> QED
      BY <2>1, <2>3, <2>5, <3>1 DEF Promise!Next, Promise!Refuse
  <2> QED
    BY <2>2, <2>4, <2>5 DEF Right
<1>9. CASE CreateSocketPair(t) \/ SendMsg(t) \/ ReleaseSendSock(t)
  <2>1. /\ pc[t] # "idle" /\ pc'[t] # "idle" /\ UNCHANGED <<reply, request, calls, result, files>>
    BY <1>0, <1>9 DEF CreateSocketPair, SendMsg, ReleaseSendSock, Goto
  <2>2. InCall(t)' /\ InCall(t) /\ MadeValue(t)' = MadeValue(t)
    BY <1>1, <2>1 DEF InCall, MadeValue, ThisCall
  <2>3. Unseen
    BY <1>2, <2>2, SameView DEF Unseen
  <2> QED
    BY <1>3, <2>1, <2>3, UnseenStep
<1> QED
  BY <1>4, <1>6, <1>7, <1>8, <1>9 DEF ClientStep

(* The sandboxed process ends its calls when it dies.                        *)
LEMMA PromiseProcessStep ==
  ASSUME CallInv,
         \/ SendMalformed \/ Fork \/ ChildExits \/ ClientDies
         \/ CloseChannel \/ KillBroker \/ ReapBroker
  PROVE  [Promise!Next]_(Promise!vars)
<1>1. UNCHANGED <<pc, request, calls, result, files, reply, host, answer>>
  BY DEF SendMalformed, Fork, ChildExits, ClientDies, CloseChannel, KillBroker, ReapBroker,
     hostVars, threadVars
<1>2. HostDown' <=> HostDown
  BY <1>1 DEF HostDown
<1>3. \A t \in Threads : MadeValue(t)' = MadeValue(t)
  BY <1>1 DEF MadeValue, ThisCall
<1>4. CASE ClientDies
  <2>1. \A t \in Threads : ~InCall(t)'
    BY <1>4 DEF ClientDies, InCall
  <2>2. \A t \in Threads : CallPhase(t)' = "idle" /\ Outcome(t)' = "none"
    BY <2>1, NextView
  <2> QED
    BY <1>1, <1>2, <2>2 DEF Promise!Next, Promise!CallerDies
<1>5. CASE ~ClientDies
  <2>1. \A t \in Threads : InCall(t)' <=> InCall(t)
    BY <1>1, <1>5 DEF InCall, SendMalformed, Fork, ChildExits, CloseChannel, KillBroker,
       ReapBroker
  <2>2. Unseen
    BY <1>3, <2>1, SameView DEF Unseen
  <2> QED
    BY <1>1, <1>2, <2>2, UnseenStep
<1> QED
  BY <1>4, <1>5

(* A step of the broker makes the system call of a request, ends it, or is   *)
(* not seen by the threads.                                                  *)
LEMMA PromiseHostStep ==
  ASSUME CallInv, HandleRequest \/ HostKilled
  PROVE  [Promise!Next]_(Promise!vars)
<1>1. UNCHANGED <<pc, request, calls, result, files, client>>
  BY DEF HandleRequest, HostKilled, RecvMsg, RecvMsgTruncated, LostClient, DropRequest,
     DenyRequest, OpenFileForIPC, AccessFileForIPC, Answer, SendReply, CloseFiles, threadVars,
     clientVars, hostVars
<1>2. \A t \in Threads : ThisCall(t)' = ThisCall(t) /\ (InCall(t)' <=> InCall(t))
  BY <1>1 DEF ThisCall, InCall
<1>3. ASSUME \A t \in Threads : InCall(t) => MadeValue(t)' = MadeValue(t)
      PROVE  Unseen
  BY <1>2, <1>3, SameView DEF Unseen
<1>4. CASE LostClient \/ HostKilled
  <2>1. UNCHANGED <<reply, answer>> /\ ~HostDown /\ HostDown'
    BY <1>4 DEF LostClient, HostKilled, HostDown, HostGoto
  <2>2. Unseen
    BY <1>2, <1>3, <2>1 DEF MadeValue
  <2> QED
    BY <1>1, <2>1, <2>2 DEF Promise!Next, Promise!BrokerDies, Unseen
<1>5. CASE RecvMsg \/ RecvMsgTruncated \/ DropRequest
  <2>1. UNCHANGED <<reply, answer>> /\ (HostDown' <=> HostDown)
    BY <1>5 DEF RecvMsg, RecvMsgTruncated, DropRequest, HostDown, HostGoto, hostVars
  <2>2. Unseen
    BY <1>2, <1>3, <2>1 DEF MadeValue
  <2> QED
    BY <1>1, <2>1, <2>2, UnseenStep
<1>6. CASE SendReply
  <2>1. /\ UNCHANGED answer /\ (HostDown' <=> HostDown)
        /\ reply' = [t \in Threads |-> IF Receiver(t) THEN answer ELSE reply[t]]
    BY <1>6 DEF SendReply, HostDown, HostGoto
  <2>2. Unseen
    BY <1>2, <1>3, <2>1 DEF MadeValue, Receiver
  <2> QED
    BY <1>1, <2>1, <2>2, UnseenStep
<1>7. CASE CloseFiles
  <2>1. /\ UNCHANGED reply /\ (HostDown' <=> HostDown) /\ host = "close" /\ answer' = NoReply
    BY <1>7 DEF CloseFiles, HostDown, HostGoto
  <2>2. ASSUME NEW t \in Threads, InCall(t) PROVE MadeValue(t)' = MadeValue(t)
    <3>1. CASE answer.call = ThisCall(t)
      BY <1>2, <2>1, <2>2, <3>1, CallNames DEF MadeValue, CallInv, CallParts, HandledOnce
    <3>2. CASE answer.call # ThisCall(t)
      BY <1>2, <2>1, <3>2, CallNames DEF MadeValue
    <3> QED
      BY <3>1, <3>2
  <2>3. Unseen
    BY <1>3, <2>2
  <2> QED
    BY <1>1, <2>1, <2>3, UnseenStep
<1>8. CASE DenyRequest \/ OpenFileForIPC \/ AccessFileForIPC
  <2>1. /\ UNCHANGED reply /\ ~HostDown /\ ~HostDown' /\ host = "handle"
        /\ answer'.call = message.call /\ Right(answer', message.request)
    BY <1>8 DEF DenyRequest, OpenFileForIPC, AccessFileForIPC, Answer, HostDown, HostGoto, Right
  <2>2. \A t \in Threads : answer.call # ThisCall(t)
    BY <2>1, CallNames DEF CallInv, CallParts, HostBooks
  <2>3. \A t \in Threads : message.call # ThisCall(t) => MadeValue(t)' = MadeValue(t)
    BY <1>2, <2>1, <2>2 DEF MadeValue
  <2>4. CASE \A t \in Threads : InCall(t) => message.call # ThisCall(t)
    BY <1>1, <1>3, <2>1, <2>3, <2>4, UnseenStep
  <2>5. ASSUME NEW t \in Threads, InCall(t), message.call = ThisCall(t)
        PROVE  [Promise!Next]_(Promise!vars)
    <3>1. reply[t] = NoReply /\ message.request = request[t]
      BY <2>1, <2>5 DEF CallInv, CallParts, HandledOnce, OwnRequest
    <3>2. MadeValue(t) = "none" /\ MadeValue(t)' = answer'.value
      BY <1>2, <2>1, <2>2, <2>5, <3>1, CallNames DEF MadeValue
    <3>3. \A u \in Threads \ {t} : MadeValue(u)' = MadeValue(u)
      BY <2>3, <2>5, CallNames
    <3>4. \A u \in Threads \ {t} : CallPhase(u)' = CallPhase(u) /\ Outcome(u)' = Outcome(u)
      BY <1>2, <3>3, SameView
    <3>5. CallPhase(t) = "called" /\ Outcome(t) = "none"
      BY <2>5, <3>2, View
    <3>6. CASE answer'.value = "denied"
      <4>1. CallPhase(t)' = "called" /\ Outcome(t)' = "none"
        BY <1>2, <2>5, <3>2, <3>6, NextView
      <4>2. Unseen
        BY <3>4, <3>5, <4>1 DEF Unseen
      <4> QED
        BY <1>1, <2>1, <4>2, UnseenStep
    <3>7. CASE answer'.value \in {"ok", "errno"}
      <4>1. CallPhase(t)' = "made" /\ Outcome(t)' = answer'.value
        BY <1>2, <2>5, <3>2, <3>7, NextView
      <4>2. request[t].path = "listed"
        BY <2>1, <3>1, <3>7 DEF Right
      <4> QED
        BY <1>1, <2>1, <3>4, <3>5, <3>7, <4>1, <4>2 DEF Promise!Next, Promise!Make
    <3> QED
      BY <2>1, <3>6, <3>7 DEF Right
  <2> QED
    BY <2>4, <2>5
<1> QED
  BY <1>4, <1>5, <1>6, <1>7, <1>8 DEF HandleRequest

LEMMA PromiseStep ==
  ASSUME CallInv, [Next]_vars
  PROVE  [Promise!Next]_(Promise!vars)
<1>1. CASE UNCHANGED vars
  <2>1. UNCHANGED <<pc, request, calls, result, files, client, reply, host, answer>>
    BY <1>1 DEF vars, threadVars, clientVars, hostVars
  <2>2. Unseen
    BY <2>1, SameView DEF Unseen, InCall, MadeValue, ThisCall
  <2> QED
    BY <2>1, <2>2, UnseenStep DEF HostDown
<1> QED
  BY <1>1, PromiseThreadStep, PromiseProcessStep, PromiseHostStep DEF Next

(* The two processes and the sockets between them implement RemoteSyscall:   *)
(* at most one system call for each open() or access(), none for a path that *)
(* is not allowed, its own answer and its own file for every call, and       *)
(* -ENOMEM only when descriptors are short or the broker is gone.            *)
THEOREM PromiseKept == Spec => KeepsPromise
<1>1. Init => Promise!Init
  <2> SUFFICES ASSUME Init PROVE Promise!Init
    OBVIOUS
  <2>1. \A t \in Threads : ~InCall(t)
    BY DEF Init, InCall
  <2>2. \A t \in Threads : CallPhase(t) = "idle" /\ Outcome(t) = "none"
    BY <2>1, View
  <2> QED
    BY <2>2 DEF Init, Promise!Init, HostDown, Promise!NoRequest, NoRequest, Promise!NoResult, NoCall
<1>2. CallInv /\ [Next]_vars => [Promise!Next]_(Promise!vars)
  BY PromiseStep
<1> QED
  BY <1>1, <1>2, CallInvariant, PTL DEF Spec, KeepsPromise, Promise!Spec
================================================================================
