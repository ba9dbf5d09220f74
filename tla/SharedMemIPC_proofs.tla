------------------------- MODULE SharedMemIPC_proofs -------------------------
(* What holds of SharedMemIPC for any number of threads and channels.        *)
EXTENDS SharedMemIPC, TLAPS

USE DEF channelVars, eventVars, memVars, aliveVars, clientVars, workerVars,
        brokerVars, serverVars

LEMMA ConstantFacts ==
  /\ Channels \subseteq Nat
  /\ 1 \in Channels
  /\ NoCall \in Calls
  /\ NoAnswer \in Answers
  /\ Outcomes \subseteq Results
  /\ \A t \in Clients, n \in Nat : <<t, n>> \in Calls
BY ChannelsAssumption
   DEF Channels, NoCall, Calls, NoAnswer, Answers, Outcomes, Results

LEMMA NextChannel ==
  /\ \A c \in Channels : c < NChannels => c + 1 \in Channels
  /\ \A c \in Channels : c + 1 \in 1..(NChannels + 1)
BY ChannelsAssumption DEF Channels

LEMMA ReturnType ==
  ASSUME TypeOK, NEW t \in Clients, NEW o \in Results, Return(t, o)
  PROVE  answer' \in [Clients -> Answers] /\ pc' \in [Clients -> ClientPC]
<1>1. [call |-> <<t, calls[t]>>, outcome |-> o] \in Answers
  BY ConstantFacts DEF TypeOK, Answers
<1>2. QED
  BY <1>1 DEF TypeOK, Return, Goto, ClientPC

LEMMA TypeStep == TypeOK /\ [Next]_vars => TypeOK'
<1> SUFFICES ASSUME TypeOK, [Next]_vars PROVE TypeOK'
  OBVIOUS
<1> USE ConstantFacts, ChannelsAssumption
    DEF TypeOK, ClientPC, WorkerPC, ChannelStates, kFreeChannel, kBusyChannel,
        kAckChannel, kAbandonedChannel
<1>1. ASSUME NEW t \in Clients, GetBuffer(t) PROVE TypeOK'
  BY <1>1 DEF GetBuffer, Goto
<1>2. ASSUME NEW t \in Clients, ClientCall(t) PROVE TypeOK'
  <2>1. CASE LockChannel(t)
    BY <2>1 DEF LockChannel, Goto
  <2>2. CASE SkipChannel(t)
    <3>1. ch[t] \in Channels /\ (ch[t] < NChannels => ch[t] + 1 \in Channels)
      BY NextChannel
    <3>2. ch' \in [Clients -> Channels] /\ pc' \in [Clients -> ClientPC]
      BY <2>2, <3>1 DEF SkipChannel, Goto
    <3>3. QED
      BY <2>2, <3>2 DEF SkipChannel
  <2>3. CASE BackOff(t)
    BY <2>3 DEF BackOff, Goto
  <2>4. CASE SevereFailure(t)
    BY <2>4 DEF SevereFailure, Return, Goto, AliveTaken, Answers, Results
  <2>5. CASE CopyParamIn(t)
    BY <2>5 DEF CopyParamIn, Goto
  <2>6. CASE CopyParamFails(t)
    BY <2>6 DEF CopyParamFails, Return, Goto, Answers, Results
  <2>7. CASE DoCall(t)
    <3>1. CASE server_alive
      BY <2>7, <3>1 DEF DoCall, Goto
    <3>2. CASE ~server_alive
      <4>1. "CHANNEL_ERROR" \in Results /\ Return(t, "CHANNEL_ERROR")
        BY <2>7, <3>2 DEF DoCall, Results
      <4>2. QED
        BY <2>7, <4>1, ReturnType DEF DoCall
    <3>3. QED
      BY <3>1, <3>2
  <2>8. CASE SignalPing(t)
    BY <2>8 DEF SignalPing, Goto
  <2>9. CASE AwaitPong(t)
    BY <2>9 DEF AwaitPong, Goto
  <2>10. CASE PongTimesOut(t)
    BY <2>10 DEF PongTimesOut, Goto
  <2>11. CASE ServerSeemsAlive(t)
    BY <2>11 DEF ServerSeemsAlive, Goto
  <2>12. CASE ServerCrashed(t)
    BY <2>12 DEF ServerCrashed, Goto, AliveTaken
  <2>13. CASE AbandonChannel(t)
    BY <2>13 DEF AbandonChannel, Goto
  <2>14. CASE ZeroServerAlive(t)
    BY <2>14 DEF ZeroServerAlive, Return, Goto, Answers, Results
  <2>15. CASE ReadAnswer(t)
    <3>1. ret[ch[t]] \in Answers
      OBVIOUS
    <3>2. PICK outcome \in {ret[ch[t]].outcome, "BAD_PARAMS"} :
            answer' = [answer EXCEPT
                         ![t] = [ret[ch[t]] EXCEPT !.outcome = outcome]]
      BY <2>15 DEF ReadAnswer
    <3>3. [ret[ch[t]] EXCEPT !.outcome = outcome] \in Answers
      BY <3>1 DEF Answers, Results
    <3>4. answer' \in [Clients -> Answers] /\ pc' \in [Clients -> ClientPC]
      BY <2>15, <3>2, <3>3 DEF ReadAnswer, Goto
    <3>5. QED
      BY <2>15, <3>4 DEF ReadAnswer
  <2>16. CASE FreeBuffer(t)
    BY <2>16 DEF FreeBuffer, Goto
  <2>17. QED
    BY <1>2, <2>1, <2>2, <2>3, <2>4, <2>5, <2>6, <2>7, <2>8, <2>9, <2>10,
       <2>11, <2>12, <2>13, <2>14, <2>15, <2>16 DEF ClientCall
<1>3. ASSUME NEW t \in Clients, ThreadExit(t) PROVE TypeOK'
  BY <1>3 DEF ThreadExit, Goto
<1>4. ASSUME NEW w \in Workers, NEW c \in Channels, PingFires(w, c)
      PROVE  TypeOK'
  BY <1>4 DEF PingFires
<1>5. ASSUME NEW w \in Workers, ThreadPingEventReady(w) PROVE TypeOK'
  <2>1. CASE AckChannel(w)
    BY <2>1 DEF AckChannel, Finish
  <2>2. CASE CaptureParams(w)
    BY <2>2 DEF CaptureParams, Answers
  <2>3. CASE InvokeCallback(w)
    <3>1. PICK outcome \in Outcomes :
            call_result' = [call_result EXCEPT ![w].outcome = outcome]
      BY <2>3 DEF InvokeCallback
    <3>2. [call_result[w] EXCEPT !.outcome = outcome] \in Answers
      BY DEF Answers
    <3>3. call_result' \in [Workers -> Answers]
      BY <3>1, <3>2
    <3>4. QED
      BY <2>3, <3>3 DEF InvokeCallback
  <2>4. CASE WriteAnswer(w)
    BY <2>4 DEF WriteAnswer
  <2>5. CASE PublishAck(w)
    BY <2>5 DEF PublishAck
  <2>6. CASE SignalPong(w)
    BY <2>6 DEF SignalPong, Finish
  <2>7. QED
    BY <1>5, <2>1, <2>2, <2>3, <2>4, <2>5, <2>6 DEF ThreadPingEventReady
<1>6. CASE BrokerDies \/ CreatorThreadExits \/ Teardown
  BY <1>6 DEF BrokerDies, CreatorThreadExits, Teardown, AbandonMutex
<1>7. CASE UnRegisterWaits
  <2>1. CASE UnregisterWait
    <3>1. it \in Channels /\ it + 1 \in 1..(NChannels + 1)
      BY <2>1, NextChannel DEF UnregisterWait
    <3>2. QED
      BY <2>1, <3>1 DEF UnregisterWait
  <2>2. CASE CallbacksDone
    <3>1. it + 1 \in 1..(NChannels + 1)
      BY <2>2, NextChannel DEF CallbacksDone
    <3>2. QED
      BY <2>2, <3>1 DEF CallbacksDone
  <2>3. CASE FreeContexts
    BY <2>3 DEF FreeContexts
  <2>4. QED
    BY <1>7, <2>1, <2>2, <2>3 DEF UnRegisterWaits
<1>8. CASE UNCHANGED vars
  BY <1>8 DEF vars
<1>9. QED
  BY <1>1, <1>2, <1>3, <1>4, <1>5, <1>6, <1>7, <1>8 DEF Next

LEMMA InitType == Init => TypeOK
BY ConstantFacts, ChannelsAssumption
   DEF Init, TypeOK, ChannelStates, kFreeChannel, ClientPC, WorkerPC, Channels

(* Every variable keeps its type.                                            *)
THEOREM TypeCorrect == Spec => []TypeOK
BY InitType, TypeStep, PTL DEF Spec

-----------------------------------------------------------------------------
(* The inductive invariant behind the safety of a channel.  The stated       *)
(* invariants say nothing of where a token (a signaled ping, a callback, a   *)
(* signaled pong) may come from, nor that it works on the holder's call.     *)

Quiet(c) == ~ping[c] /\ ~pong[c] /\ \A w \in Workers : ~Serving(w, c)

(* Before the ping and after the pong nothing moves on a held channel.       *)
QuietPhases ==
  \A t \in Clients :
    pc[t] \in {"fill", "docall", "signal", "answered", "free"} => Quiet(ch[t])

(* From the copying of the parameters on, they lie in the channel.           *)
CallInPlace ==
  \A t \in Clients :
    pc[t] \in {"docall", "signal", "wait", "probe", "forsake", "disown", "answered", "free"}
      => params[ch[t]] = ThisCall(t)

Answered(c) == ret[c].call = params[c] /\ ret[c].outcome \in Outcomes

(* The server works on the call in the channel and answers it.               *)
ServerOnCall ==
  /\ \A w \in Workers :
       /\ wpc[w] \in {"invoke", "reply"}
            => call_result[w].call = params[wch[w]]
       /\ wpc[w] = "reply" => call_result[w].outcome \in Outcomes
       /\ wpc[w] \in {"ack", "pong"} => Answered(wch[w])
  /\ \A c \in Channels : pong[c] => Answered(c)
  /\ \A t \in Clients : pc[t] \in {"answered", "free"} => Answered(ch[t])
  /\ \A t \in Clients : pc[t] = "free" => answer[t].call = ThisCall(t)

(* UnRegisterWaits has silenced the channels it has passed.                  *)
Silenced(c) == \A w \in Workers : ~Serving(w, c)
TeardownInv ==
  /\ broker = "up" => it = 1
  /\ broker = "closing" =>
       \A c \in Channels : c < it /\ c \notin armed => Silenced(c)
  /\ ContextsOutliveCallbacks

ChannelInv ==
  /\ TypeOK
  /\ ExclusiveChannel
  /\ QuietWhenFree
  /\ OneToken
  /\ QuietPhases
  /\ CallInPlace
  /\ ServerOnCall
  /\ TeardownInv

-----------------------------------------------------------------------------
(* One step of a client thread.                                              *)
LEMMA ClientStep ==
  ASSUME ChannelInv, TypeOK', NEW t \in Clients,
         GetBuffer(t) \/ ClientCall(t) \/ ThreadExit(t)
  PROVE  ChannelInv'
<1> USE DEF ChannelInv, TypeOK, ExclusiveChannel, QuietWhenFree, OneToken, QuietPhases, CallInPlace,
        ServerOnCall, TeardownInv, ContextsOutliveCallbacks,
        Holding, Serving, Quiet, Silenced, Answered, ThisCall, ChannelStates,
        kFreeChannel, kBusyChannel, kAckChannel, kAbandonedChannel, ClientPC,
        WorkerPC
<1>1. CASE GetBuffer(t)
  BY <1>1 DEF GetBuffer, Goto
<1>2. CASE LockChannel(t)
  <2>1. ExclusiveChannel'
    BY <1>2 DEF LockChannel, Goto
  <2>2. QuietWhenFree'
    BY <1>2 DEF LockChannel, Goto
  <2>3. OneToken'
    BY <1>2 DEF LockChannel, Goto
  <2>4. QuietPhases'
    BY <1>2 DEF LockChannel, Goto
  <2>5. CallInPlace'
    BY <1>2 DEF LockChannel, Goto
  <2>6. ServerOnCall'
    BY <1>2 DEF LockChannel, Goto
  <2>7. TeardownInv'
    BY <1>2 DEF LockChannel, Goto
  <2>8. QED
    BY <2>1, <2>2, <2>3, <2>4, <2>5, <2>6, <2>7
<1>3. CASE SkipChannel(t)
  <2>1. ExclusiveChannel'
    BY <1>3 DEF SkipChannel, Goto
  <2>2. QuietWhenFree'
    BY <1>3 DEF SkipChannel, Goto
  <2>3. OneToken'
    BY <1>3 DEF SkipChannel, Goto
  <2>4. QuietPhases'
    BY <1>3 DEF SkipChannel, Goto
  <2>5. CallInPlace'
    BY <1>3 DEF SkipChannel, Goto
  <2>6. ServerOnCall'
    BY <1>3 DEF SkipChannel, Goto
  <2>7. TeardownInv'
    BY <1>3 DEF SkipChannel, Goto
  <2>8. QED
    BY <2>1, <2>2, <2>3, <2>4, <2>5, <2>6, <2>7
<1>4. CASE BackOff(t)
  BY <1>4 DEF BackOff, Goto
<1>5. CASE SevereFailure(t)
  BY <1>5 DEF SevereFailure, Goto, Return
<1>6. CASE CopyParamIn(t)
  BY <1>6 DEF CopyParamIn, Goto
<1>7. CASE CopyParamFails(t)
  BY <1>7 DEF CopyParamFails, Goto, Return
<1>8. CASE DoCall(t)
  BY <1>8 DEF DoCall, Goto, Return
<1>9. CASE SignalPing(t)
  <2>1. ExclusiveChannel'
    BY <1>9 DEF SignalPing, Goto
  <2>2. QuietWhenFree'
    BY <1>9 DEF SignalPing, Goto
  <2>3. OneToken'
    BY <1>9 DEF SignalPing, Goto
  <2>4. QuietPhases'
    BY <1>9 DEF SignalPing, Goto
  <2>5. CallInPlace'
    BY <1>9 DEF SignalPing, Goto
  <2>6. ServerOnCall'
    BY <1>9 DEF SignalPing, Goto
  <2>7. TeardownInv'
    BY <1>9 DEF SignalPing, Goto
  <2>8. QED
    BY <2>1, <2>2, <2>3, <2>4, <2>5, <2>6, <2>7
<1>10. CASE AwaitPong(t)
  <2>1. ExclusiveChannel'
    BY <1>10 DEF AwaitPong, Goto
  <2>2. QuietWhenFree'
    BY <1>10 DEF AwaitPong, Goto
  <2>3. OneToken'
    BY <1>10 DEF AwaitPong, Goto
  <2>4. QuietPhases'
    BY <1>10 DEF AwaitPong, Goto
  <2>5. CallInPlace'
    BY <1>10 DEF AwaitPong, Goto
  <2>6. ServerOnCall'
    BY <1>10 DEF AwaitPong, Goto
  <2>7. TeardownInv'
    BY <1>10 DEF AwaitPong, Goto
  <2>8. QED
    BY <2>1, <2>2, <2>3, <2>4, <2>5, <2>6, <2>7
<1>11. CASE PongTimesOut(t)
  BY <1>11 DEF PongTimesOut, Goto
<1>12. CASE ServerSeemsAlive(t)
  BY <1>12 DEF ServerSeemsAlive, Goto
<1>13. CASE ServerCrashed(t)
  BY <1>13 DEF ServerCrashed, Goto
<1>14. CASE AbandonChannel(t)
  BY <1>14 DEF AbandonChannel, Goto
<1>15. CASE ZeroServerAlive(t)
  BY <1>15 DEF ZeroServerAlive, Goto, Return
<1>16. CASE ReadAnswer(t)
  BY <1>16 DEF ReadAnswer, Goto
<1>17. CASE FreeBuffer(t)
  BY <1>17 DEF FreeBuffer, Goto
<1>18. CASE ThreadExit(t)
  BY <1>18 DEF ThreadExit, Goto
<1>19. QED
  BY <1>1, <1>2, <1>3, <1>4, <1>5, <1>6, <1>7, <1>8, <1>9, <1>10, <1>11,
     <1>12, <1>13, <1>14, <1>15, <1>16, <1>17, <1>18 DEF ClientCall

(* One step of a pool thread.                                                *)
LEMMA WorkerStep ==
  ASSUME ChannelInv, TypeOK', NEW w \in Workers,
         ThreadPingEventReady(w) \/ \E c \in Channels : PingFires(w, c)
  PROVE  ChannelInv'
<1> USE DEF ChannelInv, TypeOK, ExclusiveChannel, QuietWhenFree, OneToken, QuietPhases, CallInPlace,
        ServerOnCall, TeardownInv, ContextsOutliveCallbacks,
        Holding, Serving, Quiet, Silenced, Answered, ThisCall, ChannelStates,
        kFreeChannel, kBusyChannel, kAckChannel, kAbandonedChannel, ClientPC,
        WorkerPC
<1>1. CASE AckChannel(w)
  <2>1. ExclusiveChannel'
    BY <1>1 DEF AckChannel, Finish
  <2>2. QuietWhenFree'
    BY <1>1, SMTT(20) DEF AckChannel, Finish
  <2>3. OneToken'
    BY <1>1 DEF AckChannel, Finish
  <2>4. QuietPhases'
    BY <1>1 DEF AckChannel, Finish
  <2>5. CallInPlace'
    BY <1>1 DEF AckChannel, Finish
  <2>6. ServerOnCall'
    BY <1>1 DEF AckChannel, Finish
  <2>7. TeardownInv'
    BY <1>1 DEF AckChannel, Finish
  <2>8. QED
    BY <2>1, <2>2, <2>3, <2>4, <2>5, <2>6, <2>7
<1>2. CASE CaptureParams(w)
  BY <1>2 DEF CaptureParams
<1>3. CASE InvokeCallback(w)
  BY <1>3 DEF InvokeCallback
<1>4. CASE WriteAnswer(w)
  BY <1>4 DEF WriteAnswer
<1>5. CASE PublishAck(w)
  BY <1>5 DEF PublishAck
<1>6. CASE SignalPong(w)
  <2>1. ExclusiveChannel'
    BY <1>6 DEF SignalPong, Finish
  <2>2. QuietWhenFree'
    BY <1>6 DEF SignalPong, Finish
  <2>3. OneToken'
    BY <1>6 DEF SignalPong, Finish
  <2>4. QuietPhases'
    BY <1>6 DEF SignalPong, Finish
  <2>5. CallInPlace'
    BY <1>6 DEF SignalPong, Finish
  <2>6. ServerOnCall'
    BY <1>6 DEF SignalPong, Finish
  <2>7. TeardownInv'
    BY <1>6 DEF SignalPong, Finish
  <2>8. QED
    BY <2>1, <2>2, <2>3, <2>4, <2>5, <2>6, <2>7
<1>7. ASSUME NEW c \in Channels, PingFires(w, c) PROVE ChannelInv'
  BY <1>7 DEF PingFires
<1>8. QED
  BY <1>1, <1>2, <1>3, <1>4, <1>5, <1>6, <1>7 DEF ThreadPingEventReady

(* One step of the broker's end of life.                                     *)
LEMMA BrokerStep ==
  ASSUME ChannelInv, TypeOK',
         BrokerDies \/ CreatorThreadExits \/ Teardown \/ UnRegisterWaits
  PROVE  ChannelInv'
<1> USE DEF ChannelInv, TypeOK, ExclusiveChannel, QuietWhenFree, OneToken, QuietPhases, CallInPlace,
        ServerOnCall, TeardownInv, ContextsOutliveCallbacks,
        Holding, Serving, Quiet, Silenced, Answered, ThisCall, ChannelStates,
        kFreeChannel, kBusyChannel, kAckChannel, kAbandonedChannel, ClientPC,
        WorkerPC
<1>1. CASE BrokerDies
  BY <1>1 DEF BrokerDies
<1>2. CASE CreatorThreadExits
  BY <1>2 DEF CreatorThreadExits
<1>3. CASE Teardown
  <2>1. \A c \in Channels : ~(c < 1)
    BY DEF Channels
  <2>2. broker' = "closing" /\ it' = 1
    BY <1>3 DEF Teardown
  <2>3. TeardownInv'
    BY <2>1, <2>2
  <2>4. QED
    BY <1>3, <2>3 DEF Teardown
<1>4. CASE UnregisterWait
  <2>1. \A c \in Channels : c < it + 1 => c < it \/ c = it
    BY DEF Channels
  <2>2. TeardownInv'
    BY <1>4, <2>1 DEF UnregisterWait
  <2>3. QED
    BY <1>4, <2>2 DEF UnregisterWait
<1>5. CASE CallbacksDone
  <2>1. \A c \in Channels : c < it + 1 => c < it \/ c = it
    BY DEF Channels
  <2>2. TeardownInv'
    BY <1>5, <2>1 DEF CallbacksDone
  <2>3. QED
    BY <1>5, <2>2 DEF CallbacksDone
<1>6. CASE FreeContexts
  <2>1. \A c \in Channels : c < it
    BY <1>6, ChannelsAssumption DEF FreeContexts, Channels
  <2>2. TeardownInv'
    BY <1>6, <2>1 DEF FreeContexts
  <2>3. QED
    BY <1>6, <2>2 DEF FreeContexts
<1>7. QED
  BY <1>1, <1>2, <1>3, <1>4, <1>5, <1>6 DEF UnRegisterWaits

LEMMA ChannelInvStep == ChannelInv /\ [Next]_vars => ChannelInv'
<1> SUFFICES ASSUME ChannelInv, [Next]_vars PROVE ChannelInv'
  OBVIOUS
<1>1. TypeOK'
  BY TypeStep DEF ChannelInv
<1>2. CASE Next
  BY <1>1, <1>2, ClientStep, WorkerStep, BrokerStep DEF Next
<1>3. CASE UNCHANGED vars
  <2> USE <1>3 DEF vars
  <2> USE DEF ChannelInv, TypeOK, ExclusiveChannel, QuietWhenFree, OneToken, QuietPhases, CallInPlace,
        ServerOnCall, TeardownInv, ContextsOutliveCallbacks,
        Holding, Serving, Quiet, Silenced, Answered, ThisCall, ChannelStates,
        kFreeChannel, kBusyChannel, kAckChannel, kAbandonedChannel, ClientPC,
        WorkerPC
  <2>1. QED
    OBVIOUS
<1>4. QED
  BY <1>2, <1>3

(* The inductive invariant holds throughout.                                 *)
THEOREM ChannelInvariant == Spec => []ChannelInv
<1>1. Init => ChannelInv
  <2>1. Init => TypeOK
    BY InitType
  <2>2. Init => TeardownInv /\ ExclusiveChannel /\ QuietWhenFree /\ OneToken
    BY DEF Init, TeardownInv, ContextsOutliveCallbacks, ExclusiveChannel,
           QuietWhenFree, OneToken, Holding, Serving
  <2>3. Init => QuietPhases /\ CallInPlace /\ ServerOnCall
    BY DEF Init, QuietPhases, CallInPlace, ServerOnCall, Quiet, Serving
  <2>4. QED
    BY <2>1, <2>2, <2>3 DEF ChannelInv
<1>2. QED
  BY <1>1, ChannelInvStep, PTL DEF Spec

(* LockFreeChannel, ThreadPingEventReady and FreeBuffer make the state word  *)
(* of a channel an exclusive lock of its client thread.                      *)
THEOREM ChannelsExclusive == Spec => []ExclusiveChannel
BY ChannelInvariant, PTL DEF ChannelInv

(* A channel that is free again carries nothing over to the next call.       *)
THEOREM FreeChannelsQuiet == Spec => [](QuietWhenFree /\ OneToken)
<1>1. ChannelInv => QuietWhenFree /\ OneToken
  BY DEF ChannelInv
<1>2. QED
  BY <1>1, ChannelInvariant, PTL

(* DoCall returns the answer to its own call, whatever the timeouts, the     *)
(* death of the broker and the channels given up before.                     *)
THEOREM AnswersMatch == Spec => []AnswerIsForThisCall
<1>1. ChannelInv => AnswerIsForThisCall
  BY DEF ChannelInv, CallInPlace, ServerOnCall, Answered, AnswerIsForThisCall,
         ThisCall
<1>2. QED
  BY <1>1, ChannelInvariant, PTL

(* ~SharedMemIPCServer frees no context a callback uses or can still get.    *)
THEOREM ContextsSafe == Spec => []ContextsOutliveCallbacks
<1>1. ChannelInv => ContextsOutliveCallbacks
  BY DEF ChannelInv, TeardownInv
<1>2. QED
  BY <1>1, ChannelInvariant, PTL

(* The server never writes an answer while the client copies it.             *)
THEOREM AnswersStable == Spec => AnswerStable
<1>1. ChannelInv /\ [Next]_vars
        => [\A t \in Clients :
              pc[t] = "answered" => ret'[ch[t]] = ret[ch[t]]]_vars
  <2> SUFFICES ASSUME ChannelInv, Next, NEW t \in Clients, pc[t] = "answered"
               PROVE  ret'[ch[t]] = ret[ch[t]]
    BY DEF vars
  <2>1. \A w \in Workers : ~Serving(w, ch[t])
    BY DEF ChannelInv, QuietPhases, Quiet
  <2>2. ASSUME NEW w \in Workers, WriteAnswer(w) PROVE ret'[ch[t]] = ret[ch[t]]
    BY <2>1, <2>2 DEF WriteAnswer, Serving, ChannelInv, TypeOK
  <2>3. CASE ~(\E w \in Workers : WriteAnswer(w))
    <3>1. UNCHANGED ret
      BY <2>3 DEF Next, ClientCall, ThreadPingEventReady, UnRegisterWaits,
         GetBuffer, LockChannel, SkipChannel, BackOff, SevereFailure,
         CopyParamIn, CopyParamFails, DoCall, SignalPing, AwaitPong,
         PongTimesOut, ServerSeemsAlive, ServerCrashed, AbandonChannel,
         ZeroServerAlive, ReadAnswer, FreeBuffer, ThreadExit, PingFires,
         AckChannel, CaptureParams, InvokeCallback, PublishAck, SignalPong,
         BrokerDies, CreatorThreadExits, Teardown, UnregisterWait,
         CallbacksDone, FreeContexts
    <3>2. QED
      BY <3>1
  <2>4. QED
    BY <2>2, <2>3
<1>2. QED
  BY <1>1, ChannelInvariant, PTL DEF Spec, AnswerStable

-----------------------------------------------------------------------------
(* With a broker that lives, and whose thread that owns the mutex does, no   *)
(* call gives its channel up: every channel that is not free has its holder, *)
(* and it is busy until its ping has fired and its callback has begun.       *)
CrossCallsOnly == ParamsFit /\ ~CreatorExits

ServerSeen ==
  /\ alive_mutex = "broker" /\ server_alive
  /\ \A t \in Clients : pc[t] \notin {"forsake", "disown"}

HeldChannels ==
  \A c \in Channels : state[c] # kFreeChannel => \E t \in Clients : Holding(t) /\ ch[t] = c

BusyUntilServed ==
  /\ \A t \in Clients : pc[t] \in {"fill", "docall", "signal"} => state[ch[t]] = kBusyChannel
  /\ \A c \in Channels : ping[c] => state[c] = kBusyChannel
  /\ \A w \in Workers : wpc[w] = "entered" => state[wch[w]] = kBusyChannel

AccountInv == Alive => ServerSeen /\ HeldChannels /\ BusyUntilServed

LEMMA AccountClientStep ==
  ASSUME CrossCallsOnly, ChannelInv, AccountInv, Alive, NEW t \in Clients,
         GetBuffer(t) \/ ClientCall(t) \/ ThreadExit(t)
  PROVE  ServerSeen' /\ HeldChannels' /\ BusyUntilServed'
<1> USE DEF CrossCallsOnly, AccountInv, ServerSeen, HeldChannels, BusyUntilServed, Holding,
        kFreeChannel, kBusyChannel, Goto
<1>0. /\ pc \in [Clients -> ClientPC] /\ ch \in [Clients -> Channels] /\ t # "broker"
      /\ state \in [Channels -> ChannelStates]
      /\ wch \in [Workers -> Channels] /\ ping \in [Channels -> BOOLEAN]
  BY NamesAssumption DEF ChannelInv, TypeOK
<1>1. CASE GetBuffer(t)
  BY <1>0, <1>1 DEF GetBuffer
<1>2. CASE SkipChannel(t)
  BY <1>0, <1>2 DEF SkipChannel
<1>3. CASE BackOff(t)
  BY <1>0, <1>3 DEF BackOff
<1>4. CASE CopyParamIn(t)
  BY <1>0, <1>4 DEF CopyParamIn
<1>5. CASE AwaitPong(t)
  BY <1>0, <1>5 DEF AwaitPong
<1>6. CASE PongTimesOut(t)
  BY <1>0, <1>6 DEF PongTimesOut
<1>7. CASE ServerSeemsAlive(t)
  BY <1>0, <1>7 DEF ServerSeemsAlive
<1>8. CASE ReadAnswer(t)
  BY <1>0, <1>8 DEF ReadAnswer
<1>9. CASE ThreadExit(t)
  BY <1>0, <1>9 DEF ThreadExit
<1>10. CASE LockChannel(t)
  BY <1>0, <1>10 DEF LockChannel
<1>11. CASE DoCall(t)
  BY <1>0, <1>11 DEF DoCall
<1>12. CASE SignalPing(t)
  BY <1>0, <1>12 DEF SignalPing
<1>13. CASE FreeBuffer(t)
  <2>1. /\ ~ping[ch[t]] /\ \A w \in Workers : ~Serving(w, ch[t])
        /\ \A u \in Clients \ {t} : Holding(u) => ch[u] # ch[t]
    BY <1>13 DEF FreeBuffer, ChannelInv, QuietPhases, Quiet, ExclusiveChannel
  <2> QED
    BY <1>0, <1>13, <2>1 DEF FreeBuffer, Serving
<1>14. ~SevereFailure(t) /\ ~CopyParamFails(t) /\ ~ServerCrashed(t)
      /\ ~AbandonChannel(t) /\ ~ZeroServerAlive(t)
  BY <1>0 DEF SevereFailure, CopyParamFails, ServerCrashed, AbandonChannel, ZeroServerAlive,
     AliveTimesOut
<1> QED
  BY <1>1, <1>2, <1>3, <1>4, <1>5, <1>6, <1>7, <1>8, <1>9, <1>10, <1>11, <1>12, <1>13, <1>14 DEF ClientCall

LEMMA AccountWorkerStep ==
  ASSUME ChannelInv, AccountInv, Alive, NEW w \in Workers,
         ThreadPingEventReady(w) \/ \E c \in Channels : PingFires(w, c)
  PROVE  ServerSeen' /\ HeldChannels' /\ BusyUntilServed'
<1> USE DEF AccountInv, ServerSeen, HeldChannels, BusyUntilServed, Holding,
        kFreeChannel, kBusyChannel, kAckChannel, clientVars, aliveVars
<1>0. /\ wpc \in [Workers -> WorkerPC] /\ wch \in [Workers -> Channels]
      /\ state \in [Channels -> ChannelStates] /\ ping \in [Channels -> BOOLEAN]
      /\ ch \in [Clients -> Channels]
  BY DEF ChannelInv, TypeOK
<1>1. ASSUME NEW c \in Channels, PingFires(w, c)
      PROVE  ServerSeen' /\ HeldChannels' /\ BusyUntilServed'
  BY <1>0, <1>1 DEF PingFires
<1>2. ASSUME wpc[w] \in {"entered", "ack"}, state' = [state EXCEPT ![wch[w]] = kAckChannel],
             wpc'[w] # "entered", \A v \in Workers \ {w} : wpc'[v] = wpc[v],
             UNCHANGED <<ping, wch, clientVars, aliveVars>>
      PROVE  ServerSeen' /\ HeldChannels' /\ BusyUntilServed'
  <2>1. Serving(w, wch[w])
    BY <1>2 DEF Serving
  <2>2. /\ state[wch[w]] # kFreeChannel /\ ~ping[wch[w]]
        /\ \A v \in Workers \ {w} : wpc[v] = "entered" => wch[v] # wch[w]
        /\ \A t \in Clients : pc[t] \in {"fill", "docall", "signal"} => ch[t] # wch[w]
    BY <1>0, <2>1 DEF ChannelInv, QuietWhenFree, OneToken, QuietPhases, Quiet, Serving
  <2> QED
    BY <1>0, <1>2, <2>2
<1>3. CASE AckChannel(w)
  <2>1. CASE state[wch[w]] = kBusyChannel
    BY <1>0, <1>2, <1>3, <2>1 DEF AckChannel
  <2>2. CASE state[wch[w]] # kBusyChannel
    BY <1>0, <1>3, <2>2 DEF AckChannel
  <2> QED
    BY <2>1, <2>2
<1>4. CASE PublishAck(w)
  BY <1>0, <1>2, <1>4 DEF PublishAck
<1>5. CASE CaptureParams(w) \/ InvokeCallback(w) \/ WriteAnswer(w) \/ SignalPong(w)
  <2>1. UNCHANGED <<state, ping, clientVars, aliveVars>>
    BY <1>5 DEF CaptureParams, InvokeCallback, WriteAnswer, SignalPong
  <2>2. CASE SignalPong(w)
    BY <1>0, <2>1, <2>2 DEF SignalPong, Finish
  <2>3. CASE wch' = wch /\ wpc'[w] # "entered" /\ \A v \in Workers \ {w} : wpc'[v] = wpc[v]
    BY <1>0, <2>1, <2>3
  <2>4. CASE CaptureParams(w)
    BY <1>0, <2>3, <2>4 DEF CaptureParams
  <2>5. CASE InvokeCallback(w)
    BY <1>0, <2>3, <2>5 DEF InvokeCallback
  <2>6. CASE WriteAnswer(w)
    BY <1>0, <2>3, <2>6 DEF WriteAnswer
  <2> QED
    BY <1>5, <2>2, <2>4, <2>5, <2>6
<1> QED
  BY <1>1, <1>3, <1>4, <1>5 DEF ThreadPingEventReady

LEMMA AccountStep ==
  ASSUME CrossCallsOnly, ChannelInv, AccountInv, [Next]_vars
  PROVE  AccountInv'
<1> SUFFICES ASSUME Alive' PROVE ServerSeen' /\ HeldChannels' /\ BusyUntilServed'
  BY DEF AccountInv
<1>1. Alive
  BY DEF Alive, Next, ClientCall, ThreadPingEventReady, UnRegisterWaits,
     GetBuffer, LockChannel, SkipChannel, BackOff, SevereFailure, CopyParamIn, CopyParamFails,
     DoCall, SignalPing, AwaitPong, PongTimesOut, ServerSeemsAlive, ServerCrashed,
     AbandonChannel, ZeroServerAlive, ReadAnswer, FreeBuffer, ThreadExit, PingFires,
     AckChannel, CaptureParams, InvokeCallback, WriteAnswer, PublishAck, SignalPong,
     BrokerDies, CreatorThreadExits, Teardown, UnregisterWait, CallbacksDone, FreeContexts, vars
<1>2. ~BrokerDies /\ ~CreatorThreadExits
  BY DEF BrokerDies, CreatorThreadExits, Alive, CrossCallsOnly
<1>3. CASE Teardown \/ UnRegisterWaits \/ UNCHANGED vars
  <2>1. UNCHANGED <<state, ping, aliveVars, clientVars, wpc, wch>>
    BY <1>3 DEF Teardown, UnRegisterWaits, UnregisterWait, CallbacksDone, FreeContexts, vars
  <2> QED
    BY <1>1, <2>1 DEF AccountInv, ServerSeen, HeldChannels, BusyUntilServed, Holding
<1> QED
  BY <1>1, <1>2, <1>3, AccountClientStep, AccountWorkerStep DEF Next

(* Where parameters fit and the thread that owns the mutex lives as long as  *)
(* the broker: a ping finds its channel busy (sharedmem_ipc_server.cc:378),  *)
(* no call takes a live broker for a dead one, and every channel is given    *)
(* back (crosscall_client.h:302), for any threads, channels and calls.       *)
THEOREM ChannelsAreAccountedFor == CrossCallsOnly => (Spec => []ChannelsAccountedFor)
<1> SUFFICES ASSUME CrossCallsOnly PROVE Spec => []ChannelsAccountedFor
  OBVIOUS
<1>1. Init => AccountInv
  BY DEF Init, AccountInv, ServerSeen, HeldChannels, BusyUntilServed
<1>2. ChannelInv /\ AccountInv => ChannelsAccountedFor
  <2> SUFFICES ASSUME ChannelInv, AccountInv PROVE ChannelsAccountedFor
    OBVIOUS
  <2>1. OneToken
    BY DEF ChannelInv
  <2>2. PingMeansBusy /\ AbandonedMeansDead
    BY DEF PingMeansBusy, AbandonedMeansDead, AccountInv, BusyUntilServed, ServerSeen, Alive
  <2>3. NoChannelLost
    BY DEF NoChannelLost, AccountInv, HeldChannels, Holding, Alive
  <2> QED
    BY <2>1, <2>2, <2>3 DEF ChannelsAccountedFor
<1>3. CrossCallsOnly /\ ChannelInv /\ AccountInv /\ [Next]_vars => AccountInv'
  BY AccountStep
<1>4. []CrossCallsOnly
  BY PTL
<1> QED
  BY <1>1, <1>2, <1>3, <1>4, ChannelInvariant, PTL DEF Spec

-----------------------------------------------------------------------------
(* The promise of BrokeredCall.  Beside ChannelInv it rests on where the     *)
(* number of a call can turn up: nowhere before its parameters are copied,   *)
(* then only on its own channel, and never again once a later call began.    *)

NoFutureCalls ==
  \A t \in Clients, n \in Nat : n > calls[t] =>
    /\ \A c \in Channels : params[c] # <<t, n>> /\ ret[c].call # <<t, n>>
    /\ \A w \in Workers : call_result[w].call # <<t, n>>

(* No pool thread has taken up the call of t and no answer to it exists.     *)
Untouched(t) ==
  /\ \A c \in Channels : ret[c].call # ThisCall(t)
  /\ \A w \in Workers : call_result[w].call # ThisCall(t)

FreshCalls ==
  \A t \in Clients :
    /\ pc[t] \in {"scan", "backoff", "fill"} => \A c \in Channels : params[c] # ThisCall(t)
    /\ pc[t] \in {"scan", "backoff", "fill", "docall", "signal"} => Untouched(t)

(* A call under way is known to its channel and its one pool thread only.    *)
CallConfined ==
  \A t \in Clients : Holding(t) =>
    /\ \A c \in Channels : params[c] = ThisCall(t) \/ ret[c].call = ThisCall(t) => c = ch[t]
    /\ \A w \in Workers : call_result[w].call = ThisCall(t) => Serving(w, ch[t])

(* A call that waits to be executed has not been answered before.            *)
ExecutedOnce ==
  /\ \A c \in Channels : ping[c] => ret[c].call # params[c]
  /\ \A w \in Workers :
       /\ wpc[w] \in {"entered", "capture", "invoke", "reply"}
            => ret[wch[w]].call # params[wch[w]]
       /\ wpc[w] \in {"idle", "entered", "capture"} => call_result[w] = NoAnswer
       /\ wpc[w] \in {"ack", "pong"} => ret[wch[w]] = call_result[w]

(* The sign of life of the broker is gone before a call is given up.         *)
SignLost ==
  ~server_alive \/ (\E t \in Clients : pc[t] \in {"forsake", "disown"})
    => alive_mutex # "broker"

CallInv ==
  /\ ChannelInv
  /\ NoFutureCalls
  /\ FreshCalls
  /\ CallConfined
  /\ ExecutedOnce
  /\ SignLost

CallParts == NoFutureCalls /\ FreshCalls /\ CallConfined /\ ExecutedOnce /\ SignLost

LEMMA CallClientStep ==
  ASSUME CallInv, NEW t \in Clients,
         GetBuffer(t) \/ ClientCall(t) \/ ThreadExit(t)
  PROVE  CallParts'
<1> USE DEF CallInv, CallParts, NoFutureCalls, FreshCalls, CallConfined, ExecutedOnce,
        SignLost, Untouched, ThisCall, Holding, Goto
<1>0. /\ pc \in [Clients -> ClientPC] /\ ch \in [Clients -> Channels] /\ t # "broker"
      /\ calls \in [Clients -> Nat] /\ params \in [Channels -> Calls]
      /\ wch \in [Workers -> Channels] /\ ping \in [Channels -> BOOLEAN]
      /\ ret \in [Channels -> Answers] /\ call_result \in [Workers -> Answers]
  BY NamesAssumption DEF ChannelInv, TypeOK
<1>1. CASE GetBuffer(t)
  <2>1. \A n \in Nat : n > calls[t] + 1 => n > calls[t]
    BY <1>0
  <2>2. calls[t] + 1 \in Nat /\ calls[t] + 1 > calls[t]
    BY <1>0
  <2>3. \A u \in Clients : calls'[u] = IF u = t THEN calls[t] + 1 ELSE calls[u]
    BY <1>0, <1>1 DEF GetBuffer
  <2>4. UNCHANGED <<params, ret, ping, wpc, wch, call_result, server_alive, alive_mutex>>
    BY <1>1 DEF GetBuffer
  <2>5. /\ pc' = [pc EXCEPT ![t] = "scan"] /\ pc[t] = "idle"
        /\ \A u \in Clients \ {t} : ch'[u] = ch[u]
    BY <1>0, <1>1 DEF GetBuffer
  <2>6. NoFutureCalls'
    BY <2>1, <2>2, <2>3, <2>4
  <2>7. /\ \A c \in Channels : params[c] # <<t, calls[t] + 1>> /\ ret[c].call # <<t, calls[t] + 1>>
        /\ \A w \in Workers : call_result[w].call # <<t, calls[t] + 1>>
    BY <2>2
  <2>8. FreshCalls' /\ CallConfined'
    BY <1>0, <2>3, <2>4, <2>5, <2>7 DEF Serving
  <2>9. ExecutedOnce' /\ SignLost'
    BY <1>0, <2>4, <2>5
  <2> QED
    BY <2>6, <2>8, <2>9
<1>2. CASE SkipChannel(t)
  BY <1>0, <1>2, SMTT(20) DEF SkipChannel, Serving
<1>3. CASE LockChannel(t)
  BY <1>0, <1>3 DEF LockChannel, Serving
<1>4. CASE BackOff(t)
  BY <1>0, <1>4 DEF BackOff, Serving
<1>5. CASE SevereFailure(t)
  BY <1>0, <1>5 DEF SevereFailure, Return, AliveTaken, AliveTimesOut, Serving
<1>6. CASE CopyParamIn(t)
  <2>1. ~ping[ch[t]] /\ \A w \in Workers : wpc[w] # "idle" => wch[w] # ch[t]
    BY <1>6 DEF CopyParamIn, ChannelInv, QuietPhases, Quiet, Serving
  <2>2. /\ pc[t] = "fill" /\ pc' = [pc EXCEPT ![t] = "docall"]
        /\ params' = [params EXCEPT ![ch[t]] = ThisCall(t)]
        /\ UNCHANGED <<ret, ping, ch, calls, wpc, wch, call_result, aliveVars>>
    BY <1>6 DEF CopyParamIn
  <2>3. FreshCalls' /\ CallConfined'
    BY <1>0, <2>2, SMTT(20) DEF Serving
  <2>4. NoFutureCalls' /\ SignLost'
    BY <1>0, <2>2
  <2>5. ExecutedOnce'
    BY <1>0, <2>1, <2>2
  <2> QED
    BY <2>3, <2>4, <2>5
<1>7. CASE CopyParamFails(t)
  BY <1>0, <1>7 DEF CopyParamFails, Return, Serving
<1>8. CASE DoCall(t)
  BY <1>0, <1>8 DEF DoCall, Return, Serving
<1>9. CASE SignalPing(t)
  <2>1. params[ch[t]] = ThisCall(t) /\ ret[ch[t]].call # ThisCall(t)
    BY <1>0, <1>9 DEF SignalPing, ChannelInv, CallInPlace
  <2>2. /\ pc[t] = "signal" /\ pc' = [pc EXCEPT ![t] = "wait"]
        /\ ping' = [ping EXCEPT ![ch[t]] = TRUE]
        /\ UNCHANGED <<params, ret, ch, calls, wpc, wch, call_result, aliveVars>>
    BY <1>9 DEF SignalPing
  <2>3. FreshCalls' /\ CallConfined' /\ NoFutureCalls' /\ SignLost'
    BY <1>0, <2>2 DEF Serving
  <2>4. ExecutedOnce'
    BY <1>0, <2>1, <2>2
  <2> QED
    BY <2>3, <2>4
<1>10. CASE AwaitPong(t)
  BY <1>0, <1>10 DEF AwaitPong, Serving
<1>11. CASE PongTimesOut(t)
  BY <1>0, <1>11 DEF PongTimesOut, Serving
<1>12. CASE ServerSeemsAlive(t)
  BY <1>0, <1>12 DEF ServerSeemsAlive, Serving
<1>13. CASE ServerCrashed(t)
  BY <1>0, <1>13 DEF ServerCrashed, AliveTaken, AliveTimesOut, Serving
<1>14. CASE AbandonChannel(t)
  BY <1>0, <1>14 DEF AbandonChannel, Serving
<1>15. CASE ZeroServerAlive(t)
  BY <1>0, <1>15 DEF ZeroServerAlive, Return, Serving
<1>16. CASE ReadAnswer(t)
  BY <1>0, <1>16 DEF ReadAnswer, Serving
<1>17. CASE FreeBuffer(t)
  BY <1>0, <1>17 DEF FreeBuffer, Serving
<1>18. CASE ThreadExit(t)
  BY <1>0, <1>18 DEF ThreadExit, Serving
<1> QED
  BY <1>1, <1>2, <1>3, <1>4, <1>5, <1>6, <1>7, <1>8, <1>9, <1>10, <1>11, <1>12, <1>13, <1>14, <1>15, <1>16, <1>17, <1>18 DEF ClientCall

LEMMA CallWorkerStep ==
  ASSUME CallInv, NEW w \in Workers,
         ThreadPingEventReady(w) \/ \E c \in Channels : PingFires(w, c)
  PROVE  CallParts'
<1> USE DEF CallInv, CallParts, NoFutureCalls, FreshCalls, CallConfined, ExecutedOnce,
        SignLost, Untouched, ThisCall, Holding, Serving
<1>0. /\ pc \in [Clients -> ClientPC] /\ ch \in [Clients -> Channels]
      /\ calls \in [Clients -> Nat] /\ params \in [Channels -> Calls]
      /\ wpc \in [Workers -> WorkerPC]
      /\ wch \in [Workers -> Channels] /\ ping \in [Channels -> BOOLEAN]
      /\ ret \in [Channels -> Answers] /\ call_result \in [Workers -> Answers]
  BY DEF ChannelInv, TypeOK
<1>1. \A t \in Clients, n \in Nat : NoAnswer.call # <<t, n>>
  BY NamesAssumption DEF NoAnswer, NoCall
<1>2. ASSUME NEW c \in Channels, PingFires(w, c) PROVE CallParts'
  BY <1>0, <1>2 DEF PingFires
<1>9. \A c \in Channels : Serving(w, c) => ~ping[c] /\ \A v \in Workers \ {w} : ~Serving(v, c)
  BY DEF ChannelInv, OneToken
<1>10. ASSUME Finish(w), wpc[w] \in {"entered", "pong"},
              wpc[w] = "pong" => ret[wch[w]] = call_result[w],
              UNCHANGED <<params, ret, ping, clientVars, aliveVars>>
       PROVE  CallParts'
  <2>1. /\ wpc' = [wpc EXCEPT ![w] = "idle"] /\ wch' = [wch EXCEPT ![w] = 1]
        /\ call_result' = [call_result EXCEPT ![w] = NoAnswer]
    BY <1>10 DEF Finish
  <2>2. NoFutureCalls' /\ SignLost'
    BY <1>0, <1>1, <1>10, <2>1
  <2>3. FreshCalls'
    BY <1>0, <1>1, <1>10, <2>1
  <2>4. CallConfined'
    BY <1>0, <1>1, <1>10, <2>1
  <2>5. ExecutedOnce'
    BY <1>0, <1>10, <2>1
  <2> QED
    BY <2>2, <2>3, <2>4, <2>5
<1>3. CASE AckChannel(w)
  <2>1. CASE state[wch[w]] = kBusyChannel
    <3>1. /\ wpc' = [wpc EXCEPT ![w] = "capture"] /\ wpc[w] = "entered"
          /\ UNCHANGED <<params, ret, ping, wch, call_result, clientVars, aliveVars>>
      BY <1>3, <2>1 DEF AckChannel
    <3> QED
      BY <1>0, <3>1
  <2>2. CASE state[wch[w]] # kBusyChannel
    BY <1>3, <1>10, <2>2 DEF AckChannel
  <2> QED
    BY <2>1, <2>2
<1>4. CASE CaptureParams(w)
  <2>1. /\ wpc[w] = "capture" /\ wpc' = [wpc EXCEPT ![w] = "invoke"]
        /\ UNCHANGED <<params, ret, ping, wch, clientVars, aliveVars>>
    BY <1>4 DEF CaptureParams
  <2>2. /\ call_result'[w].call = params[wch[w]]
        /\ \A v \in Workers \ {w} : call_result'[v] = call_result[v]
    BY <1>0, <1>4 DEF CaptureParams, Answers
  <2>3. \A v \in Workers : v = w \/ call_result'[v].call = call_result[v].call
    BY <2>2
  <2>4. NoFutureCalls' /\ SignLost'
    <3>1. SUFFICES ASSUME NEW t \in Clients, NEW n \in Nat, n > calls[t], NEW v \in Workers
                   PROVE  call_result'[v].call # <<t, n>>
      BY <2>1
    <3>2. wch[w] \in Channels /\ params[wch[w]] # <<t, n>> /\ call_result[v].call # <<t, n>>
      BY <1>0, <3>1
    <3> QED
      BY <2>2, <3>2
  <2>5. FreshCalls'
    <3>1. SUFFICES ASSUME NEW t \in Clients, NEW v \in Workers,
                          pc[t] \in {"scan", "backoff", "fill", "docall", "signal"}
                   PROVE  call_result'[v].call # ThisCall(t)
      BY <2>1
    <3>2. CASE v = w /\ pc[t] \in {"docall", "signal"}
      <4>1. ~Serving(w, ch[t])
        BY <3>2 DEF ChannelInv, QuietPhases, Quiet
      <4> QED
        BY <1>0, <2>1, <2>2, <3>2, <4>1
    <3> QED
      BY <1>0, <2>2, <3>1, <3>2, SMTT(20)
  <2>6. CallConfined'
    BY <1>0, <2>1, <2>2
  <2>7. ExecutedOnce'
    BY <1>0, <2>1, <2>2
  <2> QED
    BY <2>4, <2>5, <2>6, <2>7
<1>5. CASE InvokeCallback(w)
  BY <1>0, <1>5, SMTT(20) DEF InvokeCallback
<1>6. CASE WriteAnswer(w)
  <2>1. /\ wpc[w] = "reply" /\ wpc' = [wpc EXCEPT ![w] = "ack"]
        /\ ret' = [ret EXCEPT ![wch[w]] = call_result[w]]
        /\ UNCHANGED <<params, ping, wch, call_result, clientVars, aliveVars>>
    BY <1>6 DEF WriteAnswer
  <2>2. NoFutureCalls' /\ SignLost'
    BY <1>0, <2>1
  <2>3. FreshCalls'
    BY <1>0, <2>1
  <2>4. CallConfined'
    BY <1>0, <2>1
  <2>5. ExecutedOnce'
    BY <1>0, <1>9, <2>1
  <2> QED
    BY <2>2, <2>3, <2>4, <2>5
<1>7. CASE PublishAck(w)
  BY <1>0, <1>7 DEF PublishAck
<1>8. CASE SignalPong(w)
  BY <1>8, <1>10 DEF SignalPong
<1> QED
  BY <1>2, <1>3, <1>4, <1>5, <1>6, <1>7, <1>8 DEF ThreadPingEventReady

LEMMA CallInvStep == CallInv /\ [Next]_vars => CallInv'
<1> SUFFICES ASSUME CallInv, [Next]_vars PROVE CallInv'
  OBVIOUS
<1>1. ChannelInv'
  BY ChannelInvStep DEF CallInv
<1>2. CASE BrokerDies \/ CreatorThreadExits \/ Teardown \/ UnRegisterWaits \/ UNCHANGED vars
  <2>1. /\ UNCHANGED <<params, ret, ping, clientVars, workerVars, server_alive>>
        /\ alive_mutex' = "broker" => alive_mutex = "broker"
    BY <1>2 DEF BrokerDies, AbandonMutex, CreatorThreadExits, Teardown, UnRegisterWaits,
       UnregisterWait, CallbacksDone, FreeContexts, vars
  <2>2. CallParts'
    BY <2>1 DEF CallInv, CallParts, NoFutureCalls, FreshCalls, Untouched, ThisCall, Holding,
       Serving, CallConfined, ExecutedOnce, SignLost
  <2> QED
    BY <1>1, <2>2 DEF CallInv, CallParts
<1> QED
  BY <1>1, <1>2, CallClientStep, CallWorkerStep DEF CallInv, CallParts, Next

(* A call number is confined to its own channel and pool thread, and an      *)
(* answer is computed once: the invariant of the refinement.                 *)
THEOREM CallInvariant == Spec => []CallInv
<1>1. Init => CallParts
  BY NamesAssumption DEF Init, CallParts, NoFutureCalls, FreshCalls, CallConfined, ExecutedOnce,
     SignLost, Holding, NoAnswer, NoCall
<1>2. Init => ChannelInv
  BY InitType DEF Init, ChannelInv, TeardownInv, ContextsOutliveCallbacks, ExclusiveChannel,
     QuietWhenFree, OneToken, Holding, Serving, QuietPhases, CallInPlace, ServerOnCall, Quiet
<1>3. CallInv /\ [Next]_vars => CallInv'
  BY CallInvStep
<1>4. Init => CallInv
  BY <1>1, <1>2 DEF CallInv, CallParts
<1> QED
  BY <1>3, <1>4, PTL DEF Spec

-----------------------------------------------------------------------------
(* The view of one thread in BrokeredCall.                                   *)
Inactive == {"idle", "exited", "free"}

(* The answer of an executed call is the same wherever it is.                *)
Served(t, o) ==
  /\ \/ ret[ch[t]].call = ThisCall(t)
     \/ \E w \in Workers : Executor(t, w)
  /\ ret[ch[t]].call = ThisCall(t) => ret[ch[t]].outcome = o
  /\ \A w \in Workers : Executor(t, w) => call_result[w].outcome = o

LEMMA ViewIdle ==
  ASSUME NEW t \in Clients, pc[t] \in Inactive
  PROVE  CallPhase(t) = "idle" /\ CallOutcome(t) = "none"
BY DEF CallPhase, CallOutcome, Inactive

LEMMA ViewSent ==
  ASSUME NEW t \in Clients, pc[t] \notin Inactive, ret[ch[t]].call # ThisCall(t),
         \A w \in Workers : ~Executor(t, w)
  PROVE  CallPhase(t) = "sent" /\ CallOutcome(t) = "none"
BY DEF CallPhase, CallOutcome, Inactive

LEMMA ViewDone ==
  ASSUME NEW t \in Clients, NEW o, pc[t] \notin Inactive, Served(t, o)
  PROVE  CallPhase(t) = "done" /\ CallOutcome(t) = o
BY DEF CallPhase, CallOutcome, Inactive, Served

(* A step that leaves the answers and the pool threads alone changes the     *)
(* view only of a thread that enters or leaves a call.                       *)
LEMMA SameView ==
  ASSUME NEW u \in Clients, calls'[u] = calls[u], ch'[u] = ch[u],
         UNCHANGED <<ret, wpc, call_result>>, pc[u] \in Inactive <=> pc'[u] \in Inactive
  PROVE  CallPhase(u)' = CallPhase(u) /\ CallOutcome(u)' = CallOutcome(u)
<1>1. ThisCall(u)' = ThisCall(u) /\ \A w \in Workers : Executor(u, w)' <=> Executor(u, w)
  BY DEF ThisCall, Executor
<1>2. CallPhase(u)' = CallPhase(u)
  BY <1>1 DEF CallPhase, Inactive
<1>3. ret'[ch'[u]] = ret[ch[u]] /\ call_result' = call_result
  OBVIOUS
<1>4. (CHOOSE w \in Workers : Executor(u, w)') = CHOOSE w \in Workers : Executor(u, w)
  BY DEF Executor, ThisCall
<1>5. CallOutcome(u)' = IF CallPhase(u)' # "done" THEN "none"
                        ELSE IF ret'[ch'[u]].call = ThisCall(u)' THEN ret'[ch'[u]].outcome
                        ELSE call_result'[CHOOSE w \in Workers : Executor(u, w)'].outcome
  BY DEF CallOutcome
<1>6. CallOutcome(u)' = IF CallPhase(u) # "done" THEN "none"
                        ELSE IF ret[ch[u]].call = ThisCall(u) THEN ret[ch[u]].outcome
                        ELSE call_result[CHOOSE w \in Workers : Executor(u, w)].outcome
  BY <1>1, <1>2, <1>3, <1>4, <1>5
<1> QED
  BY <1>2, <1>6 DEF CallOutcome

(* A thread whose call is not under way, or fresh, or answered.              *)
LEMMA FreshView ==
  ASSUME CallInv, NEW t \in Clients,
         pc[t] \in {"scan", "backoff", "fill", "docall", "signal"}
  PROVE  CallPhase(t) = "sent" /\ CallOutcome(t) = "none"
<1>1. ch[t] \in Channels /\ Untouched(t)
  BY DEF CallInv, ChannelInv, TypeOK, FreshCalls
<1> QED
  BY <1>1, ViewSent DEF Untouched, Executor, Inactive

LEMMA AnsweredView ==
  ASSUME CallInv, NEW t \in Clients, pc[t] = "answered"
  PROVE  /\ CallPhase(t) = "done" /\ CallOutcome(t) = ret[ch[t]].outcome
         /\ ret[ch[t]].call = ThisCall(t)
<1>1. ret[ch[t]].call = ThisCall(t) /\ \A w \in Workers : ~Serving(w, ch[t])
  BY DEF CallInv, ChannelInv, CallInPlace, ServerOnCall, Answered, QuietPhases, Quiet
<1>2. \A w \in Workers : ~Executor(t, w)
  BY <1>1 DEF CallInv, CallConfined, Holding, Executor
<1> QED
  BY <1>1, <1>2, ViewDone DEF Inactive, Served

PromisePhase == [t \in Clients |-> CallPhase(t)]
PromiseOutcome == [t \in Clients |-> CallOutcome(t)]
PromiseServer == IF broker = "dead" THEN "dead"
                 ELSE IF alive_mutex = "broker" THEN "up" ELSE "lost"

LEMMA SameViews ==
  ASSUME \A u \in Clients : CallPhase(u)' = CallPhase(u) /\ CallOutcome(u)' = CallOutcome(u)
  PROVE  PromisePhase' = PromisePhase /\ PromiseOutcome' = PromiseOutcome
BY DEF PromisePhase, PromiseOutcome

(* A step of a client thread is a step of its call or none.                  *)
LEMMA PromiseClientStep ==
  ASSUME CallInv, CallInv', NEW t \in Clients,
         GetBuffer(t) \/ ClientCall(t) \/ ThreadExit(t)
  PROVE  [Promise!Next]_(Promise!vars)
<1>0. /\ pc \in [Clients -> ClientPC] /\ ch \in [Clients -> Channels] /\ t # "broker"
      /\ calls \in [Clients -> Nat] /\ answer \in [Clients -> Answers]
      /\ ret \in [Channels -> Answers]
  BY NamesAssumption DEF CallInv, ChannelInv, TypeOK
<1>1. /\ UNCHANGED <<ret, wpc, call_result>> \/ \E w \in Workers : FALSE
      /\ broker' = broker
      /\ \A u \in Clients \ {t} : pc'[u] = pc[u] /\ ch'[u] = ch[u] /\ calls'[u] = calls[u]
  BY <1>0 DEF ClientCall, GetBuffer, LockChannel, SkipChannel, BackOff, SevereFailure,
     CopyParamIn, CopyParamFails, DoCall, SignalPing, AwaitPong, PongTimesOut,
     ServerSeemsAlive, ServerCrashed, AbandonChannel, ZeroServerAlive, ReadAnswer,
     FreeBuffer, ThreadExit, Return, Goto
<1>2. \A u \in Clients \ {t} : CallPhase(u)' = CallPhase(u) /\ CallOutcome(u)' = CallOutcome(u)
  BY <1>1, SameView
<1>3. PromiseServer' = PromiseServer
  BY <1>0, <1>1 DEF PromiseServer, ClientCall, GetBuffer, LockChannel, SkipChannel, BackOff,
     SevereFailure, CopyParamIn, CopyParamFails, DoCall, SignalPing, AwaitPong, PongTimesOut,
     ServerSeemsAlive, ServerCrashed, AbandonChannel, ZeroServerAlive, ReadAnswer,
     FreeBuffer, ThreadExit, AliveTaken, AliveTimesOut
<1>4. CASE GetBuffer(t)
  <2>1. CallPhase(t) = "idle" /\ CallOutcome(t) = "none"
    BY <1>4, ViewIdle DEF GetBuffer, Inactive
  <2>2. pc'[t] = "scan" /\ ch'[t] \in Channels /\ Untouched(t)'
    BY <1>0, <1>4 DEF GetBuffer, Goto, CallInv, ChannelInv, TypeOK, FreshCalls
  <2>3. CallPhase(t)' = "sent" /\ CallOutcome(t)' = "none"
    BY <2>2 DEF CallPhase, CallOutcome, Untouched, Executor
  <2> QED
    BY <1>2, <1>3, <1>4, <2>1, <2>3
       DEF GetBuffer, Promise!Next, Promise!Call, PromiseServer
(* A call that fails returns as the promise allows.                          *)
<1>5. ASSUME NEW o, Return(t, o), calls' = calls, CallPhase(t) # "idle",
             \/ CallPhase(t) = "sent" /\ o = "NO_SPACE"
             \/ CallPhase(t) = "done" /\ o \in {CallOutcome(t), "BAD_PARAMS"}
             \/ PromiseServer # "up" /\ o = "CHANNEL_ERROR"
      PROVE  Promise!Next
  <2>1. CallPhase(t)' = "idle" /\ CallOutcome(t)' = "none"
    BY <1>0, <1>5 DEF Return, Goto, CallPhase, CallOutcome
  <2>2. Promise!Return(t, o)
    BY <1>2, <1>3, <1>5, <2>1 DEF Return, Promise!Return, PromiseServer, ThisCall
  <2> QED
    BY <1>5, <2>2 DEF Promise!Next, Promise!Deliver, Promise!Refuse, Promise!Fail, PromiseServer
<1>6. CASE SevereFailure(t) \/ CopyParamFails(t)
  <2>1. Return(t, "NO_SPACE") /\ calls' = calls /\ pc[t] \in {"backoff", "fill"}
    BY <1>6 DEF SevereFailure, CopyParamFails
  <2> QED
    BY <1>5, <2>1, FreshView
<1>7. CASE DoCall(t) /\ ~server_alive
  <2>1. Return(t, "CHANNEL_ERROR") /\ calls' = calls /\ pc[t] = "docall"
    BY <1>7 DEF DoCall
  <2>2. PromiseServer # "up"
    BY <1>7 DEF CallInv, SignLost, PromiseServer
  <2> QED
    BY <1>5, <2>1, <2>2, FreshView
<1>8. CASE ZeroServerAlive(t)
  <2>1. Return(t, "CHANNEL_ERROR") /\ calls' = calls /\ pc[t] = "disown"
    BY <1>8 DEF ZeroServerAlive
  <2>2. PromiseServer # "up" /\ CallPhase(t) # "idle"
    BY <2>1 DEF CallInv, SignLost, PromiseServer, CallPhase
  <2> QED
    BY <1>5, <2>1, <2>2
<1>9. CASE ReadAnswer(t)
  <2>1. /\ CallPhase(t) = "done" /\ CallOutcome(t) = ret[ch[t]].outcome
        /\ ret[ch[t]].call = ThisCall(t)
    BY <1>9, AnsweredView DEF ReadAnswer
  <2>2. PICK o \in {ret[ch[t]].outcome, "BAD_PARAMS"} :
          answer' = [answer EXCEPT ![t] = [ret[ch[t]] EXCEPT !.outcome = o]]
    BY <1>9 DEF ReadAnswer
  <2>3. [ret[ch[t]] EXCEPT !.outcome = o] = [call |-> ThisCall(t), outcome |-> o]
    BY <1>0, <2>1 DEF Answers
  <2>4. CallPhase(t)' = "idle" /\ CallOutcome(t)' = "none"
    BY <1>0, <1>9 DEF ReadAnswer, Goto, CallPhase, CallOutcome
  <2>5. Promise!Return(t, o)
    BY <1>2, <1>3, <1>9, <2>2, <2>3, <2>4 DEF ReadAnswer, Promise!Return, PromiseServer, ThisCall
  <2> QED
    BY <2>1, <2>2, <2>5 DEF Promise!Next, Promise!Deliver
(* Every other step moves the thread within its call, or between calls.      *)
<1>10. ASSUME calls' = calls, answer' = answer,
              CallPhase(t)' = CallPhase(t) /\ CallOutcome(t)' = CallOutcome(t)
       PROVE  UNCHANGED Promise!vars
  BY <1>2, <1>3, <1>10 DEF Promise!vars, PromiseServer
<1>11. CASE SkipChannel(t)
  <2>1. pc'[t] \in {"scan", "backoff"} /\ ch'[t] \in Channels /\ Untouched(t)'
    BY <1>0, <1>11 DEF SkipChannel, Goto, CallInv, ChannelInv, TypeOK, FreshCalls
  <2>2. CallPhase(t)' = "sent" /\ CallOutcome(t)' = "none"
    BY <2>1 DEF CallPhase, CallOutcome, Untouched, Executor
  <2>3. CallPhase(t) = "sent" /\ CallOutcome(t) = "none"
    BY <1>11, FreshView DEF SkipChannel
  <2> QED
    BY <1>10, <1>11, <2>2, <2>3 DEF SkipChannel
<1>12. CASE \/ LockChannel(t) \/ BackOff(t) \/ CopyParamIn(t) \/ (DoCall(t) /\ server_alive)
            \/ SignalPing(t) \/ AwaitPong(t) \/ PongTimesOut(t) \/ ServerSeemsAlive(t)
            \/ ServerCrashed(t) \/ AbandonChannel(t) \/ FreeBuffer(t) \/ ThreadExit(t)
  <2>1. /\ pc[t] \in Inactive <=> pc'[t] \in Inactive
        /\ UNCHANGED <<ch, calls, answer>>
    BY <1>0, <1>12 DEF LockChannel, BackOff, CopyParamIn, DoCall, SignalPing, AwaitPong,
       PongTimesOut, ServerSeemsAlive, ServerCrashed, AbandonChannel, FreeBuffer, ThreadExit,
       Goto, Inactive
  <2> QED
    BY <1>1, <1>10, <2>1, SameView
<1>13. CASE DoCall(t)
  BY <1>7, <1>12, <1>13
<1> QED
  BY <1>4, <1>6, <1>8, <1>9, <1>11, <1>12, <1>13 DEF ClientCall

(* The same of the state after a step.                                       *)
LEMMA NextView ==
  ASSUME NEW t \in Clients, pc'[t] \notin Inactive
  PROVE  /\ ret'[ch'[t]].call # ThisCall(t)' /\ (\A w \in Workers : ~Executor(t, w)')
              => CallPhase(t)' = "sent" /\ CallOutcome(t)' = "none"
         /\ \A o : Served(t, o)' => CallPhase(t)' = "done" /\ CallOutcome(t)' = o
BY DEF CallPhase, CallOutcome, Inactive, Served

(* One answer per call: the one in the channel, or the one its only pool     *)
(* thread is about to write there.                                           *)
LEMMA OneAnswer ==
  ASSUME CallInv, NEW t \in Clients, pc[t] \notin Inactive
  PROVE  \/ ret[ch[t]].call # ThisCall(t) /\ \A w \in Workers : ~Executor(t, w)
         \/ \E o : Served(t, o)
<1>0. /\ pc \in [Clients -> ClientPC] /\ ch \in [Clients -> Channels]
      /\ wpc \in [Workers -> WorkerPC]
  BY DEF CallInv, ChannelInv, TypeOK
<1>1. CASE ~Holding(t)
  <2>1. pc[t] \in {"scan", "backoff"}
    BY <1>0, <1>1 DEF Holding, ClientPC, Inactive
  <2> QED
    BY <1>0, <2>1 DEF CallInv, FreshCalls, Untouched, Executor
<1>2. CASE Holding(t)
  <2>1. ASSUME NEW w \in Workers, Executor(t, w)
        PROVE  /\ wch[w] = ch[t] /\ \A v \in Workers : Executor(t, v) => v = w
               /\ ret[ch[t]].call = ThisCall(t) => ret[ch[t]] = call_result[w]
    <3>1. \A v \in Workers : Executor(t, v) => Serving(v, ch[t])
      BY <1>2 DEF CallInv, CallConfined, Executor
    <3>2. \A v \in Workers : Executor(t, v) => v = w
      BY <1>0, <2>1, <3>1 DEF CallInv, ChannelInv, OneToken
    <3>3. wch[w] = ch[t]
      BY <2>1, <3>1 DEF Serving
    <3>4. CASE wpc[w] = "reply"
      BY <2>1, <3>2, <3>3, <3>4 DEF CallInv, ExecutedOnce, ChannelInv, ServerOnCall, Executor
    <3>5. CASE wpc[w] \in {"ack", "pong"}
      BY <2>1, <3>2, <3>3, <3>5 DEF CallInv, ExecutedOnce
    <3> QED
      BY <2>1, <3>2, <3>3, <3>4, <3>5 DEF Executor
  <2>2. CASE \E w \in Workers : Executor(t, w)
    <3>1. PICK w \in Workers : Executor(t, w)
      BY <2>2
    <3>2. Served(t, call_result[w].outcome)
      BY <2>1, <3>1 DEF Served
    <3> QED
      BY <3>2
  <2>3. CASE \A w \in Workers : ~Executor(t, w)
    <3>1. ret[ch[t]].call = ThisCall(t) => Served(t, ret[ch[t]].outcome)
      BY <2>3 DEF Served
    <3> QED
      BY <2>3, <3>1
  <2> QED
    BY <2>2, <2>3
<1> QED
  BY <1>1, <1>2

(* A step of a pool thread executes a call or shows nothing to the callers.  *)
LEMMA PromiseWorkerStep ==
  ASSUME CallInv, CallInv', NEW w \in Workers,
         ThreadPingEventReady(w) \/ \E c \in Channels : PingFires(w, c)
  PROVE  [Promise!Next]_(Promise!vars)
<1>0. /\ pc \in [Clients -> ClientPC] /\ ch \in [Clients -> Channels]
      /\ calls \in [Clients -> Nat] /\ wpc \in [Workers -> WorkerPC]
      /\ ret \in [Channels -> Answers] /\ call_result \in [Workers -> Answers]
      /\ wch \in [Workers -> Channels]
  BY DEF CallInv, ChannelInv, TypeOK
<1>1. UNCHANGED <<clientVars, aliveVars, broker>>
  BY DEF ThreadPingEventReady, AckChannel, CaptureParams, InvokeCallback, WriteAnswer,
     PublishAck, SignalPong, PingFires
<1>2. ASSUME \A t \in Clients : CallPhase(t)' = CallPhase(t) /\ CallOutcome(t)' = CallOutcome(t)
      PROVE  UNCHANGED Promise!vars
  BY <1>1, <1>2 DEF Promise!vars
<1>3. ASSUME NEW t \in Clients, pc[t] \in Inactive
      PROVE  CallPhase(t)' = CallPhase(t) /\ CallOutcome(t)' = CallOutcome(t)
  BY <1>1, <1>3 DEF CallPhase, CallOutcome, Inactive
(* An active thread sees no change if its answer, if any, stays.             *)
<1>4. ASSUME NEW t \in Clients, pc[t] \notin Inactive,
             ret[ch[t]].call # ThisCall(t) /\ (\A v \in Workers : ~Executor(t, v))
               => ret'[ch[t]].call # ThisCall(t) /\ (\A v \in Workers : ~Executor(t, v)'),
             \A o : Served(t, o) => Served(t, o)'
      PROVE  CallPhase(t)' = CallPhase(t) /\ CallOutcome(t)' = CallOutcome(t)
  <2>1. pc'[t] \notin Inactive /\ ThisCall(t)' = ThisCall(t) /\ ch'[t] = ch[t]
    BY <1>1, <1>4 DEF ThisCall
  <2>2. CASE ret[ch[t]].call # ThisCall(t) /\ \A v \in Workers : ~Executor(t, v)
    BY <1>4, <2>1, <2>2, ViewSent, NextView
  <2>3. CASE \E o : Served(t, o)
    BY <1>4, <2>1, <2>3, ViewDone, NextView
  <2> QED
    BY <1>4, <2>2, <2>3, OneAnswer
<1>5. ASSUME UNCHANGED ret,
             \A v \in Workers : \/ wpc'[v] = wpc[v] /\ call_result'[v] = call_result[v]
                               \/ {wpc[v], wpc'[v]} \cap {"reply", "ack", "pong"} = {}
      PROVE  UNCHANGED Promise!vars
  <2>1. ASSUME NEW t \in Clients, NEW v \in Workers
        PROVE  /\ Executor(t, v)' <=> Executor(t, v)
               /\ Executor(t, v) => call_result'[v] = call_result[v]
    BY <1>1, <1>5 DEF Executor, ThisCall
  <2>2. \A t \in Clients : \A o : Served(t, o) => Served(t, o)'
    BY <1>1, <1>5, <2>1 DEF Served, ThisCall
  <2> QED
    BY <1>2, <1>3, <1>4, <1>5, <2>1, <2>2
<1>6. ASSUME NEW c \in Channels, PingFires(w, c) PROVE UNCHANGED Promise!vars
  BY <1>0, <1>5, <1>6 DEF PingFires
<1>7. CASE AckChannel(w)
  BY <1>0, <1>5, <1>7 DEF AckChannel, Finish
<1>8. CASE CaptureParams(w)
  BY <1>0, <1>5, <1>8 DEF CaptureParams
<1>9. CASE PublishAck(w)
  <2>1. /\ UNCHANGED <<ret, call_result>> /\ wpc[w] = "ack" /\ wpc' = [wpc EXCEPT ![w] = "pong"]
    BY <1>9 DEF PublishAck
  <2>2. ASSUME NEW t \in Clients, NEW v \in Workers PROVE Executor(t, v)' <=> Executor(t, v)
    BY <1>0, <1>1, <2>1 DEF Executor, ThisCall
  <2>3. \A t \in Clients : \A o : Served(t, o) => Served(t, o)'
    BY <1>1, <2>1, <2>2 DEF Served, ThisCall
  <2> QED
    BY <1>2, <1>3, <1>4, <2>1, <2>2, <2>3
<1>10. CASE SignalPong(w)
  <2>1. /\ UNCHANGED ret /\ wpc[w] = "pong"
        /\ wpc' = [wpc EXCEPT ![w] = "idle"]
        /\ \A v \in Workers \ {w} : call_result'[v] = call_result[v]
    BY <1>0, <1>10 DEF SignalPong, Finish
  <2>2. ASSUME NEW t \in Clients, NEW v \in Workers
        PROVE  Executor(t, v)' <=> Executor(t, v) /\ v # w
    BY <1>0, <1>1, <2>1 DEF Executor, ThisCall
  <2>3. ASSUME NEW t \in Clients, pc[t] \notin Inactive, Executor(t, w)
        PROVE  ret[ch[t]].call = ThisCall(t)
    <3>1. Holding(t)
      BY <1>0, <2>3 DEF CallInv, FreshCalls, Untouched, Executor, Holding, Inactive, ClientPC
    <3>2. wch[w] = ch[t]
      BY <2>3, <3>1 DEF CallInv, CallConfined, Serving, Executor
    <3> QED
      BY <2>1, <2>3, <3>2 DEF CallInv, ExecutedOnce, Executor
  <2>4. \A t \in Clients : pc[t] \notin Inactive => \A o : Served(t, o) => Served(t, o)'
    BY <1>1, <2>1, <2>2, <2>3 DEF Served, ThisCall
  <2> QED
    BY <1>2, <1>3, <1>4, <2>1, <2>2, <2>4
<1>11. CASE WriteAnswer(w)
  <2>1. /\ wpc[w] = "reply" /\ wpc' = [wpc EXCEPT ![w] = "ack"]
        /\ ret' = [ret EXCEPT ![wch[w]] = call_result[w]] /\ UNCHANGED call_result
    BY <1>11 DEF WriteAnswer
  <2>2. ASSUME NEW t \in Clients, NEW v \in Workers PROVE Executor(t, v)' <=> Executor(t, v)
    BY <1>0, <1>1, <2>1 DEF Executor, ThisCall
  <2>3. ASSUME NEW t \in Clients, pc[t] \notin Inactive
        PROVE  /\ \A o : Served(t, o) => Served(t, o)'
               /\ ~Executor(t, w) => (ret[ch[t]].call # ThisCall(t) => ret'[ch[t]].call # ThisCall(t))
    <3>1. CASE Executor(t, w)
      <4>1. Holding(t)
        BY <1>0, <2>3, <3>1 DEF CallInv, FreshCalls, Untouched, Executor, Holding, Inactive, ClientPC
      <4>2. wch[w] = ch[t] /\ call_result[w].call = ThisCall(t)
        BY <3>1, <4>1 DEF CallInv, CallConfined, Serving, Executor
      <4>3. ret'[ch[t]] = call_result[w]
        BY <1>0, <2>1, <4>2
      <4> QED
        BY <1>1, <2>1, <2>2, <3>1, <4>3 DEF Served, ThisCall
    <3>2. CASE ~Executor(t, w)
      <4>1. call_result[w].call # ThisCall(t)
        BY <2>1, <3>2 DEF Executor
      <4>2. ret'[ch[t]].call # ThisCall(t) \/ ret'[ch[t]] = ret[ch[t]]
        BY <1>0, <2>1, <4>1
      <4>3. ret[ch[t]].call = ThisCall(t) => wch[w] # ch[t]
        <5>1. SUFFICES ASSUME ret[ch[t]].call = ThisCall(t), wch[w] = ch[t] PROVE FALSE
          OBVIOUS
        <5>2. pc[t] \in {"wait", "probe", "forsake", "disown", "answered"}
          BY <1>0, <2>3, <5>1 DEF CallInv, FreshCalls, Untouched, Inactive, ClientPC
        <5>3. params[ch[t]] = ThisCall(t)
          BY <5>2 DEF CallInv, ChannelInv, CallInPlace
        <5>4. call_result[w].call = params[ch[t]]
          BY <2>1, <5>1 DEF CallInv, ChannelInv, ServerOnCall
        <5> QED
          BY <4>1, <5>3, <5>4
      <4>4. ret[ch[t]].call = ThisCall(t) => ret'[ch[t]] = ret[ch[t]]
        BY <1>0, <2>1, <4>3
      <4> QED
        BY <1>1, <2>1, <2>2, <4>2, <4>4 DEF Served, ThisCall
    <3> QED
      BY <3>1, <3>2
  <2> QED
    BY <1>2, <1>3, <1>4, <2>1, <2>2, <2>3
<1>12. CASE InvokeCallback(w)
  <2>1. wpc[w] = "invoke" /\ wpc' = [wpc EXCEPT ![w] = "reply"] /\ UNCHANGED ret
    BY <1>12 DEF InvokeCallback
  <2>2. PICK o \in Outcomes : call_result' = [call_result EXCEPT ![w].outcome = o]
    BY <1>12 DEF InvokeCallback
  <2>3. /\ call_result'[w].call = call_result[w].call /\ call_result'[w].outcome = o
        /\ \A v \in Workers \ {w} : call_result'[v] = call_result[v]
    BY <1>0, <2>2 DEF Answers
  <2>4. ASSUME NEW t \in Clients, NEW v \in Workers, v # w \/ call_result[w].call # ThisCall(t)
        PROVE  /\ Executor(t, v)' <=> Executor(t, v)
               /\ Executor(t, v) => call_result'[v] = call_result[v]
    BY <1>0, <1>1, <2>1, <2>3, <2>4 DEF Executor, ThisCall
  <2>5. ASSUME NEW t \in Clients, pc[t] \in Inactive \/ call_result[w].call # ThisCall(t)
        PROVE  CallPhase(t)' = CallPhase(t) /\ CallOutcome(t)' = CallOutcome(t)
    <3>1. CASE call_result[w].call # ThisCall(t) /\ pc[t] \notin Inactive
      <4>1. \A u : Served(t, u) => Served(t, u)'
        BY <1>1, <2>1, <2>4, <3>1 DEF Served, ThisCall
      <4> QED
        BY <1>4, <2>1, <2>4, <3>1, <4>1
    <3> QED
      BY <1>3, <2>5, <3>1
  <2>6. ASSUME NEW t \in Clients, pc[t] \notin Inactive, call_result[w].call = ThisCall(t)
        PROVE  Promise!Next
    <3>1. Holding(t)
      BY <1>0, <2>6 DEF CallInv, FreshCalls, Untouched, Holding, Inactive, ClientPC
    <3>2. Serving(w, ch[t])
      BY <2>6, <3>1 DEF CallInv, CallConfined
    <3>3. \A v \in Workers \ {w} : call_result[v].call # ThisCall(t)
      BY <1>0, <3>1, <3>2 DEF CallInv, CallConfined, ChannelInv, OneToken
    <3>4. ret[ch[t]].call # ThisCall(t)
      BY <2>1, <2>6, <3>2 DEF CallInv, ExecutedOnce, ChannelInv, ServerOnCall, Serving
    <3>5. CallPhase(t) = "sent" /\ CallOutcome(t) = "none"
      BY <2>1, <2>6, <3>3, <3>4, ViewSent DEF Executor
    <3>6. ThisCall(t)' = ThisCall(t) /\ pc'[t] \notin Inactive /\ ch'[t] = ch[t] /\ wpc'[w] = "reply"
      BY <1>0, <1>1, <2>1, <2>6 DEF ThisCall
    <3>7. Executor(t, w)' /\ \A v \in Workers \ {w} : ~Executor(t, v)'
      BY <2>3, <2>6, <3>3, <3>6 DEF Executor
    <3>8. Served(t, o)'
      BY <2>1, <2>3, <3>4, <3>6, <3>7 DEF Served
    <3>9. CallPhase(t)' = "done" /\ CallOutcome(t)' = o
      BY <3>6, <3>8, NextView
    <3>10. \A u \in Clients \ {t} : call_result[w].call # ThisCall(u)
      BY <2>6 DEF ThisCall
    <3>11. broker # "dead"
      BY <1>12 DEF InvokeCallback, Alive
    <3> QED
      BY <1>1, <2>5, <3>5, <3>9, <3>10, <3>11 DEF Promise!Next, Promise!Execute
  <2> QED
    BY <1>2, <2>5, <2>6
<1> QED
  BY <1>6, <1>7, <1>8, <1>9, <1>10, <1>11, <1>12 DEF ThreadPingEventReady

LEMMA PromiseStep ==
  ASSUME CallInv, CallInv', [Next]_vars
  PROVE  [Promise!Next]_(Promise!vars)
<1>1. ASSUME UNCHANGED <<ret, clientVars, workerVars>>
      PROVE  PromisePhase' = PromisePhase /\ PromiseOutcome' = PromiseOutcome
  BY <1>1, SameView, SameViews
<1>2. CASE Teardown \/ UnRegisterWaits \/ UNCHANGED vars
  <2>1. UNCHANGED <<ret, clientVars, workerVars>> /\ PromiseServer' = PromiseServer
    BY <1>2 DEF Teardown, UnRegisterWaits, UnregisterWait, CallbacksDone, FreeContexts, vars,
       PromiseServer
  <2> QED
    BY <1>1, <2>1 DEF Promise!vars, PromisePhase, PromiseOutcome, PromiseServer
<1>3. CASE BrokerDies
  BY <1>1, <1>3 DEF BrokerDies, Alive, Promise!Next, Promise!Die, PromisePhase, PromiseOutcome
<1>4. CASE CreatorThreadExits
  BY <1>1, <1>4 DEF CreatorThreadExits, Alive, Promise!Next, Promise!Lose, PromisePhase,
     PromiseOutcome
<1> QED
  BY <1>2, <1>3, <1>4, PromiseClientStep, PromiseWorkerStep DEF Next

(* Channels, events, pool threads, time-outs, teardown and the death of the  *)
(* broker together implement BrokeredCall: a CrossCall is executed at most   *)
(* once and before it returns, is answered with its own result, and fails    *)
(* only without space or after the sign of life of the broker was lost.      *)
THEOREM PromiseKept == Spec => KeepsPromise
<1>1. Init => Promise!Init
  BY DEF Init, Promise!Init, CallPhase, CallOutcome, NoAnswer, NoCall, Promise!NoResult
<1>2. CallInv /\ CallInv' /\ [Next]_vars => [Promise!Next]_(Promise!vars)
  BY PromiseStep
<1> QED
  BY <1>1, <1>2, CallInvariant, PTL DEF Spec, KeepsPromise, Promise!Spec
=============================================================================
