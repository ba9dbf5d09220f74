---------------------------- MODULE SharedMemIPC ----------------------------
(***************************************************************************)
(* The shared memory IPC of the Windows sandbox: the threads of a target   *)
(* process (SharedMemIPCClient and the CrossCall templates above it) call  *)
(* the broker (SharedMemIPCServer on the wait threads of Win2kThreadPool)  *)
(* through channels, each a state word, a buffer and two auto-reset        *)
(* events.  The broker's life shows to the target as a mutex that the      *)
(* broker thread which created it never releases.                          *)
(*                                                                         *)
(* The kernel's events, mutex and registered waits are modelled from how   *)
(* this code uses them.  A target process that is terminated is one whose  *)
(* threads take no more steps.                                             *)
(***************************************************************************)
EXTENDS Naturals

CONSTANTS
  Clients,       \* threads of the target process that make calls
  Workers,       \* threads of the broker's thread pool
  NChannels,     \* IPCControl::channels_count
  MaxCalls,      \* bound: calls one client thread makes
  ParamsFit,     \* TRUE when every call's parameters fit in a channel buffer
  CreatorExits   \* TRUE when the thread that created g_alive_mutex may end
                 \* while the broker process runs on

ASSUME ChannelsAssumption == NChannels \in Nat \ {0}
ASSUME CallsAssumption == MaxCalls \in Nat
ASSUME SwitchAssumption == ParamsFit \in BOOLEAN /\ CreatorExits \in BOOLEAN
ASSUME NamesAssumption == {"broker", "abandoned", "none"} \cap Clients = {}

Channels == 1..NChannels

(* ChannelState *)
kFreeChannel == "free"
kBusyChannel == "busy"
kAckChannel == "ack"
kAbandonedChannel == "abandoned"
ChannelStates == {kFreeChannel, kBusyChannel, kAckChannel, kAbandonedChannel}

(* What InvokeCallback leaves in CrossCallReturn::call_outcome: the handler  *)
(* accepted, the handler refused, or nothing could be dispatched.            *)
Outcomes == {"ALL_OK", "FAILED_IPC", "INVALID_IPC"}
Results == Outcomes \union {"none", "NO_SPACE", "CHANNEL_ERROR", "BAD_PARAMS"}

(* A call is named by its thread and its number; an answer carries the call  *)
(* whose parameters it was computed from.                                    *)
Calls == (Clients \union {"none"}) \X Nat
Answers == [call : Calls, outcome : Results]

VARIABLES
  state,         \* ChannelControl::state
  ping,          \* the ping event of a channel is signaled
  pong,          \* the pong event of a channel is signaled
  params,        \* the call whose parameters lie in the channel buffer
  ret,           \* the CrossCallReturn in the channel buffer
  server_alive,  \* control_->server_alive is not zero
  alive_mutex,   \* owner of g_alive_mutex: "broker", a client, or "abandoned"
  pc,            \* where a client thread is
  ch,            \* the channel a client thread scans or holds
  calls,         \* calls begun by a client thread
  answer,        \* the last result a client thread got
  wpc,           \* where a pool thread is
  wch,           \* the channel whose callback a pool thread runs
  call_result,   \* its local CrossCallReturn, with the call it has captured
  broker,        \* "up", "closing", "gone" or "leaked" contexts, or "dead"
  armed,         \* channels whose registered wait may still fire
  it             \* the entry of pool_objects_ UnRegisterWaits has reached

memVars == <<params, ret>>
clientVars == <<pc, ch, calls, answer>>
workerVars == <<wpc, wch, call_result>>
brokerVars == <<broker, armed, it>>
aliveVars == <<server_alive, alive_mutex>>
eventVars == <<ping, pong>>
channelVars == <<state, eventVars, memVars>>
serverVars == <<workerVars, brokerVars>>
vars == <<channelVars, aliveVars, clientVars, serverVars>>

ClientPC == {"idle", "scan", "backoff", "fill", "docall", "signal", "wait",
             "probe", "forsake", "disown", "answered", "free", "exited"}
WorkerPC == {"idle", "entered", "capture", "invoke", "reply", "ack", "pong"}

TypeOK ==
  /\ state \in [Channels -> ChannelStates]
  /\ ping \in [Channels -> BOOLEAN]
  /\ pong \in [Channels -> BOOLEAN]
  /\ params \in [Channels -> Calls]
  /\ ret \in [Channels -> Answers]
  /\ server_alive \in BOOLEAN
  /\ alive_mutex \in {"broker", "abandoned"} \union Clients
  /\ pc \in [Clients -> ClientPC]
  /\ ch \in [Clients -> Channels]
  /\ calls \in [Clients -> Nat]
  /\ answer \in [Clients -> Answers]
  /\ wpc \in [Workers -> WorkerPC]
  /\ wch \in [Workers -> Channels]
  /\ call_result \in [Workers -> Answers]
  /\ broker \in {"up", "closing", "gone", "leaked", "dead"}
  /\ armed \in SUBSET Channels
  /\ it \in 1..(NChannels + 1)

(* A target is resumed only after SharedMemIPCServer::Init has made every    *)
(* channel, registered its ping event and published channels_count.          *)
NoCall == <<"none", 0>>
NoAnswer == [call |-> NoCall, outcome |-> "none"]

Init ==
  /\ state = [c \in Channels |-> kFreeChannel]
  /\ ping = [c \in Channels |-> FALSE]
  /\ pong = [c \in Channels |-> FALSE]
  /\ params = [c \in Channels |-> NoCall]
  /\ ret = [c \in Channels |-> NoAnswer]
  /\ server_alive = TRUE
  /\ alive_mutex = "broker"
  /\ pc = [t \in Clients |-> "idle"]
  /\ ch = [t \in Clients |-> 1]
  /\ calls = [t \in Clients |-> 0]
  /\ answer = [t \in Clients |-> NoAnswer]
  /\ wpc = [w \in Workers |-> "idle"]
  /\ wch = [w \in Workers |-> 1]
  /\ call_result = [w \in Workers |-> NoAnswer]
  /\ broker = "up"
  /\ armed = Channels
  /\ it = 1

-----------------------------------------------------------------------------
(* The client: SharedMemIPCClient under the CrossCall templates.             *)

Goto(t, label) == pc' = [pc EXCEPT ![t] = label]

Return(t, outcome) ==
  /\ answer' = [answer EXCEPT ![t] = [call |-> <<t, calls[t]>>,
                                      outcome |-> outcome]]
  /\ Goto(t, "idle")

GetBuffer(t) ==
  /\ pc[t] = "idle"
  /\ calls[t] < MaxCalls
  /\ calls' = [calls EXCEPT ![t] = @ + 1]
  /\ ch' = [ch EXCEPT ![t] = 1]
  /\ Goto(t, "scan")
  /\ UNCHANGED <<channelVars, aliveVars, answer, serverVars>>

(* Mutant: the state is set without the compare.                             *)
LockChannelBlindly(t) ==
  /\ pc[t] = "scan"
  /\ state' = [state EXCEPT ![ch[t]] = kBusyChannel]
  /\ Goto(t, "fill")
  /\ UNCHANGED <<eventVars, memVars, aliveVars, ch, calls, answer, serverVars>>

(* One InterlockedCompareExchange of the scan in LockFreeChannel.            *)
LockChannel(t) ==
  /\ pc[t] = "scan"
  /\ state[ch[t]] = kFreeChannel
  /\ state' = [state EXCEPT ![ch[t]] = kBusyChannel]
  /\ Goto(t, "fill")
  /\ UNCHANGED <<eventVars, memVars, aliveVars, ch, calls, answer, serverVars>>

SkipChannel(t) ==
  /\ pc[t] = "scan"
  /\ state[ch[t]] # kFreeChannel
  /\ IF ch[t] < NChannels
       THEN ch' = [ch EXCEPT ![t] = @ + 1] /\ pc' = pc
       ELSE ch' = [ch EXCEPT ![t] = 1] /\ Goto(t, "backoff")
  /\ UNCHANGED <<channelVars, aliveVars, calls, answer, serverVars>>

(* WaitForSingleObject(server_alive): it times out while another thread owns *)
(* the mutex, takes an abandoned one, and fails on a zero handle.            *)
AliveTimesOut(t) == server_alive /\ alive_mutex \notin {"abandoned", t}
AliveTaken(t) == IF server_alive THEN t ELSE alive_mutex

BackOff(t) ==
  /\ pc[t] = "backoff"
  /\ AliveTimesOut(t)
  /\ Goto(t, "scan")
  /\ UNCHANGED <<channelVars, aliveVars, ch, calls, answer, serverVars>>

SevereFailure(t) ==
  /\ pc[t] = "backoff"
  /\ ~AliveTimesOut(t)
  /\ alive_mutex' = AliveTaken(t)
  /\ Return(t, "NO_SPACE")
  /\ UNCHANGED <<channelVars, server_alive, ch, calls, serverVars>>

(* XCALL_GEN_COPY_PARAM.  ActualCallParams leaves the old CrossCallReturn in *)
(* the buffer.  A parameter that does not fit ends the call at once.         *)
CopyParamIn(t) ==
  /\ pc[t] = "fill"
  /\ params' = [params EXCEPT ![ch[t]] = <<t, calls[t]>>]
  /\ Goto(t, "docall")
  /\ UNCHANGED <<state, eventVars, ret, aliveVars, ch, calls, answer,
                 serverVars>>

CopyParamFails(t) ==
  /\ pc[t] = "fill"
  /\ ~ParamsFit
  /\ Return(t, "NO_SPACE")
  /\ UNCHANGED <<channelVars, aliveVars, ch, calls, serverVars>>

(* DoCall up to SignalObjectAndWait; with a zero server_alive the channel    *)
(* stays busy.                                                               *)
DoCall(t) ==
  /\ pc[t] = "docall"
  /\ \/ /\ server_alive
        /\ Goto(t, "signal")
        /\ UNCHANGED answer
     \/ /\ ~server_alive
        /\ Return(t, "CHANNEL_ERROR")
  /\ UNCHANGED <<channelVars, aliveVars, ch, calls, serverVars>>

SignalPing(t) ==
  /\ pc[t] = "signal"
  /\ ping' = [ping EXCEPT ![ch[t]] = TRUE]
  /\ Goto(t, "wait")
  /\ UNCHANGED <<state, pong, memVars, aliveVars, ch, calls, answer,
                 serverVars>>

AwaitPong(t) ==
  /\ pc[t] = "wait"
  /\ pong[ch[t]]
  /\ pong' = [pong EXCEPT ![ch[t]] = FALSE]
  /\ Goto(t, "answered")
  /\ UNCHANGED <<state, ping, memVars, aliveVars, ch, calls, answer,
                 serverVars>>

(* Mutant: a timed out wait counts as an answer.                             *)
PongTimeoutIgnored(t) ==
  /\ pc[t] = "wait"
  /\ ~pong[ch[t]]
  /\ Goto(t, "answered")
  /\ UNCHANGED <<channelVars, aliveVars, ch, calls, answer, serverVars>>

(* kIPCWaitTimeOut1 expires.                                                 *)
PongTimesOut(t) ==
  /\ pc[t] = "wait"
  /\ ~pong[ch[t]]
  /\ Goto(t, "probe")
  /\ UNCHANGED <<channelVars, aliveVars, ch, calls, answer, serverVars>>

ServerSeemsAlive(t) ==
  /\ pc[t] = "probe"
  /\ AliveTimesOut(t)
  /\ Goto(t, "wait")
  /\ UNCHANGED <<channelVars, aliveVars, ch, calls, answer, serverVars>>

ServerCrashed(t) ==
  /\ pc[t] = "probe"
  /\ ~AliveTimesOut(t)
  /\ alive_mutex' = AliveTaken(t)
  /\ Goto(t, "forsake")
  /\ UNCHANGED <<channelVars, server_alive, ch, calls, answer, serverVars>>

(* Mutant: the channel of a crashed call is given back.                      *)
AbandonChannelAsFree(t) ==
  /\ pc[t] = "forsake"
  /\ state' = [state EXCEPT ![ch[t]] = kFreeChannel]
  /\ Goto(t, "disown")
  /\ UNCHANGED <<eventVars, memVars, aliveVars, ch, calls, answer, serverVars>>

AbandonChannel(t) ==
  /\ pc[t] = "forsake"
  /\ state' = [state EXCEPT ![ch[t]] = kAbandonedChannel]
  /\ Goto(t, "disown")
  /\ UNCHANGED <<eventVars, memVars, aliveVars, ch, calls, answer, serverVars>>

(* Mutant: the other threads are not told.                                   *)
ZeroServerAliveForgotten(t) ==
  /\ pc[t] = "disown"
  /\ Return(t, "CHANNEL_ERROR")
  /\ UNCHANGED <<channelVars, aliveVars, ch, calls, serverVars>>

ZeroServerAlive(t) ==
  /\ pc[t] = "disown"
  /\ server_alive' = FALSE
  /\ Return(t, "CHANNEL_ERROR")
  /\ UNCHANGED <<channelVars, alive_mutex, ch, calls, serverVars>>

(* Mutant: a failed write back returns without FreeBuffer.                   *)
ReadAnswerBadParamsLeaks(t) ==
  /\ pc[t] = "answered"
  /\ \/ answer' = [answer EXCEPT ![t] = ret[ch[t]]] /\ Goto(t, "free")
     \/ Return(t, "BAD_PARAMS")
  /\ UNCHANGED <<channelVars, aliveVars, ch, calls, serverVars>>

(* The answer is copied out of the channel; XCALL_GEN_UPDATE_PARAM may then  *)
(* fail to write an in/out parameter back.                                   *)
ReadAnswer(t) ==
  /\ pc[t] = "answered"
  /\ \E outcome \in {ret[ch[t]].outcome, "BAD_PARAMS"} :
       answer' = [answer EXCEPT ![t] = [ret[ch[t]] EXCEPT !.outcome = outcome]]
  /\ Goto(t, "free")
  /\ UNCHANGED <<channelVars, aliveVars, ch, calls, serverVars>>

(* Mutant: only a busy channel is freed.                                     *)
FreeBufferIfBusy(t) ==
  /\ pc[t] = "free"
  /\ state' = [state EXCEPT ![ch[t]] = IF @ = kBusyChannel THEN kFreeChannel
                                                          ELSE @]
  /\ Goto(t, "idle")
  /\ UNCHANGED <<eventVars, memVars, aliveVars, ch, calls, answer, serverVars>>

FreeBuffer(t) ==
  /\ pc[t] = "free"
  /\ state' = [state EXCEPT ![ch[t]] = kFreeChannel]
  /\ Goto(t, "idle")
  /\ UNCHANGED <<eventVars, memVars, aliveVars, ch, calls, answer, serverVars>>

(* A target thread ends between calls; a mutex it owns becomes abandoned.    *)
ThreadExit(t) ==
  /\ pc[t] = "idle"
  /\ Goto(t, "exited")
  /\ alive_mutex' = IF alive_mutex = t THEN "abandoned" ELSE alive_mutex
  /\ UNCHANGED <<channelVars, server_alive, ch, calls, answer, serverVars>>

-----------------------------------------------------------------------------
(* The broker: ThreadPingEventReady on the pool threads.                     *)

Alive == broker # "dead"

(* The callback returns and its locals are gone.                             *)
Finish(w) ==
  /\ wpc' = [wpc EXCEPT ![w] = "idle"]
  /\ wch' = [wch EXCEPT ![w] = 1]
  /\ call_result' = [call_result EXCEPT ![w] = NoAnswer]

(* The registered wait consumes the ping event and queues the callback.      *)
PingFires(w, c) ==
  /\ Alive
  /\ wpc[w] = "idle"
  /\ c \in armed
  /\ ping[c]
  /\ ping' = [ping EXCEPT ![c] = FALSE]
  /\ wch' = [wch EXCEPT ![w] = c]
  /\ wpc' = [wpc EXCEPT ![w] = "entered"]
  /\ UNCHANGED <<state, pong, memVars, aliveVars, clientVars, call_result,
                 brokerVars>>

(* Busy becomes Ack, or the callback returns (after a DCHECK).               *)
AckChannel(w) ==
  /\ Alive
  /\ wpc[w] = "entered"
  /\ \/ /\ state[wch[w]] = kBusyChannel
        /\ state' = [state EXCEPT ![wch[w]] = kAckChannel]
        /\ wpc' = [wpc EXCEPT ![w] = "capture"]
        /\ UNCHANGED <<wch, call_result>>
     \/ /\ state[wch[w]] # kBusyChannel
        /\ Finish(w)
        /\ UNCHANGED state
  /\ UNCHANGED <<eventVars, memVars, aliveVars, clientVars, brokerVars>>

(* InvokeCallback works on a copy of the buffer.                             *)
CaptureParams(w) ==
  /\ Alive
  /\ wpc[w] = "capture"
  /\ call_result' = [call_result EXCEPT ![w].call = params[wch[w]]]
  /\ wpc' = [wpc EXCEPT ![w] = "invoke"]
  /\ UNCHANGED <<channelVars, aliveVars, clientVars, wch, brokerVars>>

InvokeCallback(w) ==
  /\ Alive
  /\ wpc[w] = "invoke"
  /\ \E outcome \in Outcomes :
       call_result' = [call_result EXCEPT ![w].outcome = outcome]
  /\ wpc' = [wpc EXCEPT ![w] = "reply"]
  /\ UNCHANGED <<channelVars, aliveVars, clientVars, wch, brokerVars>>

(* Mutant: the answer stays in the local CrossCallReturn.                    *)
WriteAnswerForgotten(w) ==
  /\ Alive
  /\ wpc[w] = "reply"
  /\ wpc' = [wpc EXCEPT ![w] = "ack"]
  /\ UNCHANGED <<channelVars, aliveVars, clientVars, wch, call_result,
                 brokerVars>>

WriteAnswer(w) ==
  /\ Alive
  /\ wpc[w] = "reply"
  /\ ret' = [ret EXCEPT ![wch[w]] = call_result[w]]
  /\ wpc' = [wpc EXCEPT ![w] = "ack"]
  /\ UNCHANGED <<state, eventVars, params, aliveVars, clientVars, wch,
                 call_result, brokerVars>>

PublishAck(w) ==
  /\ Alive
  /\ wpc[w] = "ack"
  /\ state' = [state EXCEPT ![wch[w]] = kAckChannel]
  /\ wpc' = [wpc EXCEPT ![w] = "pong"]
  /\ UNCHANGED <<eventVars, memVars, aliveVars, clientVars, wch, call_result,
                 brokerVars>>

SignalPong(w) ==
  /\ Alive
  /\ wpc[w] = "pong"
  /\ pong' = [pong EXCEPT ![wch[w]] = TRUE]
  /\ Finish(w)
  /\ UNCHANGED <<state, ping, memVars, aliveVars, clientVars, brokerVars>>

-----------------------------------------------------------------------------
(* The broker's end of life.                                                 *)

AbandonMutex == IF alive_mutex = "broker" THEN "abandoned" ELSE alive_mutex

(* The broker process ends: its threads stop where they are and the kernel   *)
(* marks the mutex abandoned.                                                *)
BrokerDies ==
  /\ Alive
  /\ broker' = "dead"
  /\ alive_mutex' = AbandonMutex
  /\ UNCHANGED <<channelVars, server_alive, clientVars, workerVars, armed, it>>

CreatorThreadExits ==
  /\ Alive
  /\ CreatorExits
  /\ alive_mutex = "broker"
  /\ alive_mutex' = "abandoned"
  /\ UNCHANGED <<channelVars, server_alive, clientVars, serverVars>>

(* ~SharedMemIPCServer calls UnRegisterWaits, which erases every entry of    *)
(* this server and waits in UnregisterWaitEx until no callback runs on it.   *)
Teardown ==
  /\ broker = "up"
  /\ broker' = "closing"
  /\ UNCHANGED <<channelVars, aliveVars, clientVars, workerVars, armed, it>>

UnregisterWait ==
  /\ broker = "closing"
  /\ it \in armed
  /\ \/ armed' = armed \ {it} /\ it' = it
     \/ armed' = armed /\ it' = it + 1
  /\ UNCHANGED <<channelVars, aliveVars, clientVars, workerVars, broker>>

(* Mutant: UnregisterWaitEx does not wait for the callbacks.                 *)
CallbacksNotAwaited ==
  /\ broker = "closing"
  /\ it \in Channels \ armed
  /\ it' = it + 1
  /\ UNCHANGED <<channelVars, aliveVars, clientVars, workerVars, broker, armed>>

CallbacksDone ==
  /\ broker = "closing"
  /\ it \in Channels \ armed
  /\ \A w \in Workers : wpc[w] # "idle" => wch[w] # it
  /\ it' = it + 1
  /\ UNCHANGED <<channelVars, aliveVars, clientVars, workerVars, broker, armed>>

(* The contexts are freed only if every wait was unregistered.               *)
FreeContexts ==
  /\ broker = "closing"
  /\ it \notin Channels
  /\ broker' = IF armed = {} THEN "gone" ELSE "leaked"
  /\ UNCHANGED <<channelVars, aliveVars, clientVars, workerVars, armed, it>>

-----------------------------------------------------------------------------
ClientCall(t) ==
  \/ LockChannel(t) \/ SkipChannel(t) \/ BackOff(t) \/ SevereFailure(t)
  \/ CopyParamIn(t) \/ CopyParamFails(t)
  \/ DoCall(t) \/ SignalPing(t) \/ AwaitPong(t) \/ PongTimesOut(t)
  \/ ServerSeemsAlive(t) \/ ServerCrashed(t) \/ AbandonChannel(t)
  \/ ZeroServerAlive(t) \/ ReadAnswer(t) \/ FreeBuffer(t)

ThreadPingEventReady(w) ==
  \/ AckChannel(w) \/ CaptureParams(w) \/ InvokeCallback(w) \/ WriteAnswer(w)
  \/ PublishAck(w) \/ SignalPong(w)

UnRegisterWaits == UnregisterWait \/ CallbacksDone \/ FreeContexts

Next ==
  \/ \E t \in Clients : GetBuffer(t) \/ ClientCall(t) \/ ThreadExit(t)
  \/ \E w \in Workers, c \in Channels : PingFires(w, c)
  \/ \E w \in Workers : ThreadPingEventReady(w)
  \/ BrokerDies \/ CreatorThreadExits \/ Teardown \/ UnRegisterWaits

Spec == Init /\ [][Next]_vars

(* Threads that can run do run, the pool serves a signaled ping, and the     *)
(* handlers return: crosscall_server.h asks callbacks not to block.          *)
Fairness ==
  /\ \A t \in Clients : WF_vars(ClientCall(t))
  /\ \A w \in Workers : WF_vars(ThreadPingEventReady(w))
  /\ \A c \in Channels : WF_vars(\E w \in Workers : PingFires(w, c))
  /\ WF_vars(UnRegisterWaits)

FairSpec == Spec /\ Fairness

-----------------------------------------------------------------------------
Serving(w, c) == wpc[w] # "idle" /\ wch[w] = c
Holding(t) ==
  pc[t] \in {"fill", "docall", "signal", "wait", "probe", "forsake", "disown",
             "answered", "free"}
Waiting(t) == pc[t] \in {"wait", "probe", "forsake", "disown"}

(* A channel is held by at most one client thread, and a held channel is not *)
(* free for another scan: the compare-and-swap of LockFreeChannel, the two   *)
(* state writes of ThreadPingEventReady and the exchange of FreeBuffer leave *)
(* the state word an exclusive lock.                                         *)
ExclusiveChannel ==
  \A t \in Clients : Holding(t) =>
    /\ state[ch[t]] # kFreeChannel
    /\ \A u \in Clients \ {t} : Holding(u) => ch[u] # ch[t]

(* A free channel is quiet: no ping waiting to fire, no pong left over and   *)
(* no pool thread at work, so the next call cannot meet an earlier one.      *)
QuietWhenFree ==
  \A c \in Channels : state[c] = kFreeChannel =>
    ~ping[c] /\ ~pong[c] /\ \A w \in Workers : ~Serving(w, c)

(* At most one of: a signaled ping, a running callback, a signaled pong.     *)
OneToken ==
  \A c \in Channels :
    /\ ~(ping[c] /\ pong[c])
    /\ \A w \in Workers : Serving(w, c) =>
         /\ ~ping[c] /\ ~pong[c]
         /\ \A v \in Workers \ {w} : ~Serving(v, c)

(* What DoCall copies out of the channel is the answer to this very call,    *)
(* not one left in the buffer by an earlier or an abandoned call.            *)
AnswerIsForThisCall ==
  \A t \in Clients : pc[t] \in {"answered", "free"} =>
    /\ ret[ch[t]].call = <<t, calls[t]>>
    /\ ret[ch[t]].outcome \in Outcomes
    /\ pc[t] = "free" => answer[t].call = <<t, calls[t]>>

(* When ~SharedMemIPCServer clears server_contexts_, no callback is using    *)
(* one and none can start.                                                   *)
ContextsOutliveCallbacks ==
  broker = "gone" => armed = {} /\ \A w \in Workers : wpc[w] = "idle"

(* ThreadPingEventReady: "Since the event fired, the channel *must* be       *)
(* busy."                                                                    *)
PingMeansBusy ==
  Alive => \A w \in Workers :
             wpc[w] = "entered" => state[wch[w]] = kBusyChannel

(* A thread gives its call up as a server crash only when the broker died.   *)
AbandonedMeansDead ==
  \A t \in Clients : pc[t] = "forsake" => broker = "dead"

(* Once no client is inside a call, every channel can be locked again,       *)
(* unless the broker died: a call that ends early gives its channel back.    *)
NoChannelLost ==
  broker = "up" /\ (\A t \in Clients : pc[t] \in {"idle", "exited"})
    => \A c \in Channels : state[c] = kFreeChannel

(* A channel is accounted for at every step of a call: one wake-up or one    *)
(* callback is under way on it, the callback that starts finds it busy       *)
(* (sharedmem_ipc_server.cc:378), it is given up only for a broker that died *)
(* and it comes back however the call ends (crosscall_client.h:302).         *)
ChannelsAccountedFor ==
  OneToken /\ PingMeansBusy /\ AbandonedMeansDead /\ NoChannelLost

(* The answer in a channel does not change under a client that reads it.     *)
AnswerStable ==
  [][\A t \in Clients :
       pc[t] = "answered" => ret'[ch[t]] = ret[ch[t]]]_vars

(* A call that reached the broker ends, also when the broker dies under it:  *)
(* either the pong arrives or the abandoned mutex is noticed.                *)
DoCallEnds ==
  \A t \in Clients :
    pc[t] = "wait" ~> (pc[t] \in {"idle", "exited"}
                         \/ broker \in {"closing", "gone", "leaked"})

(* While the broker is up and no call fails for want of space, a thread that *)
(* spins in LockFreeChannel gets a channel once the threads that hold one    *)
(* have made their calls: no channel stays locked.                           *)
GetBufferEnds ==
  [](broker = "up" /\ \A t \in Clients : answer[t].outcome # "NO_SPACE")
    => \A t \in Clients : pc[t] = "scan" ~> pc[t] = "fill"

-----------------------------------------------------------------------------
(* The promise of BrokeredCall, seen from a calling thread.                  *)

ThisCall(t) == <<t, calls[t]>>
Executor(t, w) ==
  wpc[w] \in {"reply", "ack", "pong"} /\ call_result[w].call = ThisCall(t)

CallPhase(t) ==
  IF pc[t] \in {"idle", "exited", "free"} THEN "idle"
  ELSE IF ret[ch[t]].call = ThisCall(t) \/ \E w \in Workers : Executor(t, w)
  THEN "done" ELSE "sent"

CallOutcome(t) ==
  IF CallPhase(t) # "done" THEN "none"
  ELSE IF ret[ch[t]].call = ThisCall(t) THEN ret[ch[t]].outcome
  ELSE call_result[CHOOSE w \in Workers : Executor(t, w)].outcome

Promise == INSTANCE BrokeredCall WITH
  phase <- [t \in Clients |-> CallPhase(t)],
  number <- calls,
  outcome <- [t \in Clients |-> CallOutcome(t)],
  result <- answer,
  server <- IF broker = "dead" THEN "dead"
            ELSE IF alive_mutex = "broker" THEN "up" ELSE "lost"

(* The channels, events and pool threads together keep the promise of a      *)
(* CrossCall: executed at most once, answered with its own result, failed    *)
(* only when the broker seems dead.                                          *)
KeepsPromise == Promise!Spec
=============================================================================
