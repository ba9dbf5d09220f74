# A TLA+ verification project for crsio2

crsio2 packages Chromium's process sandbox: a C/C++/Rust API (`src/api`) over
`src/chromium/sandbox`, with a copy of Chromium's `base` library beneath it.
This directory holds TLA+ models of the sandbox's own logic, the TLC
configurations that check them on small instances, and proofs that TLAPS
checks for every value of the constants. `W/` below stands for
`src/chromium/sandbox/win/src/` and `L/` for `src/chromium/sandbox/linux/`.

## 1. Inventory

The repository is large because `base` is vendored whole. The program's own
logic is a *broker* process that starts *target* processes with few rights and
answers their requests, once for Windows (the largest part and the only one the
C and Rust API exposes), once for Linux, once for the Mac.

### Windows

| component | state it keeps | operations | works with | hard behaviour | correct when |
|---|---|---|---|---|---|
| Brokered calls: `sharedmem_ipc_client.cc`, `sharedmem_ipc_server.cc`, `crosscall_client.h` | per channel a state word, a buffer, a ping and a pong event; the mutex `g_alive_mutex` and the word `server_alive` | `GetBuffer`, `LockFreeChannel`, `DoCall`, `FreeBuffer`; `Init`, `ThreadPingEventReady`, `InvokeCallback`, the destructor | target threads write shared memory, pool threads of the broker answer in it | contention for channels, one second timeouts that race late answers, a broker that dies, reused buffers and events, teardown against running callbacks | a call gets its own answer, at most one execution per call, channels are exclusive and not lost, a crash is noticed and only a crash is |
| Thread pool: `win2k_threadpool.cc` | registered waits with their owner | `RegisterWait`, `UnRegisterWaits` | IPC servers of all targets | unregistering waits for callbacks | contexts outlive callbacks |
| Broker services: `broker_services.cc` | `tracker_list_`, `child_process_ids_`, event `no_targets_`, the completion port, two counters local to the worker thread | `SpawnTarget`, `WaitForAllTargets`, `IsActiveTarget`, `TargetEventsThread`, constructor, destructor | caller thread, worker thread and the kernel's job notifications; calls `PolicyBase` | two threads and a queue of notifications; ids and handles that are used again; shutdown with a timeout | counters never drift, the event means what `WaitForAllTargets` takes it to mean, trackers are alive when used, targets are released |
| Policy object: `sandbox_policy_base.cc` | `targets_`, reference count, configuration | `AddTarget`, `OnJobEmpty`, `AddRef`, `Release`, setters, `MakeTokens` | broker services, target processes | search by a job handle that is already closed | the right target is deleted, at the right time |
| Target process object: `target_process.cc`; job: `job.cc` | handles, shared section, IPC server | `Create`, `Init`, `TransferVariable`, `Terminate`, destructor | policy, thread pool | failure half way | process, section and server go together |
| Cross call parameters: `crosscall_server.cc`, `crosscall_params.h` | none | `CreateFromBuffer`, `GetRawParameter` | IPC server | the target writes while the broker reads; 32 bit sizes | what is checked is what is used |
| Policy engine: `policy_low_level.cc`, `policy_engine_opcodes.cc`, `policy_engine_processor.cc` | a buffer of opcodes and strings | `AddStringMatch`, `AddNumberMatch`, `Done`, `Evaluate` | policy generators write it, broker and target evaluate it | compiled patterns, shared space, positions | the compiled rule accepts what the pattern says |
| Policy generators and dispatchers (`*_policy.cc`, `*_dispatcher.cc`) | none beyond the policy buffer | one handler per call | policy engine, kernel | few | access as the rules say |
| Target services: `target_services.cc` | `ProcessState`, `g_shared_*` | `Init`, `LowerToken`, `GetState` | loader, handle closer | order of irreversible steps | no step after the token is lowered needs it |
| Interception: `interception.cc`, `interception_agent.cc`, resolvers | list of functions to patch, per DLL | `AddToPatchedFunctions`, `InitializeInterceptions`, `OnDllLoad` | target process memory | size computed in one pass, filled in another | config fits, each DLL patched once |
| Handle closer: `handle_closer*.cc` | map from type to names | `AddHandle`, `InitializeTargetHandles`, `CloseHandles` | target process memory | layout; no handle left | listed handles are closed |
| Tokens, ACLs, mitigations, NT utilities | none | straight sequences of system calls | kernel | none of their own | (outside this repository) |

### Linux

| component | state it keeps | operations | hard behaviour | correct when |
|---|---|---|---|---|
| Syscall broker: `L/syscall_broker/` | a socket pair, a policy, a child process | `BrokerClient::Open`, `Access`; `BrokerHost::HandleRequest`; `BrokerProcess::Init` | many client threads, a reply socket per request, peers that are lost | a remote call answers as the local one would under the policy; no caller hangs on a dead broker |
| Process services: `L/services/` thread helpers, scoped process, init reaper, namespace sandbox | child pids, synchronisation pipes | start, wait, stop | `/proc` lags behind joined threads, pipe reads that find nothing, signals before handlers | bounded waits end; exit codes are passed on |
| Credentials, namespaces, limits, yama, setuid helper | none | sequences of system calls | none (each failure is fatal) | (kernel semantics) |
| Seccomp BPF: `L/seccomp-bpf/` | trap array, whether a filter is installed | `Trap::Add`, `SigSys`, `StartSandbox` | a signal handler reads an array that grows | a handler finds the trap it was given |
| Policy language: `L/bpf_dsl/` | a program under construction | `Compile`, `FindRanges`, `AssembleJumpTable`, `SyscallSet` | limits of 32 bits and of jump offsets | the program returns the policy's result for every number |

### Mac, bindings, the rest

The Mac sandbox (`src/chromium/sandbox/mac`) keeps two maps under a lock: tokens
of children that have not checked in and the processes that have; its hard part
is a check in whose reply is lost. The C and Rust bindings forward calls and
convert results. `src/main.cc` is empty; `sandbox_poc`, `tests` and `tools` are
samples and test drivers; `base` is a vendored library.

`PROJECT.json` lists every component with its status and every hazard at its
line, with the property that would catch it.

## 2. Plan

Order: first what a caller of the API depends on at every call (brokered
calls), then what keeps the broker's books (broker services), each with its
proofs; then the parts in which a wrong answer would be silent.

| # | modules | what | abstract specification or reference | theorems |
|---|---|---|---|---|
| 1 | `SharedMemIPC`, `BrokeredCall`, `SharedMemIPC_proofs` | channels, events, server, death and teardown | `BrokeredCall`: at most one execution, own answer | all its safety properties and the refinement |
| 2 | `BrokerServices`, `BrokerServices_proofs` | spawn, worker, event, trackers, policy references, destructor | | all its safety properties |
| 3 | `SyscallBroker`, `RemoteSyscall`, `SyscallBroker_proofs` | client threads, host, reply sockets, forks, loss of either side | `RemoteSyscall`: a local `open` or `access` filtered by the policy, or `-ENOMEM` | `TypeOK`, `NoDescriptorLeft`, the refinement |
| 4 | `PolicyEngine`, `PolicyStore`, `Policy_proofs` | opcodes of a rule and their evaluation; packing of all rules | `Matches` and `Expected`: what the rules say | `EngineInv`, `FirstMatchWins`, `QuestionMarkNeverStricter`, `StoreInv` |
| 5 | `CrossCallParams`, `CrossCallParams_proofs` | the copy and the checks of a message, with a writer | "a checked copy": `ParametersInBounds` | all its properties, `LayoutStable` |
| 6 | `CodeGen`, `PolicyCompiler`, `Seccomp_proofs`, `PolicyCompiler_proofs` | from a policy to a filter | `Meaning` of requests, `Promised` results | `AssemblerInv`, `CompilerInv` |
| 7 | `TrapRegistry`, `TrapIds`, in `Seccomp_proofs` | array of traps against `SIGSYS` | `TrapIds`: identifiers are stable | all its properties |
| 8 | `SandboxEntry`, in `ProcessServices_proofs` | threads, `/proc`, capabilities, root, filters | | all its safety properties |
| 9 | `ScopedProcess`, `InitReaper`, `ProcessServices_proofs` | scoped child, init process | | all their safety properties |
| 10 | `BootstrapSandbox`, in `ProcessServices_proofs` | check-in and interception on the Mac | `ReachesLaunchd` | all its safety properties |

All ten are modelled and model-checked.

Compositions: `SharedMemIPC` is one target's channels and `BrokerServices` many
targets whose objects own them. What couples them is small (the destructor of a
`TargetProcess` tears its server down while the thread pool must still be
there), and each side states its half: `ContextsOutliveCallbacks` in the first,
`DeletedInTime` in the second. `CrossCallParams`
is the inside of the steps `CopyParamIn`, `CaptureParams` and `InvokeCallback`
of `SharedMemIPC`. `PolicyCompiler` extends `CodeGen` and takes its identifiers
from `TrapIds`, which `TrapRegistry` implements. `SandboxEntry` composes
threads, credentials and filters, which no single file shows together.

Modules are written to be proved about: constants with named assumptions, one
action per atomic step of the code, recursive functions and no `RECURSIVE`
operator.

Several of the smaller parts share a run: its module extends them all, and a
variable `part`, chosen at the start, says whose execution it is. The steps of
a part leave the variables of the others alone, so that the run checks each of
them exactly as a run of its own would.

## 3. `SharedMemIPC`: brokered calls

A target thread makes a call like this: `LockFreeChannel` scans the channels and
takes a free one with a compare-and-swap (`LockChannel`, `SkipChannel`), after a
full scan waits half a second on the alive mutex (`BackOff`, `SevereFailure`);
`CrossCall` packs parameters into the channel buffer (`CopyParamIn`,
`CopyParamFails`); `DoCall` signals ping and waits for pong (`DoCall`,
`SignalPing`, `AwaitPong`); every second without an answer it probes the mutex
(`PongTimesOut`, then `ServerSeemsAlive` or `ServerCrashed`) and, if the mutex
is abandoned, gives the channel and the broker up (`AbandonChannel`,
`ZeroServerAlive`). The answer is copied, in/out parameters written back
(`ReadAnswer`) and the channel freed (`FreeBuffer`).

In the broker, a registered wait consumes the ping event and starts
`ThreadPingEventReady` on a pool thread (`PingFires`), which marks the channel
acknowledged (`AckChannel`), copies and checks the parameters
(`CaptureParams`), dispatches (`InvokeCallback`), writes the answer
(`WriteAnswer`), marks the channel again (`PublishAck`) and signals pong
(`SignalPong`). `Teardown`, `UnregisterWait`, `CallbacksDone` and `FreeContexts`
are the destructor through `UnRegisterWaits`; `BrokerDies` stops every broker
thread where it is.

| variable | in the code |
|---|---|
| `state`, `ping`, `pong`, `params`, `ret` | `ChannelControl::state`, its two events, the buffer's parameters and `CrossCallReturn` |
| `server_alive`, `alive_mutex` | `IPCControl::server_alive` as zero or not; who owns `g_alive_mutex` |
| `pc`, `ch`, `calls`, `answer` | where a target thread is, its channel index, its calls, its result |
| `wpc`, `wch`, `call_result` | a pool thread's callback, its channel, its local `CrossCallReturn` |
| `broker`, `armed`, `it` | phase of the broker, waits still registered, the entry `UnRegisterWaits` is at |

Every read or write of shared memory or of a kernel object that another thread
can observe is a step of its own. Data: a call is the pair of its thread and its
number, an answer carries the call it was computed from, so that "the answer of
another call" is visible. A dispatched call yields one of three outcomes.

Abstractions: a target that is terminated is one whose threads stop. A failed
wait on the pong event and a failed `RegisterWait` are not modelled (the second
is listed as a hazard). `SharedMemIPCServer::Init` is one initial state because
no target runs before it has returned. The switch `ParamsFit` says whether every
parameter fits in a channel buffer, `CreatorExits` whether the thread that
created the mutex may end while the broker runs on; each passing run says which
it assumes.

`BrokeredCall` is the promise to the calling thread: `Call`, `Execute` at most
once, then `Deliver` the executed outcome, or `Refuse` a call that was never
executed, or `Fail` only after the sign of life was lost. `SharedMemIPC`
implements it (`KeepsPromise`) with `CallPhase` and `CallOutcome` as the
refinement mapping: a call counts as executed from the moment its outcome is in
a pool thread's local, that is before any of it can be seen in the channel.

### Runs

| run | instance | shows |
|---|---|---|
| `ipc_safe` | 3 threads, 2 channels, 2 pool threads, one call each | the safety invariants of the module, with broker death and teardown at any moment; `ChannelsAccountedFor` joins those that say that no channel, wake-up or callback is lost or doubled |
| `ipc_promise` | 2 threads, 1 channel, 2 calls each, parameters that may not fit, creator that may exit | `KeepsPromise`; `GetBufferEnds`: while the broker is up and nothing fails for want of space, a thread that scans gets the channel |
| `ipc_crash` | 2 threads, 2 channels | a call in flight ends even if the broker dies under it |
| `ipc_hang` (violation) | 2 threads, 1 channel | with fewer channels than threads a dead broker can go unnoticed |

Bounds. Three threads and two channels are the least for which a thread finds
every channel taken while two calls are in service, so that scan, service and
give-up overlap; with two pool threads callbacks overlap as well. Two calls on
one channel (`ipc_promise`) are the least for a channel to be reused
with an old answer in its buffer and an old event behind it, and one channel for
two threads makes every reuse cross from one thread to another.

Fairness (`FairSpec`): a thread inside a call takes its next step if it can; a
pool thread inside a callback does; a signaled ping whose wait is registered
fires; the thread in the destructor goes on. Windows schedules runnable threads,
and `W/crosscall_server.h` asks callbacks not to block. Nothing is assumed of
the choice between a pong and a timeout: a client may time out again and again
as long as pong is not signaled.

### Findings

* `ipc_hang`. `LockFreeChannel` waits on `server_alive` too. If the thread that
  spins there takes the abandoned mutex, it returns a severe failure and leaves
  `server_alive` set; a thread in `DoCall` then finds the mutex owned, concludes
  that the server is alive and waits forever.
* A parameter that does not fit ends the call without `FreeBuffer`
  (`W/crosscall_client.h:302`): its channel stays busy. `GetBufferEnds` and, with
  `ParamsFit` true, `NoChannelLost` say what holds because of that, not more.
* A mutex belongs to a thread, not to a process: the sign of life ends with the
  thread that constructed the first server. `AbandonedMeansDead` is therefore
  checked with `CreatorExits` false only; with TRUE, TLC finds a slow call of a
  live broker given up as crashed.

## 4. `BrokerServices`: targets, trackers and the worker thread

One caller thread uses the API, one worker thread runs `TargetEventsThread`,
the kernel posts packets about jobs. A target is named by the number of the
`SpawnTarget` call that made it.

| step of the code | actions |
|---|---|
| `SpawnTarget`, under `lock_` | `SpawnTarget` (policy read, process created and assigned to its job), then `SpawnCleanup`, or `AddTarget` and `TrackJob` (with a job) or `LeakPolicy` (without) |
| `WaitForAllTargets` | `WaitForAllTargets`, `WaitReturns` |
| `PolicyBase::Release` by the caller | `DropPolicy` |
| destructor and the members' destructors | `DestroyBroker`, `WorkerJoined` or `JoinTimesOut`, then per tracker `ClearClosesJob`, `ClearNotifiesPolicy`, `ClearDestroys`, then `ResetThreadPool` |
| `TargetEventsThread` | `WorkerStarts` (the first `ResetEvent`), `GetQueuedCompletionStatus`, and per packet `LookUpNewProcess` and `CountNewProcess`, `EraseExitedProcess` and `CountExitedProcess`, `ActiveProcessLimit`, `ProcessMemoryLimit`, `WorkerClosesJob` and `WorkerNotifiesPolicy` or `WorkerNotifiesLate` (`JobTracker::FreeResources`) or `NothingToFree`, `WorkerQuits` |
| kernel and targets | `ProcessExits`, `ChildCreated`, `ChildRefused`, `MemoryExceeded` |

`target_counter` and `untracked_target_counter` are the worker's locals,
`no_targets` the event, `ids` is `child_process_ids_`, `tracker` the life of a
`JobTracker`, `targets` and `refs` belong to the one policy all targets share:
that is the case in which `OnJobEmpty`'s search by handle value can meet another
target's. `procs`, `killed`, `births`, `oom` and `port` are the kernel's side.
Two steps of `FreeResources` are separate because the job handle it closes first
may be handed to the next `SpawnTarget` before `OnJobEmpty` searches for it;
lookup and count of a packet are separate because only the first holds `lock_`.

Kernel, as this code uses it: packets about jobs are queued in the order of the
events; the end of the last process of a job posts its exit and then
ACTIVE_PROCESS_ZERO; a refused process posts ACTIVE_PROCESS_LIMIT and its exit;
terminating a job or a process only marks it, and its processes end later; a
process id can be given out again when the process has ended and no handle to it
is open (a live `TargetProcess` keeps the one of its main process); the value of
a closed job handle can be given out at once.

Abstractions: a `SpawnTarget` that fails before the process exists changes
nothing and is not a step. A target is suspended until `SpawnTarget` returns and
cannot end before it. `Create`, `TransferVariable` and `Init` of the target are
one step that fails or not. `LateStart` says whether `SpawnTarget` may run
before the worker's first step, `QuitTimesOut` whether the worker may need more
than the second the destructor waits (the two threads then race, and of the
second `FreeResources` that the destructor may run on a tracker the worker is
just freeing only the destruction is modelled); `Levels` are the job levels in play.

### Runs

| run | instance | shows |
|---|---|---|
| `broker_safe` | 2 targets, 1 child each, 3 process ids, 2 handle values, memory limits, a worker that may start late | counters never negative and never drift, the event, the search by stale handle, trackers alive when used, a running target known as active |
| `broker_live` | 2 targets with and without a job, 1 child each, policy dropped at any time, worker that may be slower than a second | an emptied job is freed; `WaitForAllTargets` returns when all targets have ended and there was one; a target object is deleted only when its processes are gone or were told to go, and never after the thread pool and the worker |

Bounds. Two targets are enough for one to be spawned while the job of the other
is being freed and for the second to get the handle value and the process id of
the first; the third process id belongs to a child alive at the same time. One
child per target makes packets of targets and of children alternate in the
queue, which has no bound of its own.

Fairness (`FairSpec`): the worker is scheduled; a call the caller has begun is
finished when nothing keeps it waiting; a process that was told to terminate
ends. The caller is not obliged to begin anything, and a process that was not
told to terminate may run forever.

### Findings

* The event is reset when the worker *handles* NEW_PROCESS: a second spawn
  followed at once by `WaitForAllTargets` finds it signaled and returns while
  the target runs. `EventMeansExited` therefore excepts targets whose packet is
  still queued; `sandbox.h:88` does not.
* The signal given for a target without a job can be lost to a worker that
  starts late (`LateStart`, false in `broker_live`). Nothing signals the event
  when no target was ever spawned either, hence the condition in `WaitEnds`.
* `child_process_ids_` holds ids only, and any exit in any job erases its id: the
  late exit packet of a child can erase a new target that was given the same id,
  and `IsActiveTarget` then denies it. `RunningIsActive` says so in its
  condition; without it TLC finds that trace.
* `SpawnTarget` of a target without a job signals the event when
  `child_process_ids_` is empty (`LeakPolicy`, `broker_services.cc:471`), "until
  we have at least one target with job". An empty set does not mean that: the id
  of a target that runs may have been erased as just said. Then the event is
  signaled over a positive `target_counter` and, as it is reset only when the
  counter becomes 1, stays so. `broker_safe` therefore has no target without a
  job, and the theorem about the event assumes it; with level `none` and three
  spawns TLC finds `EventMeansExited` violated.
* When the worker needs more than the second the destructor waits, the
  destructor returns and the members the worker still uses are destroyed:
  `TrackerAliveWhenUsed` is checked with `QuitTimesOut` false only.

## 5. `SyscallBroker`: open and access for a sandboxed Linux process

Threads of the sandboxed process send requests over one SEQPACKET channel to a
process forked before the sandbox was entered; each request brings the sending
end of a socket pair of its own, on which it is answered.

| step of the code | actions |
|---|---|
| `BrokerClient::PathAndFlagsSyscall` | `PathAndFlagsSyscall`, `RefuseEarly`; the results in `RecvReply`, `RecvTruncated`, `RecvEOF` |
| `UnixDomainSocket::SendRecvMsgWithFlags` | `CreateSocketPair` or `CreateSocketPairFails`, `SendMsg` or `SendMsgFails`, `ReleaseSendSock`, then one of the three receptions |
| `BrokerHost::HandleRequest` and the loop around it | `RecvMsg`, `RecvMsgTruncated`, `DropRequest` or one of `DenyRequest`, `OpenFileForIPC`, `AccessFileForIPC`, then `SendReply`, `CloseFiles`; `LostClient` |
| `~BrokerProcess` | `CloseChannel`, `KillBroker`, `ReapBroker` |
| outside | `SendMalformed`, `Fork`, `ChildExits`, `ClientDies`, `HostKilled` |

`channel` holds the queued requests, `reply` what lies at a thread's receiving
end, `message`, `answer` and `fds` are the host's locals (`write_pickle` with
`opened_files`, and the descriptors it has open), `copies` the threads of whose
socket pair a fork has copies, `files` the calls whose file has arrived. Whether
a sending end is still open is computed (`SenderOpen`): it may be queued with
its request, held by the host, or copied by a fork.

A path is NULL, on the whitelist or not; how `BrokerPolicy` compares names
is not modelled, nor are flags (`O_CLOEXEC`, which is applied to the
received descriptor) and `unlink_after_open`. The host's `errno` values are one
value. An empty message, which the host takes for the end of its channel, is
one of the ways `HostKilled` stands for.

`RemoteSyscall` is the promise: one system call at most per call and none for a
path that is not listed, its own outcome, the file with the answer that
announces it, and `-ENOMEM` only from a process short of descriptors or without
a broker. The system call may have been made although the caller is told
`-ENOMEM`, for instance when the broker dies before it answers; `Fail` therefore
applies to a call that was made, too. The mapping counts a call as made from the
moment the host has its result (`MadeValue`).

One run, `syscall_promise`: two threads with two calls in all, a channel of one
message (so that senders block), one malformed request, forks, shortage of
descriptors in either process, and both processes ending at any step. Two calls
are one per thread, which makes answers that could be crossed, or two of one
thread, where an answer of the first may be late. It checks `KeepsPromise`,
`NoDescriptorLeft`, and under fairness `CallEnds` and
`BrokerEnds`. Deadlock is not checked: the processes end.

Fairness (`FairSpec`): a thread in a call takes its next step if it can, the
host handles what it has received, the destructor goes on and its SIGKILL
arrives. Neither process is obliged to end, to fork or to begin a call, and a
child that was forked may live forever.

`CallEnds` has an exception that the code has too: `send_sock.reset()` closes
the caller's sending end so that a dead broker is seen as the end of the file,
but a fork by another thread between `socketpair` and that line leaves a copy in
the child, and the caller waits for as long as the child keeps it.

## 6. `PolicyEngine` and `PolicyStore`: the low level policy

`PolicyEngine` is the life of one service's policy. The caller writes rules
(`NewRule`, `AddStringMatch`, `AddNumberMatch`, `AddRule`), `Done` lays their
opcodes out in a row, and `Evaluate` begins a run of `PolicyProcessor`, whose
loop is one action a turn: `SkipOpcode`, `EvaluateCondition`, `EvaluateAction`,
`EndOfPolicy`. `Generated` is `PolicyRule::AddStringMatch` with
`GenStringOpcode`: a pattern becomes one opcode for every fragment between its
wildcards. The reference is `Matches`, the meaning of a pattern in
`sandbox_policy.h`, and `Expected`, the first rule all of whose conditions hold.

`FirstMatchWins` is checked for rules that are `Plain`. Each exclusion in `Plain`
is a place where opcodes and documentation differ, found by dropping it:

* `?` does not count characters: behind the last fragment it generates no opcode
  at all, and a last fragment after a `?` is a prefix match, because
  `EXACT_LENGHT` is only set when no wildcard precedes it
  (`policy_low_level.cc:204`, against `sandbox_policy.h:223`).
  `QuestionMarkNeverStricter` says what remains: `?` never makes a rule stricter.
  A row of `?` as long as `kSeekToEnd` (1048575) would be taken for the end of
  the string, so `Positive` keeps patterns shorter than that.
* A negated pattern of several fragments becomes an OR of negated opcodes, and
  the OR mode stays for the conditions behind it.
* A pattern that is only a wildcard generates nothing and, being the last call
  of its generator, overwrites the options of the opcode before it, which belongs
  to another condition.
* An empty pattern has no opcode either, and so matches every string. The
  generators of the repository refuse an empty name before it gets here
  (`filesystem_policy.cc:81`, `sync_policy.cc:129`, `registry_policy.cc:123`).

`PolicyStore` is `LowLevelPolicy::Done` with addresses: opcodes of all services
from the low end of one memory, strings from the high end. An area remembers for
which rule it was written, so that overlaps are visible. Each rule takes its
opcodes off the end as well as its strings, so opcodes count twice: with that
much room (`Needed(2)`) nothing overlaps (`LayoutWithRoom`), without it `Done`
can return true over a memory in which strings overwrote opcodes. The violation
run `policy_packed` shows it. The memory the broker really uses has 14 pages.
Rules wait in `todo`, and `IsNext` is the order of the map `Done` walks.

`policy_rules`: every policy of up to two rules and two conditions in all over 19
patterns (empty, and each wildcard first, in the middle, last, doubled, escaped), evaluated
for 33 strings and two numbers; and all ways to pack four rules of three shapes
and three services into memories of eight sizes. Two conditions are enough for
one to disturb the next and two rules for a skip to end in the other; three
services and four rules give a service that is first, last, alone, or several
rules long. `EngineInv` and `StoreInv` collect the properties of either part
that are not named above: no error, no context handed on, no buffer in another,
no rule dropped. No fairness: every property is a safety property. A policy stops
when it has answered, so deadlock is not checked.

## 7. `CrossCallParams`: a message out of shared memory

`CrossCall` lays a message out in the channel: the constructor (`StartCall`), then
one parameter after the other (`PackParam`, with `CopyParamIn`); with one that does
not fit it returns before the call is made. Then the broker reads the count
(`ReadCount`), the declared size (`ReadDeclaredSize`: the compiler may read the
count again), checks both (`CheckRange`), copies word by word (`CopyWord`),
checks the copy (`RecheckCopy`, `VerifyParams`), allocates arguments (`GetArgs`),
runs the handler (`Handle`) and writes the copy back (`WriteBack`), while
`OtherThreadWrites` changes words of the channel at any point. Sums of sizes
and addresses wrap at `Modulus`, as in a build of 32 bits.

The run `crosscall_copy` has messages of one or two parameters of sizes zero and
three and up to two foreign writes of values chosen at the boundaries: zero, a
small count, the size of a message, the last cell, the largest word. Words wrap
at 32 and the copy lies at address 4, so that products of a count and sums of an
offset do wrap. Two writes are the least to change a count and a size together.
It checks that whatever was written the parameters lie in the copy
(`ParametersInBounds`), that the infos that are checked were copied and nothing
allocated is left (`CopyInv`), and that a message nobody disturbs is accepted
and its values arrive in both directions (`UndisturbedServed`).

Left out: the tag (checked by the dispatcher's table), the extended return
values, and argument types nobody passes.

## 8. Seccomp filters: `CodeGen`, `PolicyCompiler`, `TrapRegistry`

`CodeGen` is the assembler and `EvaluateBPF` the machine that `verifier.cc`
implements. `MakeInstruction` memoises, inserts jumps where a branch does not
reach and remembers the jump as equivalent to its target. Words have 4 bits
here and a branch reaches one instruction instead of 255, so that jumps, jumps to
jumps and equivalents all occur within seven instructions. `CodeIsRequested`
compares the code from every node with what the requests say,
`EquivalentNodes` the nodes that stand for each other. What a caller may ask for
are constants (`Returns`, `Steps`, `Tests`); the run takes two returns, one load
and one comparison, the proof any. `Results` is the machine run backwards: what
each instruction returns, for every accumulator, from what those behind it do.

`PolicyCompiler` compiles results and conditions, walks `SyscallSet`'s numbers
(`FindRanges`), assembles the jump table and puts the checks in front. One
action is one phase of `Compile`, and one number of the walk: `CompileNumber`,
then `CompareNodes`, which begins a range where the node differs. What the
compiler asks `CodeGen` for never depends on the nodes it got, except in that
comparison. A phase therefore lists its calls of `MakeInstruction`, in the order of
the code, in `requests`, where a node is the number of its request; `Answer` makes
them one by one, with `registry_->Add` before the call that needs the identifier,
and no phase begins before all are made. Results and conditions are the shared objects
that the code builds: `policy.objects`, each of which refers to older ones by
position, so that compiling is a recursion over positions. `IsPolicy` is what the
constructors and the checks of `MaskedEqual` guarantee of them. Three builds
differ in the shape of the valid numbers (one range from zero; ARM's three; MIPS',
which does not begin at zero), the width of pointers and the Intel bit.
`ProgramIsPolicy` runs the finished filter for every number, architecture, caller
address and several arguments and compares it with `Promised`, the policy read
without any code.

`TrapRegistry` is `Trap::Add` against `SigSys`. All system calls of `Add` may
trap (it allocates and frees), so a handler may run between any two of its
steps, and handlers nest (`frames`). `TrapIds` is the promise to compiled
filters: an identifier means one handler forever; `KeepsIds` is the
refinement, with the entries below `trap_array_size` as the visible ones.
`ArrayAlive` says no handler reads a deleted array, `DirectOnlyInUnsafe` that the
bit of the signal mask tells the truth. Assumed: one thread calls `Add` and
takes traps meanwhile (the code says so at `trap.cc:330`), and the program leaves
SIGBUS unblocked outside of handlers. Four keys, arrays that grow by two and at
most three traps give a full array, two allocations and the limit; three nested
handlers are the least for an unsafe trap inside a safe one inside the program.

All three share the run `seccomp_filter`, which checks the assembler
(`AssemblerInv`), the compiler (`CompilerInv`), and the registry's `ArrayAlive`,
`DirectOnlyInUnsafe` and `KeepsIds`. No run checks for deadlock: a filter is
compiled once and a registry that is full stays so.

## 9. Linux process services: `SandboxEntry`, `ScopedProcess`, `InitReaper`

`SandboxEntry` is a process on its way into the sandbox. `Main` makes all calls:
it starts and stops threads and waits for `/proc` to agree
(`ChangeThreadStateAndWatchProcFS`), sets capabilities, moves to a user
namespace, gives up the file system and starts sandboxes. `/proc/self/task`
belongs to the kernel: a new thread appears and a joined one vanishes some time
after (`TaskAppears`, `TaskVanishes`). A call that fails a CHECK ends the process
(`died`). Threads are only those the process starts through `thread_helpers`
(the header asks for that). Stacked filters are two sandboxes; where the probe of
the kernel says it cannot set a filter on all threads, `StartSandbox` must find
itself alone. `kMaxIterations`, 30 in debug and 90 in release
builds, is 2: one probe that fails and goes on, and the last one.

`ScopedProcess`: the constructor's child runs a closure that may fork or end the
process, anybody may signal it, and the parent may call `WaitForClosureToRun` and
`WaitForExit` in any order before the destructor. A process identifier may be
given out again once the child was reaped; nothing else in the parent waits for
children. A second `WaitForClosureToRun` answers false although the closure ran,
and so does a first one when the child is killed between closure and write:
`AnswersAreTrue` states exactly what a caller may conclude.

`InitReaper`: callback, message to the natural child, then the loop over
`waitid`, with two other children. Init itself is not signalled. When the child
was killed before it was told, the send fails and init crashes
(`CrashesWithoutChild`).

## 10. `BootstrapSandbox`: the Mac

`NewClient` makes a token, `LaunchProcess` forks, the child sends its token
(`ClientCheckIn`) and waits; `HandleChildCheckIn` enters the policy under the
sender's process identifier, under the lock, and `SendCheckInReply` answers
without it and takes the entry out again when that fails. `DemuxMessage` answers
what the child, or a process it started (`StartOther`), asks of launchd, by the
policy found under the sender's identifier: `HandleLookUp`, `HandleSwapInteger`,
`Demux`. Processes end at any moment, messages they sent are still delivered, and
identifiers are given out again once a process is reaped. `check_failed` is the
parent's end by the CHECK at `bootstrap_sandbox.cc:231`.

Assumed of the parent, as `bootstrap_sandbox.h:44` and `:74` ask: it calls
`InvalidateClient` before it reaps a child, and `RevokeToken` only when
launching is over. Policies are registered before (`RegisterSandboxPolicy` is
not an action). A child whose check-in is refused gets no port and ends.

One thing the model shows and `AnsweredByOwnPolicy` excepts (`Overlooked`): when
a child ends with its check-in still queued and is reaped, its entry exists from
the check-in to the failed reply, under an identifier that may by then be a
process started by another child. A request of that process handled in this
moment is treated under the dead child's policy, and not as one from the unknown
(`launchd_interception_server.cc:77`).

Two children, one process started by them, two identifiers and two policies (one
that allows a name and denies the rest, one that never allows) are enough for an
identifier to have three owners one after the other, and for the answers of all
four rules to be told apart.

### The run `processes`

Sections 9 and 10 share it. `ScopedInv`, `ReaperInv` and `BootstrapInv` are each
the conjunction of a part's named invariants, and `WaitsEnd` says of all four
that nobody waits forever for another process. Fairness, per part: `Main` and
the threads go on, though `/proc` need not ever agree (`CallsEnd` holds because
the loop is bounded); the parent in a call goes on and the scoped child tells it that the
closure ran, but no closure has to return and no process has to end; init goes on
and a child that was told continues; the check-in server and the interception
server serve their ports, since each is a dispatch source of its own.
No run checks for deadlock: processes end.

## 11. Proofs

### `SharedMemIPC_proofs`

Assumptions: those of the module (at least one channel, and thread names that
are not the names used for the owner of the mutex). The theorems hold for any
sets of threads, any number of channels and calls, with either value of
`ParamsFit` and `CreatorExits`.

The safety invariants are not inductive one by one: that a free channel is quiet
depends on what the thread that held it has consumed, and that on the phase the
server is in. `ChannelInv` joins them: types; `ExclusiveChannel`;
`QuietWhenFree`; `OneToken`, which says that a channel carries at most one of a
signaled ping, a running callback, a signaled pong; `QuietPhases`, that a holder
that has not yet signaled, or has been answered, sees none of the three;
`CallInPlace`, that the parameters of a call in flight lie in its channel;
`ServerOnCall`, that a callback at work for a waiting holder has captured that
holder's call; and `TeardownInv`, what the destructor has got to. A channel that
was given up keeps its `abandoned` or re-acknowledged state and is never free
again, which is why an answer that comes too late harms nobody.

`TypeCorrect`, `ChannelsExclusive`, `FreeChannelsQuiet`, `AnswersMatch`,
`ContextsSafe` and the action property `AnswersStable` follow.

`ChannelsAreAccountedFor` assumes `ParamsFit` and not `CreatorExits`: section 3
says why a channel may be lost otherwise. It adds to `ChannelInv` what holds
while the broker lives (`AccountInv`): nobody can take the mutex, so that no
thread gives its call up (`ServerSeen`); every channel that is not free has a
holder (`HeldChannels`); and a channel stays busy until the callback of its ping
acknowledges it (`BusyUntilServed`).

`PromiseKept` proves `KeepsPromise`: every step of the channels is one of
`BrokeredCall` or a stutter, for any threads, channels, death and teardown. What
`ChannelInv` lacks for it is kept by `CallInv`: a call whose thread has not
signaled, or has been refused, was not executed; a call is executed by at most
one callback, because the one token of its channel is consumed by it; and an
answer read from the channel is the outcome of the caller's own execution. A step
of one thread must leave the phase and the outcome of every other call alone;
that is most of the proof. Liveness is checked by TLC only.

### `BrokerServices_proofs`

Assumptions: the module's (`Pids` finite, the null handle is not a handle value,
job levels are known). `TypeCorrect` needs nothing else. `StaleHandleRight`
proves `StaleHandleFindsOwn` provided `QuitTimesOut` is false.

The property says that a search by handle value, for a value that may already
belong to a younger job, still meets the right target first. The argument is
about age: `targets_` is in the order of spawning (`ListOrder`), two open job
handles differ (`HandlesDistinct`), the owner of a tracker that has closed its
job but not yet told the policy is still on the list (`ClosedOwner`), and a
target with the same value further up would have had to be older and still
listed, hence have its own job open at the time (`Tracking`: a listed target
with a job has a tracker that holds it open, is freeing it, or is about to be
made). The last part needs that the list loses targets in no other way, which is
where reference counts come in (`RefsCover`: the policy lives as long as a
tracker still owes it a notification). The invariant is `StaleInv`. Without the
assumption on the worker two threads can be freeing two trackers at once and the
argument fails.

`TrackersAlive` proves `TrackerAliveWhenUsed` under the same proviso. A job is
closed, while the worker runs, only for its `ACTIVE_PROCESS_ZERO`; that packet is
posted when the job has no process left, and a job without processes gets none
and exceeds no limit. So no `PROCESS_MEMORY_LIMIT` of that job is queued behind it
(`QueueOrder`), nor behind the packet at hand (`HandledPacket`), nor for any job
already closed (`EmptiedJobs`).

`DeletionRight` proves `DeletedInTime`, whichever way destructor and worker
race. Here handle values do meet the wrong entry: `OnJobEmpty` may delete the
target of another job with the same value. The argument is a balance
(`Balanced`): for every handle value there are as many trackers that have closed
their job and not yet told the policy as there are targets on the list whose job
is closed, and each of these was killed or has no process (`StaleKilled`). So
whichever of them the search meets, its processes are gone or told to go. That
the policy with its list is not deleted too early follows from its count: the
references cover those still owed (`DebtsCovered`).

`CountersRight` proves of any run, without a proviso, that the counters are not
negative and do not drift. The packets in flight, the one in the worker's hands
first, are read against the processes alive: for one process id starts and exits
alternate (`Alternate`), the last of them says whether a process with this id is
alive (`AliveLast`), and a refused process has its limit packet right before its
exit (`LimitOpen`). An id is *open* when the worker has counted it in and not out;
`target_counter` is at least the number of open ids (`CounterOK`),
`untracked_target_counter` at least the number of those that the worker does not
find in `child_process_ids_` (`UntrackedOK`). Both survive ids that are used again
because open ids are counted, not targets.

`ActiveRight` proves `RunningIsActive`: as long as no target has children
(`Childless`), the exits in flight are of ids whose owner still has its object
and with it a handle to its process, so that the id cannot be another's; the
object goes with the packet behind that exit (`OwnListed`: until the destructor
runs, the search meets the job's own target).

`BooksRight` puts these together and adds the event: it is signaled only over a
counter of zero (`EventOff`). This needs that every target has a job (`"none"` is
not in `Levels`); section 4 says what happens otherwise.

Liveness (`TargetsFreed`, `WaitEnds`) is checked by TLC only.

### `SyscallBroker_proofs`

Assumptions: the names standing for nothing and for a malformed request are not
thread names. `TypeCorrect` and `DescriptorsClosed` hold for any threads, channel
capacity and bounds, and with or without forks and shortages.
`NoDescriptorLeft` speaks of the host between requests; the invariant,
`FdsByPhase`, adds what it holds while it handles one: a request being dropped
has brought at most its socket, an opened file belongs to the request at hand.

`PromiseKept` proves `KeepsPromise`: with any number of threads and calls,
malformed requests, forks, shortages and the loss of either side, what a caller
sees is a call of `RemoteSyscall`. The invariant (`CallInv`) says where the one
request of a call is (on its way, with the host, answered, or lost), that a
request made is never queued again, and that a reply lying at a thread's socket is
the outcome of the call this thread is in. The lasting invariant is that a socket
pair belongs to one call: a reply that comes too late finds no reader.
Liveness is checked by TLC only.

### `Seccomp_proofs`

The registry of traps. Assumptions: the module's. `RegistryTypeOK`, `ArrayAlive`, `DirectOnlyInUnsafe`
and the refinement `KeepsIds`, for any keys, increment, limit and nesting.
`ArrayInv` relates `trap_ids`, the array, its size and its capacity at every step
of `Add`: an entry is written before the size admits it, and the new array
agrees with the old one before the pointer moves. The frames' arrays are alive
because handlers run to their end before `Add` goes on (`Alive`). `MaskTells`:
SIGBUS is blocked exactly when some function of an unsafe trap is on the stack.
The refinement maps `AddReturns` to `Register` of the abstract registry, and
`CallFunction` to `RunHandler`; every other step stutters.

The assembler. Assumptions: words have at least one bit, a branch reaches at least
one instruction, and requests are loads of fields, masks and comparisons with
words. `AssemblerRight` proves `AssemblerInv` for any words, reach, constants and
programs, where the run has seven instructions and a reach of one. The invariant,
`GenIInv`, has two parts. `Assembled`: every branch fits (`Fits`), and a node and
its equivalent return the same for all data and accumulators (`Stand`). `Memoised`:
a request asks for nodes that were given and lie behind its own, no two requests
share a node, and the row of results of a node is what the request explains by the
rows of its successors. Programs only grow, and nothing but what is behind an
instruction decides what it does (`ExecutedBack`), so that rows stay
(`ResultsKept`). `InRange` says what `WithinRange` promises: a node that does what
the target does, near enough, at the price of one instruction at most; therefore
the one place `AppendInstruction` leaves for the second jump is enough
(`BranchEmitted`). The step from the invariant to the property is that `Meaning`,
a recursion over requests, has one solution (`MeaningRight`). That recursions have
solutions at all is proved here as well (`Courses`).

### `PolicyCompiler_proofs`

`CompilerRight` proves `CompilerInv` (`ProgramIsPolicy` and `UnsafeTrapsAllowed`) for any
policies, builds, arguments, width of words and reach of branches. Assumptions: those of
the assembler, words of at least two bits (bit 30 and bit 31 are two), and that the
policies are policies (`IsPolicy`: objects refer to older ones, masks cover their
values, valid numbers are ascending ranges below bit 31, and the system calls that
unsafe traps need are valid and, on Intel, below bit 30). The last one matters:
nothing else keeps `CheckSyscallNumber` from refusing a number that
`UnsafeTrapsAllowed` lets through.

The argument has two levels. On the first one there is no program yet. `V` stands
for what running from each node returns, by accumulator; it *reads* a plan when
every request of the plan means what it says (`Reads`), and a piece of the compiler is
right when every `V` that reads its plan gives the plan's first node what the policy
says. So stated, each piece is one lemma (`Testing`, `SignChecking`, `Comparing`,
`Gating`, `Hatching`, `ArchChecking`), and the recursive functions follow by
induction over positions and over the length of the jump table (`CondFacts`,
`ResultFacts`, `TableFacts`); that these functions are defined at all is `Recursion`.
The second level is the program: `Dialogue` says of the requests, the registry and
`CodeGen` that each request made has its answer in `memos`, that a handler's
identifier is its own, and that unsafe handlers come from the policy; with
`AssemblerRight`'s invariant, the rows of results of the finished program are a `V`
that reads everything that was asked for (`ServesAll`).

`CompilerIInv` joins them. At each stage it says what every `V` true of the requests and
answers so far has for the nodes the compiler holds (`Delivers`): `Ranging`, that the
ranges, with the one still open, give every number below `sysnum` what the policy
says of it; `Numbering`, the same of the node of `sysnum`; `Searched`, of all numbers;
`Headed`, what the code at `head` returns with the checks still to come left out. The
two hard steps are in `CompareNodes`. Equal nodes may stand for different requests,
and `V` need only be equal on equal nodes for the range to go on (`SameNode`). And the
numbers the walk leaves out are treated like the one before them (`TreatedAlike`,
from `NextFacts`), including the ends of the signed and of the unsigned words.
Since the invariant speaks of all `V`, TLC cannot evaluate it on a run; the run
checks the property it implies.


### `CrossCallParams_proofs`

Assumptions: the module's (a channel holds the ParamInfos of `MaxParams`
parameters, and the copy lies below the top of the address space).
`ParametersInBounds`, `CopyInv` and `LayoutStable` hold for any sizes of channel,
word and parameters and for any number of writes by the target, where the run
allows two. Nothing is known of the words that were read from the channel, so the
invariant (`Inv`) follows the copy instead: its size is the one that was checked
(`SizesBounded`); after the second check the count in the copy is the one the
ParamInfos were sized for (`Checked`); after the third every parameter ends
before the copy does (`Placed`), where sums that wrap are the hard step; and a
handler writes only behind the ParamInfos. An earlier form of
`ChecksReadTheCopy`, that the second check finds the ParamInfos copied whatever
the count, held for two writes and not for three; the proof showed it, and the
property now says what the code relies on: an invalid count is refused before
its ParamInfos are looked at.

`UndisturbedIsServed` proves `UndisturbedServed`, which the other invariant,
`CallInv`, follows through the whole call. While the caller packs, the channel
holds the ParamInfos of the parameters so far (`Fields`), their values lie behind
one another between the ParamInfos and the next offset (`Apart`), and are there
(`Filled`). The step is `NextParam`; that the last `Align` does not leave the
channel rests on the size of a channel being aligned. The broker then has the
count, the size and the words of that message (`BrokerView`), so that each check
finds what it asks for (`RangeHolds`, `CopyHolds`, `PlacesHold`, `ArgsFit`), and no
sum wraps. After the handler the copy is the channel but for the in/out parameters
(`Handled`), and since parameters lie apart none is taken for another
(`CallDelivered`).

### `Policy_proofs`

`StoreRight` proves `StoreInv` for any services, rules and memory. Assumption:
`SizesAssumption`, that the size of an opcode is a multiple of the size of the
count in front of the opcodes. The first form of the lemma that one buffer ends
before the next begins (`NextBufferFacts`) had no such assumption and was false:
a size rounded down to units of `PolicyBuffer`, plus one unit, leaves room for
the opcodes but not always for the count ahead of them. The code is right because
an opcode holds pointers and the count is a `size_t`. The invariant, `StoreIInv`:

* `RoomLeft`: what is left plus what all rules need is the memory plus what the
  rules in `todo` need. With room for every opcode twice no rule is refused.
* `TopBound`: the opcodes written and to be written stay below the end of all
  opcodes plus a head for every service so far, whatever services have no rules.
* `OpcodeAreas` and `StringsAbove`: opcodes end where the present buffer ends
  (`Top`), and before the buffers of later services begin; strings are above
  `buffer_end`. Together with `RoomLeft` they keep opcodes and strings apart.
* `Entries` and `AllPacked`: services are entered in ascending order, and every
  rule not in `todo` is written behind the head of its service's buffer.

Sums over rules are recursive functions over a sequence. The library's induction
theorems take an operator and cannot be used, so the lemmas about them argue by
the least index at which the claim fails (`LeastNumber`, `Segment`, `Recursion`).

`EngineRight` proves `EngineInv` for any patterns, strings, flags, actions and
number of rules. Assumption: patterns are sequences of characters. The invariant,
`EngineIInv`: what opcodes rules consist of, and that a rule ends with its action
(`RulesRight`), that the evaluator's index is in the policy or one past it and
its position in the string (`EvalTyped`), that a rule is entered with an empty
context (`StartsClean`), that while opcodes are skipped the last result and the
mode tell which of the two reasons it has (`SkipReason`), and that the
evaluation begins at the first opcode of a policy that has one (`PhasesInOrder`). Two lemmas
carry it. `GeneratedRight`: `AddStringMatch` refuses a pattern if and only if it
is malformed, and what it generates otherwise are well formed string opcodes;
it is an induction over the fragments of the pattern. `LaidOutEnded`: in the row
`Done` makes of the rules, every opcode is followed by an action at or behind it,
so that no evaluation runs off the end.

`FirstMatchRight` and `QuestionMarkRight` prove `FirstMatchWins` and
`QuestionMarkNeverStricter` for any patterns, strings, flags, actions, conditions
in a rule and number of rules, from the same assumptions: that compiling a
pattern to opcodes and running these is matching it. The proof has four levels,
each stated in terms of the one below.

* What a pattern means. `Matches` is a table over the pairs of a place in the
  pattern and a place in the string. `TableExists` builds it from its last row
  up, because nothing else says that the recursion of `Matches` defines anything,
  and `MatchesFacts` reads off its cells (`Matched`).
* What the generator has written (`ReadSoFar`). The positions behind the opcodes
  of a pattern form a chain (`Chain`): each opcode looks for its fragment behind
  the one before, at the first place it is found (`After`). `Searched` is kept
  from character to character (`ReadOn`): the chain is lost only if the string
  cannot match, and otherwise the string matches exactly if what is left of the
  pattern matches what is left of the string (`Tells`). That the first place
  loses no match is the heart of it (`FlushMiddle`): the asterisk before a
  fragment found later would take what the one before a later fragment can take.
  A `?` before every `*` keeps this up to the last opcode, which may let more
  strings match. `ConditionMeans` draws the conclusion for the whole pattern.
* What one rule does (`Trace`, `Decides`). Behind each opcode the processor is in
  one of four modes: all conditions held so far, some negated fragment is still
  awaited (OR), the rule failed, or it is settled. `StringDecides` and
  `NumberDecides` are that another condition leaves the rule decided, `Harmless`
  that a pattern of a single wildcard may label the opcode before it again.
* What the processor does (`DecisionIInv`). `Layout` says where the opcodes of
  each rule lie in the memory; `Underway`, that no rule before the present one
  applies and that index, context and `skip_group` are those of a state of its
  trace; `Outcome`, that the answer is the action of a rule no other precedes.

The hypotheses are `Plain` and `Positive`, whose conjuncts section 6 explains.
The proof added two of them, which the patterns of the run had hidden: the empty
pattern and the row of `?` as long as a number.

### `ProcessServices_proofs`

Assumptions: `ScopedAssumption`, `ReaperAssumption`, and for the Mac below. `ScopedHolds` and
`ReaperHolds` prove `ScopedInv` and `ReaperInv` for any exit codes, signals,
number of calls and other children. They need what the pipe and the socket say
of the other side: `PipeTells` (a byte means that the closure ran, an end of file
that the child ended), `ByteTold` (a byte was sent only by an init that reaps),
and the order of the steps (`DestructorOrder`, `ReaperOrder`).

The same module proves the Mac's `BootstrapSandbox`. Assumptions: its own, among them that every registered policy passed
`IsPolicyValid`. `TableIsRight` and `OwnPolicyAnswers` prove `BootstrapInv` and
`AnsweredByOwnPolicy` for any clients, descendants, process ids and policies.
Ids are used again while check-ins of their former owners still wait. The
invariant, `BootstrapIInv`, says that of two check-ins with one id only the later
is of a process that still has it (`LastSender`), that a waiting check-in meets
no entry but that of the check-in being answered (`Unentered`), that each entry
was made by a client with that id and policy that has not been invalidated or is
being answered (`Owned`), and that whoever is inside has its entry (`Entered`).

The third part is `SandboxEntry`. Assumptions: the module's (names of the main
thread, workers and sandboxes differ, `CAP_SYS_CHROOT` is a capability, there is
at least one probe). For any number of threads, sandboxes and probes:
`EntryTypeOK`, `ProcAgrees`,
`CapsWithinLimit`, `FilterOnAllThreads`, `NoWayOut` and the action property
`StaysLocked`. Calls that act on one thread are made when `/proc` lists no other;
`ProcSeen` says who may run without being listed (only the thread being started),
`SyncNeeded` that a filter for one thread is installed only when no other runs,
`ProcFdsApart` that descriptors of `/proc` have one owner each. The last two are
what `FilterOnAllThreads` and `NoWayOut` need beyond the types; capabilities
follow from `ProcSeen` because `SetCapabilities` refuses while another thread is
listed. `CallsEnd` stays with TLC.

## 12. What is not modelled

* Policy generators and dispatchers: they translate rules and calls one to one;
  the decision is the policy engine's, the effect the kernel's.
* Target services, handle closer, interception, resolvers: sequences in one
  thread without choices, and patching of machine code.
* Tokens, SIDs, access control lists, mitigations, NT utilities, the setuid
  helper, resource limits, yama: sequences of system calls whose meaning is the
  operating system's.
* `namespace_sandbox.cc`, the comparison of names in `broker_policy.cc` and
  `broker_file_permission.cc`, the baseline policy's tables of system calls.
* Mac message servers, seatbelt and the sandbox compiler.
* C and Rust bindings, samples, tests, tools.
* `base`, nine tenths of the repository's lines: a vendored library, of which
  only what the modelled parts use appears. The share of lines that the map
  covers is small for this reason; it is not of use to model, say, the tracing
  of `base` here.

Two hazards in `PROJECT.json` name no property; their notes say why.
