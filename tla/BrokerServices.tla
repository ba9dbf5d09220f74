---------------------------- MODULE BrokerServices ----------------------------
(***************************************************************************)
(* BrokerServicesBase: one caller thread spawns targets, waits for them    *)
(* and at last destroys the broker; one worker thread (TargetEventsThread) *)
(* serves the completion port to which the kernel posts what happens in    *)
(* the jobs.  A target is named by the number of the SpawnTarget call that *)
(* made it; its TargetProcess object, its JobTracker and its job go by the *)
(* same number.  All targets share one PolicyBase, the case in which the   *)
(* search of OnJobEmpty can meet another target's job handle value.        *)
(*                                                                         *)
(* The kernel is modelled from how this code uses it: messages about jobs  *)
(* arrive in the order of the events, the end of the last process of a job *)
(* posts its exit and then ACTIVE_PROCESS_ZERO, a process id is free again *)
(* when the process has ended and no handle to it is open, and the value   *)
(* of a closed job handle may be given to the next job.                    *)
(***************************************************************************)
EXTENDS Integers, Sequences, FiniteSets

CONSTANTS
  Pids,          \* process ids the kernel hands out
  Handles,       \* values of job handles
  Levels,        \* job levels policies ask for, from JobLevels
  MaxSpawns,     \* bound: SpawnTarget calls that create a process
  MaxChildren,   \* bound: processes each target tries to create
  MemoryLimits,  \* TRUE when jobs carry a memory limit
  LateStart,     \* TRUE when SpawnTarget may run before the worker's first step
  QuitTimesOut   \* TRUE when the worker may need more than a second to quit

(* JOB_NONE; a level that admits one active process; one that admits more.   *)
JobLevels == {"none", "limited", "unlimited"}
NoHandle == "NULL"

ASSUME LevelsAssumption == Levels \subseteq JobLevels
ASSUME HandlesAssumption == NoHandle \notin Handles
ASSUME BoundsAssumption == MaxSpawns \in Nat /\ MaxChildren \in Nat
ASSUME PidsAssumption == IsFiniteSet(Pids)

Targets == 1..MaxSpawns
Events == {"NEW_PROCESS", "EXIT_PROCESS", "ACTIVE_PROCESS_ZERO",
           "ACTIVE_PROCESS_LIMIT", "PROCESS_MEMORY_LIMIT"}

(* A completion packet: the key is a tracker, the overlapped a process id;   *)
(* or THREAD_CTRL_QUIT, which also stands for "no packet at hand".           *)
NoPid == 0
NoPacket == [event |-> "QUIT", key |-> 0, ovl |-> NoPid]
Packets == [event : Events, key : Targets, ovl : Pids \union {NoPid}]
             \union {NoPacket}
Packet(e, s, p) == [event |-> e, key |-> s, ovl |-> p]

VARIABLES
  main,          \* where the caller thread is
  spawned,       \* SpawnTarget calls that have created a process
  level,         \* the job level of each target's policy when it was spawned
  pid,           \* process id of each target's main process
  job,           \* TargetProcess::job_, a handle value the target only compares
  job_open,      \* the job handle of a target is open
  object,        \* the TargetProcess object: "none", "live" or "deleted"
  targets,       \* PolicyBase::targets_
  refs,          \* PolicyBase::ref_count
  held,          \* the caller keeps its reference to the policy
  tracker,       \* JobTracker: "none", "set", "closed", "freed" or "destroyed"
  ids,           \* child_process_ids_
  no_targets,    \* the manual-reset event no_targets_ is signaled
  pool,          \* thread_pool_: "up" or "gone"
  procs,         \* processes alive in each target's job
  births,        \* processes each target has tried to create
  oom,           \* targets whose job has hit its memory limit
  killed,        \* targets whose processes have been told to terminate
  port,          \* packets queued at job_port_
  worker,        \* where the worker thread is
  packet,        \* the packet the worker handles
  known,         \* its erase_result: the process that ended was a target
  target_counter, untracked_target_counter

jobVars == <<level, pid, job>>
policyVars == <<object, targets, refs, held>>
kernelVars == <<births, oom>>
jobState == <<jobVars, job_open, tracker>>
counters == <<target_counter, untracked_target_counter>>
workerVars == <<worker, packet, known, counters>>
callerVars == <<main, spawned>>
vars == <<callerVars, jobVars, job_open, policyVars, tracker, ids, no_targets,
          pool, procs, killed, kernelVars, port, workerVars>>

MainPC == {"idle", "create", "track", "wait", "quit", "clear", "clearing",
           "down"}
WorkerPC == {"start", "loop", "event", "counted", "erased", "freeing", "done"}

TypeOK ==
  /\ main \in MainPC
  /\ spawned \in 0..MaxSpawns
  /\ level \in [Targets -> JobLevels]
  /\ pid \in [Targets -> Pids \union {NoPid}]
  /\ job \in [Targets -> Handles \union {NoHandle}]
  /\ job_open \in [Targets -> BOOLEAN]
  /\ object \in [Targets -> {"none", "live", "deleted"}]
  /\ targets \in Seq(Targets)
  /\ refs \in Int
  /\ held \in BOOLEAN
  /\ tracker \in [Targets -> {"none", "set", "closed", "freed", "destroyed"}]
  /\ ids \in SUBSET Pids
  /\ no_targets \in BOOLEAN
  /\ pool \in {"up", "gone"}
  /\ procs \in [Targets -> SUBSET Pids]
  /\ births \in [Targets -> Nat]
  /\ oom \in SUBSET Targets
  /\ killed \in SUBSET Targets
  /\ port \in Seq(Packets)
  /\ worker \in WorkerPC
  /\ packet \in Packets
  /\ known \in BOOLEAN
  /\ target_counter \in Int
  /\ untracked_target_counter \in Int

(* BrokerServicesBase::Init has made the port, the event (not signaled) and  *)
(* the worker thread; the caller has created a policy and holds it.          *)
Init ==
  /\ main = "idle"
  /\ spawned = 0
  /\ level = [s \in Targets |-> "none"]
  /\ pid = [s \in Targets |-> NoPid]
  /\ job = [s \in Targets |-> NoHandle]
  /\ job_open = [s \in Targets |-> FALSE]
  /\ object = [s \in Targets |-> "none"]
  /\ targets = <<>>
  /\ refs = 1
  /\ held = TRUE
  /\ tracker = [s \in Targets |-> "none"]
  /\ ids = {}
  /\ no_targets = FALSE
  /\ pool = "up"
  /\ procs = [s \in Targets |-> {}]
  /\ births = [s \in Targets |-> 0]
  /\ oom = {}
  /\ killed = {}
  /\ port = <<>>
  /\ worker = "start"
  /\ packet = NoPacket
  /\ known = FALSE
  /\ target_counter = 0
  /\ untracked_target_counter = 0

-----------------------------------------------------------------------------
(* What the steps of both threads and of the kernel share.                   *)

LockHeld == main \in {"create", "track"}
InSpawn(s) == s = spawned /\ LockHeld
Associated(s) == tracker[s] # "none"
FreePids == Pids \ ((UNION {procs[s] : s \in Targets})
                    \union {pid[s] : s \in {t \in Targets : object[t] = "live"}})
FreeHandles == Handles \ {job[s] : s \in {t \in Targets : job_open[t]}}
Post(packets) == port' = port \o packets

(* ~TargetProcess of a set of targets: each process is told to end.          *)
DeleteTargets(S) ==
  /\ object' = [s \in Targets |-> IF s \in S THEN "deleted" ELSE object[s]]
  /\ killed' = killed \union S

(* The reference count goes down with a target gone from targets_: with the  *)
(* last reference ~PolicyBase deletes the targets that are left.             *)
ListedIn(seq) == {seq[i] : i \in DOMAIN seq}

ReleasePolicy(gone, left) ==
  /\ refs' = refs - 1
  /\ IF refs = 1
     THEN targets' = <<>> /\ DeleteTargets(gone \union ListedIn(left))
     ELSE targets' = left /\ DeleteTargets(gone)

(* PolicyBase::OnJobEmpty takes the first target whose job_ is the handle.   *)
HasJob(i, h) == job[targets[i]] = h
FirstWithJob(h) ==
  {i \in DOMAIN targets : HasJob(i, h) /\ \A j \in 1..(i - 1) : ~HasJob(j, h)}

OnJobEmpty(h) ==
  IF FirstWithJob(h) = {}
  THEN ReleasePolicy({}, targets)
  ELSE \E i \in FirstWithJob(h) :
         ReleasePolicy({targets[i]}, SubSeq(targets, 1, i - 1) \o
                                     SubSeq(targets, i + 1, Len(targets)))

(* JobTracker::FreeResources, in the two parts between which another thread  *)
(* can be given the handle value just closed.                                *)
CloseJob(s) ==
  /\ tracker[s] = "set"
  /\ tracker' = [tracker EXCEPT ![s] = "closed"]
  /\ job_open' = [job_open EXCEPT ![s] = FALSE]
  /\ killed' = killed \union {s}

(* Mutant: finds the handle closed and leaves the policy alone. *)
NotifyPolicyNever(s) ==
  /\ tracker[s] = "closed"
  /\ tracker' = [tracker EXCEPT ![s] = "freed"]
  /\ UNCHANGED <<refs, targets, object, killed>>

NotifyPolicy(s) ==
  /\ tracker[s] = "closed"
  /\ OnJobEmpty(job[s])
  /\ tracker' = [tracker EXCEPT ![s] = "freed"]

-----------------------------------------------------------------------------
(* The caller thread.                                                        *)

SpawnTarget ==
  /\ main = "idle" /\ held /\ spawned < MaxSpawns
  /\ LateStart \/ worker # "start"
  /\ \E l \in Levels, p \in FreePids, h \in FreeHandles \union {NoHandle} :
       /\ (h = NoHandle) <=> (l = "none")
       /\ spawned' = spawned + 1
       /\ level' = [level EXCEPT ![spawned + 1] = l]
       /\ pid' = [pid EXCEPT ![spawned + 1] = p]
       /\ job' = [job EXCEPT ![spawned + 1] = h]
       /\ job_open' = [job_open EXCEPT ![spawned + 1] = (h # NoHandle)]
       /\ object' = [object EXCEPT ![spawned + 1] = "live"]
       /\ procs' = [procs EXCEPT ![spawned + 1] = {p}]
  /\ main' = "create"
  /\ UNCHANGED <<targets, refs, held, tracker, ids, no_targets, pool, killed,
                 kernelVars, port, workerVars>>

SpawnCleanup ==
  /\ main = "create"
  /\ DeleteTargets({spawned})
  /\ job_open' = [job_open EXCEPT ![spawned] = FALSE]
  /\ main' = "idle"
  /\ UNCHANGED <<spawned, jobVars, targets, refs, held, tracker, ids,
                 no_targets, pool, procs, kernelVars, port, workerVars>>

(* Mutant: targets_.push_front. *)
AddTargetInFront ==
  /\ main = "create"
  /\ targets' = <<spawned>> \o targets
  /\ main' = "track"
  /\ UNCHANGED <<spawned, jobState, object, refs, held, ids, no_targets, pool,
                 procs, killed, kernelVars, port, workerVars>>

AddTarget ==
  /\ main = "create"
  /\ targets' = Append(targets, spawned)
  /\ main' = "track"
  /\ UNCHANGED <<spawned, jobState, object, refs, held, ids, no_targets, pool,
                 procs, killed, kernelVars, port, workerVars>>

TrackJob ==
  /\ main = "track" /\ job[spawned] # NoHandle
  /\ tracker' = [tracker EXCEPT ![spawned] = "set"]
  /\ refs' = refs + 1
  /\ Post(<<Packet("NEW_PROCESS", spawned, pid[spawned])>>)
  /\ ids' = ids \union {pid[spawned]}
  /\ main' = "idle"
  /\ UNCHANGED <<spawned, jobVars, job_open, object, targets, held, no_targets,
                 pool, procs, killed, kernelVars, workerVars>>

(* Mutant: no policy_base->AddRef(). *)
LeakPolicyNoAddRef ==
  /\ main = "track" /\ job[spawned] = NoHandle
  /\ refs' = refs
  /\ no_targets' = (no_targets \/ ids = {})
  /\ main' = "idle"
  /\ UNCHANGED <<spawned, jobState, object, targets, held, ids, pool, procs,
                 killed, kernelVars, port, workerVars>>

LeakPolicy ==
  /\ main = "track" /\ job[spawned] = NoHandle
  /\ refs' = refs + 1
  /\ no_targets' = (no_targets \/ ids = {})
  /\ main' = "idle"
  /\ UNCHANGED <<spawned, jobState, object, targets, held, ids, pool, procs,
                 killed, kernelVars, port, workerVars>>

WaitForAllTargets ==
  /\ main = "idle"
  /\ main' = "wait"
  /\ UNCHANGED <<spawned, jobState, policyVars, ids, no_targets, pool, procs,
                 killed, kernelVars, port, workerVars>>

WaitReturns ==
  /\ main = "wait" /\ no_targets
  /\ main' = "idle"
  /\ UNCHANGED <<spawned, jobState, policyVars, ids, no_targets, pool, procs,
                 killed, kernelVars, port, workerVars>>

DropPolicy ==
  /\ main \in {"idle", "down"} /\ held
  /\ held' = FALSE
  /\ ReleasePolicy({}, targets)
  /\ UNCHANGED <<callerVars, jobState, ids, no_targets, pool, procs,
                 kernelVars, port, workerVars>>

-----------------------------------------------------------------------------
(* ~BrokerServicesBase, then the destructors of its members.                 *)

DestroyBroker ==
  /\ main = "idle"
  /\ Post(<<NoPacket>>)
  /\ main' = "quit"
  /\ UNCHANGED <<spawned, jobState, policyVars, ids, no_targets, pool, procs,
                 killed, kernelVars, workerVars>>

(* Mutant: the destructor does not wait for the worker. *)
WorkerJoinedAtOnce ==
  /\ main = "quit"
  /\ main' = "clear"
  /\ UNCHANGED <<spawned, jobState, policyVars, ids, no_targets, pool, procs,
                 killed, kernelVars, port, workerVars>>

WorkerJoined ==
  /\ main = "quit" /\ worker = "done"
  /\ main' = "clear"
  /\ UNCHANGED <<spawned, jobState, policyVars, ids, no_targets, pool, procs,
                 killed, kernelVars, port, workerVars>>

JoinTimesOut ==
  /\ main = "quit" /\ QuitTimesOut /\ worker # "done"
  /\ main' = "clear"
  /\ UNCHANGED <<spawned, jobState, policyVars, ids, no_targets, pool, procs,
                 killed, kernelVars, port, workerVars>>

TrackerList == {s \in Targets : tracker[s] \notin {"none", "destroyed"}}
IsFront(s) == s \in TrackerList /\ \A t \in TrackerList : s <= t

ClearClosesJob ==
  /\ main = "clear"
  /\ \E s \in Targets : IsFront(s) /\ CloseJob(s)
  /\ main' = "clearing"
  /\ UNCHANGED <<spawned, jobVars, policyVars, ids, no_targets, pool, procs,
                 kernelVars, port, workerVars>>

ClearNotifiesPolicy ==
  /\ main = "clearing"
  /\ \E s \in Targets : IsFront(s) /\ NotifyPolicy(s)
  /\ main' = "clear"
  /\ UNCHANGED <<spawned, jobVars, job_open, held, ids, no_targets, pool,
                 procs, kernelVars, port, workerVars>>

ClearDestroys ==
  /\ main = "clear"
  /\ \E s \in Targets :
       /\ IsFront(s) /\ tracker[s] # "set"
       /\ tracker' = [tracker EXCEPT ![s] = "destroyed"]
  /\ UNCHANGED <<callerVars, jobVars, job_open, policyVars, ids, no_targets,
                 pool, procs, killed, kernelVars, port, workerVars>>

ResetThreadPool ==
  /\ main = "clear" /\ TrackerList = {}
  /\ pool' = "gone"
  /\ main' = "down"
  /\ UNCHANGED <<spawned, jobState, policyVars, ids, no_targets, procs,
                 killed, kernelVars, port, workerVars>>

-----------------------------------------------------------------------------
(* The worker thread: TargetEventsThread.                                    *)

mainVars == <<callerVars, jobVars, pool>>

PacketDone ==
  /\ worker' = "loop"
  /\ packet' = NoPacket
  /\ known' = FALSE

WorkerStarts ==
  /\ worker = "start"
  /\ worker' = "loop"
  /\ no_targets' = FALSE
  /\ UNCHANGED <<mainVars, job_open, policyVars, tracker, ids, procs, killed,
                 kernelVars, port, packet, known, counters>>

GetQueuedCompletionStatus ==
  /\ worker = "loop" /\ port # <<>>
  /\ packet' = Head(port)
  /\ port' = Tail(port)
  /\ worker' = "event"
  /\ UNCHANGED <<mainVars, job_open, policyVars, tracker, ids, no_targets,
                 procs, killed, kernelVars, known, counters>>

Got(event) == worker = "event" /\ packet.event = event

LookUpNewProcess ==
  /\ Got("NEW_PROCESS") /\ ~LockHeld
  /\ untracked_target_counter' =
       untracked_target_counter + (IF packet.ovl \in ids THEN 0 ELSE 1)
  /\ worker' = "counted"
  /\ UNCHANGED <<mainVars, job_open, policyVars, tracker, ids, no_targets,
                 procs, killed, kernelVars, port, packet, known,
                 target_counter>>

(* Mutant: no ResetEvent at the first process. *)
CountNewProcessNoReset ==
  /\ worker = "counted"
  /\ target_counter' = target_counter + 1
  /\ no_targets' = no_targets
  /\ PacketDone
  /\ UNCHANGED <<mainVars, job_open, policyVars, tracker, ids, procs, killed,
                 kernelVars, port, untracked_target_counter>>

CountNewProcess ==
  /\ worker = "counted"
  /\ target_counter' = target_counter + 1
  /\ no_targets' = (no_targets /\ target_counter' # 1)
  /\ PacketDone
  /\ UNCHANGED <<mainVars, job_open, policyVars, tracker, ids, procs, killed,
                 kernelVars, port, untracked_target_counter>>

EraseExitedProcess ==
  /\ Got("EXIT_PROCESS") /\ ~LockHeld
  /\ known' = (packet.ovl \in ids)
  /\ ids' = ids \ {packet.ovl}
  /\ worker' = "erased"
  /\ UNCHANGED <<mainVars, job_open, policyVars, tracker, no_targets, procs,
                 killed, kernelVars, port, packet, counters>>

(* Mutant: only the exit of a target signals no_targets_. *)
CountExitedSignalsKnown ==
  /\ worker = "erased"
  /\ untracked_target_counter' =
       untracked_target_counter - (IF known THEN 0 ELSE 1)
  /\ target_counter' = target_counter - 1
  /\ no_targets' = (no_targets \/ (known /\ target_counter' = 0))
  /\ PacketDone
  /\ UNCHANGED <<mainVars, job_open, policyVars, tracker, ids, procs, killed,
                 kernelVars, port>>

CountExitedProcess ==
  /\ worker = "erased"
  /\ untracked_target_counter' =
       untracked_target_counter - (IF known THEN 0 ELSE 1)
  /\ target_counter' = target_counter - 1
  /\ no_targets' = (no_targets \/ target_counter' = 0)
  /\ PacketDone
  /\ UNCHANGED <<mainVars, job_open, policyVars, tracker, ids, procs, killed,
                 kernelVars, port>>

ActiveProcessLimit ==
  /\ Got("ACTIVE_PROCESS_LIMIT")
  /\ untracked_target_counter' = untracked_target_counter + 1
  /\ target_counter' = target_counter + 1
  /\ PacketDone
  /\ UNCHANGED <<mainVars, job_open, policyVars, tracker, ids, no_targets,
                 procs, killed, kernelVars, port>>

ProcessMemoryLimit ==
  /\ Got("PROCESS_MEMORY_LIMIT")
  /\ killed' = killed \union {packet.key}
  /\ PacketDone
  /\ UNCHANGED <<mainVars, job_open, policyVars, tracker, ids, no_targets,
                 procs, kernelVars, port, counters>>

(* FreeResources does nothing once the tracker has let its policy go.        *)
WorkerClosesJob ==
  /\ Got("ACTIVE_PROCESS_ZERO")
  /\ CloseJob(packet.key)
  /\ worker' = "freeing"
  /\ UNCHANGED <<mainVars, policyVars, ids, no_targets, procs, kernelVars,
                 port, packet, known, counters>>

WorkerNotifiesPolicy ==
  /\ worker = "freeing"
  /\ NotifyPolicy(packet.key)
  /\ PacketDone
  /\ UNCHANGED <<mainVars, job_open, held, ids, no_targets, procs, kernelVars,
                 port, counters>>

(* After JoinTimesOut the tracker may have been destroyed in between; the    *)
(* worker goes on with what it still finds there.                            *)
WorkerNotifiesLate ==
  /\ QuitTimesOut /\ worker = "freeing" /\ tracker[packet.key] = "destroyed"
  /\ OnJobEmpty(job[packet.key])
  /\ PacketDone
  /\ UNCHANGED <<mainVars, job_open, tracker, held, ids, no_targets, procs,
                 kernelVars, port, counters>>

NothingToFree ==
  /\ Got("ACTIVE_PROCESS_ZERO") /\ tracker[packet.key] # "set"
  /\ PacketDone
  /\ UNCHANGED <<mainVars, job_open, policyVars, tracker, ids, no_targets,
                 procs, killed, kernelVars, port, counters>>

WorkerQuits ==
  /\ \/ Got("QUIT")
     \/ worker = "loop" /\ main = "down"   \* the port has been closed
  /\ worker' = "done"
  /\ packet' = NoPacket
  /\ UNCHANGED <<mainVars, job_open, policyVars, tracker, ids, no_targets,
                 procs, killed, kernelVars, port, known, counters>>

TargetEventsThread ==
  \/ WorkerStarts \/ GetQueuedCompletionStatus
  \/ LookUpNewProcess \/ CountNewProcess
  \/ EraseExitedProcess \/ CountExitedProcess
  \/ ActiveProcessLimit \/ ProcessMemoryLimit
  \/ WorkerClosesJob \/ WorkerNotifiesPolicy \/ WorkerNotifiesLate
  \/ NothingToFree \/ WorkerQuits

-----------------------------------------------------------------------------
(* The kernel and the target processes.  A process may end at any time after *)
(* SpawnTarget has returned; one that was told to terminate does end.        *)

serviceVars == <<mainVars, job_open, policyVars, tracker, ids, no_targets,
                 workerVars>>

ProcessExits(s) ==
  \E p \in procs[s] :
    /\ ~InSpawn(s)
    /\ procs' = [procs EXCEPT ![s] = @ \ {p}]
    /\ IF ~Associated(s) THEN UNCHANGED port
       ELSE Post(<<Packet("EXIT_PROCESS", s, p)>> \o
                 (IF procs[s] = {p}
                  THEN <<Packet("ACTIVE_PROCESS_ZERO", s, NoPid)>> ELSE <<>>))
    /\ UNCHANGED <<serviceVars, killed, kernelVars>>

MayCreate(s) ==
  /\ Associated(s) /\ procs[s] # {} /\ s \notin killed
  /\ births[s] < MaxChildren
  /\ births' = [births EXCEPT ![s] = @ + 1]

ChildCreated(s) ==
  /\ level[s] = "unlimited" /\ MayCreate(s)
  /\ \E p \in FreePids :
       /\ procs' = [procs EXCEPT ![s] = @ \union {p}]
       /\ Post(<<Packet("NEW_PROCESS", s, p)>>)
  /\ UNCHANGED <<serviceVars, killed, oom>>

ChildRefused(s) ==
  /\ level[s] = "limited" /\ MayCreate(s)
  /\ \E p \in FreePids : Post(<<Packet("ACTIVE_PROCESS_LIMIT", s, NoPid),
                                Packet("EXIT_PROCESS", s, p)>>)
  /\ UNCHANGED <<serviceVars, procs, killed, oom>>

MemoryExceeded(s) ==
  /\ MemoryLimits /\ Associated(s) /\ s \notin oom
  /\ \E p \in procs[s] : Post(<<Packet("PROCESS_MEMORY_LIMIT", s, p)>>)
  /\ oom' = oom \union {s}
  /\ UNCHANGED <<serviceVars, procs, killed, births>>

Kernel(s) ==
  ProcessExits(s) \/ ChildCreated(s) \/ ChildRefused(s) \/ MemoryExceeded(s)

Caller ==
  \/ SpawnTarget \/ SpawnCleanup \/ AddTarget \/ TrackJob \/ LeakPolicy
  \/ WaitForAllTargets \/ WaitReturns \/ DropPolicy
  \/ DestroyBroker \/ WorkerJoined \/ JoinTimesOut
  \/ ClearClosesJob \/ ClearNotifiesPolicy \/ ClearDestroys \/ ResetThreadPool

Next == Caller \/ TargetEventsThread \/ \E s \in Targets : Kernel(s)
Spec == Init /\ [][Next]_vars

(* The worker thread is scheduled; the caller finishes a call it has begun   *)
(* once nothing keeps it waiting; a process told to terminate ends.          *)
FinishesCall ==
  SpawnCleanup \/ AddTarget \/ TrackJob \/ LeakPolicy \/ WaitReturns
Fairness ==
  /\ WF_vars(TargetEventsThread)
  /\ WF_vars(FinishesCall)
  /\ \A s \in Targets : WF_vars(s \in killed /\ ProcessExits(s))
FairSpec == Spec /\ Fairness

-----------------------------------------------------------------------------
(* Properties.                                                               *)

InFlight == IF packet = NoPacket THEN port ELSE <<packet>> \o port
Pending(event) ==
  Cardinality({i \in DOMAIN InFlight : InFlight[i].event = event})
InJobs == {sp \in Targets \X Pids : Associated(sp[1]) /\ sp[2] \in procs[sp[1]]}
Running(s) == Associated(s) /\ pid[s] \in procs[s]

(* The DCHECKs at broker_services.cc:225 and 231: neither counter is ever    *)
(* negative, whatever process ids are used again.                            *)
CountersNonNegative == target_counter >= 0 /\ untracked_target_counter >= 0

(* target_counter is the number of processes alive in the jobs, but for the  *)
(* packets still in flight: no ordering of NEW_PROCESS, EXIT_PROCESS and     *)
(* ACTIVE_PROCESS_LIMIT makes it drift.                                      *)
CountsAgree ==
  target_counter + Pending("NEW_PROCESS") + Pending("ACTIVE_PROCESS_LIMIT")
    = Cardinality(InJobs) + Pending("EXIT_PROCESS")

(* While no_targets_ is signaled the only targets running are those whose    *)
(* NEW_PROCESS the worker has not handled yet.                               *)
EventMeansExited ==
  no_targets => \A s \in Targets : Running(s) =>
    \E i \in DOMAIN InFlight :
      InFlight[i] = Packet("NEW_PROCESS", s, pid[s])

(* broker_services.cc:80 "In OnJobEmpty() we don't actually use the job      *)
(* handle directly": the handle is closed by then and its value may belong   *)
(* to a younger job, yet the first match in targets_ is the target of the    *)
(* job that was emptied.                                                     *)
StaleHandleFindsOwn ==
  \A s \in Targets : tracker[s] = "closed" =>
    \A i \in FirstWithJob(job[s]) : targets[i] = s

(* What the worker dereferences is there: the job is open when it handles a  *)
(* PROCESS_MEMORY_LIMIT (the DCHECK at broker_services.cc:246) and no packet *)
(* it handles belongs to a destroyed tracker (broker_services.cc:124 "no     *)
(* more Job notifications are delivered to the worker thread").              *)
TrackerAliveWhenUsed ==
  worker = "event" =>
    /\ packet.event = "PROCESS_MEMORY_LIMIT" => job_open[packet.key]
    /\ packet.event = "ACTIVE_PROCESS_ZERO" => tracker[packet.key] # "destroyed"

(* What a caller reads with IsActiveTarget: every running target with a job  *)
(* is in child_process_ids_, as long as no target has created processes.     *)
(* The exit of such a process erases its id, whichever target has it by then.*)
RunningIsActive ==
  (\A s \in Targets : births[s] = 0)
    => \A s \in Targets : Running(s) => pid[s] \in ids

(* A TargetProcess is deleted, and its IPC server with it, only when no      *)
(* process of the target is left or the broker itself has terminated them,   *)
(* and never once the thread pool its waits are registered with is gone      *)
(* (broker_services.cc:462, target_process.cc:65).                           *)
DeletedInTime ==
  [][\A s \in Targets :
       (object[s] = "live" /\ object'[s] = "deleted") =>
         /\ procs[s] = {} \/ s \in killed \/ (main = "create" /\ s = spawned)
         /\ ~(pool = "gone" /\ worker = "done")]_vars

(* A target whose processes have all ended is at last deleted, as long as    *)
(* the broker is not destroyed first.                                        *)
TargetsFreed ==
  \A s \in Targets :
    (Associated(s) /\ procs[s] = {}) ~>
      (object[s] = "deleted" \/ main \notin {"idle", "create", "track", "wait"})

(* WaitForAllTargets returns once every target has ended, when there was at  *)
(* least one.                                                                *)
SomeTarget == \E s \in Targets : object[s] # "none" /\ ~InSpawn(s) /\
                                 (Associated(s) \/ object[s] = "live")
AllEnded == \A s \in Targets : Associated(s) => procs[s] = {}
WaitEnds == (main = "wait" /\ SomeTarget /\ AllEnded) ~> main # "wait"

(* The worker's books agree with the jobs: the counters count the processes, *)
(* the event is signaled only when the targets have exited and               *)
(* child_process_ids_ has those that run, but for the packets in flight      *)
(* (broker_services.cc:198).                                                 *)
BooksAgree ==
  CountersNonNegative /\ CountsAgree /\ EventMeansExited /\ RunningIsActive
=============================================================================
