----------------------------- MODULE SandboxEntry -----------------------------
(***************************************************************************)
(* How a Linux process locks itself in: the threads it starts and stops,   *)
(* the view that /proc gives of them (ThreadHelpers), its capabilities and *)
(* its root directory (Credentials), and the filters that it puts on its   *)
(* threads (SandboxBPF::StartSandbox).  All calls are made by one thread,  *)
(* Main; the workers it starts run meanwhile.                              *)
(*                                                                         *)
(* Capabilities and filters belong to a thread, and a new thread has those *)
(* of the thread that starts it; the root directory and the descriptors    *)
(* belong to the process.  /proc lists a thread some time after it was     *)
(* started and until some time after it was joined.                        *)
(***************************************************************************)
EXTENDS Naturals

CONSTANTS
  Main, Workers,
  Capabilities,     \* SYS_CHROOT is one of them
  SysChroot,
  Sandboxes,        \* SandboxBPF objects
  kMaxIterations,   \* probes of RunWhileTrue
  NoOne

ASSUME EntryAssumption ==
  /\ Main \notin Workers \union Sandboxes /\ NoOne \notin Workers \union Sandboxes
  /\ SysChroot \in Capabilities
  /\ kMaxIterations \in Nat \ {0}

Threads == Workers \union {Main}

VARIABLES
  thread,     \* workers: "new", "running", "left" (not joined yet), "joined", "gone" (joined, and seen to be)
  task,       \* workers listed in /proc/self/task
  caps,       \* capabilities of each thread
  filters,    \* sandboxes whose filter each thread has
  limit,      \* the set of the last SetCapabilities that returned true
  chrooted,   \* no directory can be reached by its name
  dir_open,   \* a directory other than /proc is open
  proc_fds,   \* who owns a descriptor of /proc: Main or a sandbox
  started,    \* sandboxes with sandbox_has_started_
  tsync,      \* the kernel can put a filter on all threads
  must_sync,  \* argument of InstallFilter
  pc,         \* what Main is doing
  arg,        \* the worker or the sandbox it does it with
  tries       \* probes of the loop in RunWhileTrue

threadVars == <<thread, task>>
credentialVars == <<caps, limit, chrooted, dir_open>>
sandboxVars == <<filters, proc_fds, started, tsync, must_sync>>
pcVars == <<pc, arg, tries>>
entryVars == <<threadVars, credentialVars, sandboxVars, pcVars>>

Steps == {"idle", "appear", "join", "joinAndWatch", "vanish", "chrooted", "assert", "install", "died"}

DataTypeOK ==
  /\ thread \in [Workers -> {"new", "running", "left", "joined", "gone"}]
  /\ task \subseteq Workers
  /\ caps \in [Threads -> SUBSET Capabilities] /\ limit \subseteq Capabilities
  /\ filters \in [Threads -> SUBSET Sandboxes] /\ started \subseteq Sandboxes
  /\ chrooted \in BOOLEAN /\ dir_open \in BOOLEAN
  /\ tsync \in BOOLEAN /\ must_sync \in BOOLEAN
  /\ proc_fds \subseteq {Main} \union Sandboxes

PcTypeOK ==
  /\ pc \in Steps
  /\ arg \in {NoOne} \union Workers \union Sandboxes
  /\ pc \in {"appear", "join", "joinAndWatch", "vanish"} => arg \in Workers
  /\ pc \in {"assert", "install"} => arg \in Sandboxes
  /\ tries \in 0..(kMaxIterations - 1)

EntryTypeOK == DataTypeOK /\ PcTypeOK

EntryInit ==
  /\ thread = [t \in Workers |-> "new"] /\ task = {}
  /\ caps \in [Threads -> {{}, Capabilities}] /\ \A t \in Workers : caps[t] = {}
  /\ limit = Capabilities /\ chrooted = FALSE /\ dir_open = FALSE
  /\ filters = [t \in Threads |-> {}] /\ started = {} /\ proc_fds = {}
  /\ tsync \in BOOLEAN /\ must_sync = FALSE
  /\ pc = "idle" /\ arg = NoOne /\ tries = 0

Running == {t \in Workers : thread[t] = "running"}
Goto(step, with) == pc' = step /\ arg' = with /\ tries' = 0
Die == pc' = "died" /\ UNCHANGED <<arg, tries>>

IsSingleThreaded == task = {}

-----------------------------------------------------------------------------
(* Threads.                                                                  *)

(* thread->Start of StartThreadAndWatchProcFS.                               *)
StartThread(t) ==
  /\ pc = "idle" /\ thread[t] = "new"
  /\ thread' = [thread EXCEPT ![t] = "running"]
  /\ caps' = [caps EXCEPT ![t] = caps[Main]]
  /\ filters' = [filters EXCEPT ![t] = filters[Main]]
  /\ Goto("appear", t)
  /\ UNCHANGED <<task, limit, chrooted, dir_open, proc_fds, started, tsync, must_sync>>

(* thread->Stop, alone or of StopThreadAndWatchProcFS: the worker is told to *)
(* end and joined.                                                           *)
StopThread(t, step) ==
  /\ pc = "idle" /\ thread[t] = "running"
  /\ Goto(step, t)
  /\ UNCHANGED <<threadVars, credentialVars, sandboxVars>>

(* The kernel wakes who joins the thread before it updates /proc.            *)
WorkerLeaves(t) ==
  /\ pc \in {"join", "joinAndWatch"} /\ arg = t /\ thread[t] = "running"
  /\ thread' = [thread EXCEPT ![t] = "left"]
  /\ caps' = [caps EXCEPT ![t] = {}] /\ filters' = [filters EXCEPT ![t] = {}]
  /\ UNCHANGED <<task, limit, chrooted, dir_open, proc_fds, started, tsync, must_sync, pcVars>>

Join ==
  /\ pc \in {"join", "joinAndWatch"} /\ thread[arg] = "left"
  /\ thread' = [thread EXCEPT ![arg] = "joined"]
  /\ IF pc = "join" THEN Goto("idle", NoOne) ELSE Goto("vanish", arg)
  /\ UNCHANGED <<task, credentialVars, sandboxVars>>

TaskAppears(t) ==
  /\ thread[t] = "running" /\ t \notin task
  /\ task' = task \union {t}
  /\ UNCHANGED <<thread, credentialVars, sandboxVars, pcVars>>

TaskVanishes(t) ==
  /\ thread[t] \in {"left", "joined"} /\ t \in task
  /\ task' = task \ {t}
  /\ UNCHANGED <<thread, credentialVars, sandboxVars, pcVars>>

-----------------------------------------------------------------------------
(* RunWhileTrue, and its callers after it.                                   *)
Waits ==
  \/ pc = "appear" /\ arg \notin task
  \/ pc = "vanish" /\ arg \in task
  \/ pc = "assert" /\ ~IsSingleThreaded

(* Mutant: the caller goes on when the time is over. *)
RunWhileTrueThenGoOn ==
  /\ pc \in {"appear", "vanish", "assert"} /\ Waits
  /\ IF tries + 1 = kMaxIterations
     THEN IF pc = "assert" THEN Goto("install", arg) ELSE Goto("idle", NoOne)
     ELSE tries' = tries + 1 /\ UNCHANGED <<pc, arg>>
  /\ thread' = IF pc = "vanish" /\ tries + 1 = kMaxIterations
               THEN [thread EXCEPT ![arg] = "gone"] ELSE thread
  /\ UNCHANGED <<task, credentialVars, sandboxVars>>

RunWhileTrue ==
  /\ pc \in {"appear", "vanish", "assert"} /\ Waits
  /\ IF tries + 1 = kMaxIterations THEN Die ELSE tries' = tries + 1 /\ UNCHANGED <<pc, arg>>
  /\ UNCHANGED <<threadVars, credentialVars, sandboxVars>>

WatchEnds ==
  /\ pc \in {"appear", "vanish"} /\ ~Waits
  /\ thread' = IF pc = "vanish" THEN [thread EXCEPT ![arg] = "gone"] ELSE thread
  /\ Goto("idle", NoOne)
  /\ UNCHANGED <<task, credentialVars, sandboxVars>>

AssertSingleThreaded ==
  /\ pc = "assert" /\ ~Waits
  /\ Goto("install", arg)
  /\ UNCHANGED <<threadVars, credentialVars, sandboxVars>>

-----------------------------------------------------------------------------
(* Credentials.                                                              *)
SetOwn(cs) == caps' = [caps EXCEPT ![Main] = cs]

(* Mutant: other threads are not looked for. *)
SetCapabilitiesUnchecked(cs) ==
  /\ pc = "idle" /\ cs \subseteq caps[Main]
  /\ SetOwn(cs) /\ limit' = cs
  /\ UNCHANGED <<threadVars, chrooted, dir_open, sandboxVars, pcVars>>

(* The kernel lets nobody add to what he has: then false is returned.        *)
SetCapabilities(cs) ==
  /\ pc = "idle"
  /\ \/ ~IsSingleThreaded /\ Die /\ UNCHANGED <<caps, limit>>
     \/ /\ IsSingleThreaded /\ cs \subseteq caps[Main]
        /\ SetOwn(cs) /\ limit' = cs
        /\ UNCHANGED pcVars
  /\ UNCHANGED <<threadVars, chrooted, dir_open, sandboxVars>>

DropAllCapabilitiesOnCurrentThread ==
  /\ pc = "idle"
  /\ SetOwn({})
  /\ UNCHANGED <<threadVars, limit, chrooted, dir_open, sandboxVars, pcVars>>

(* Mutant: unshare does not mind a chroot. *)
MoveToNewUserNSAnywhere ==
  /\ pc = "idle"
  /\ Running = {} /\ task = {}
  /\ SetOwn(Capabilities) /\ limit' = Capabilities
  /\ UNCHANGED <<threadVars, chrooted, dir_open, sandboxVars, pcVars>>

(* unshare refuses a process with threads, and one that is in a chroot.      *)
MoveToNewUserNS ==
  /\ pc = "idle"
  /\ Running = {} /\ task = {} /\ ~chrooted
  /\ SetOwn(Capabilities) /\ limit' = Capabilities
  /\ UNCHANGED pcVars \/ Die    \* the maps of ids are written, or not
  /\ UNCHANGED <<threadVars, chrooted, dir_open, sandboxVars>>

(* ChrootToSafeEmptyDir of DropFileSystemAccess.                             *)
DropFileSystemAccess ==
  /\ pc = "idle" /\ Main \in proc_fds
  /\ IF SysChroot \in caps[Main]
     THEN chrooted' = TRUE /\ Goto("chrooted", NoOne)
     ELSE Die /\ UNCHANGED chrooted
  /\ UNCHANGED <<threadVars, caps, limit, dir_open, sandboxVars>>

(* Mutant: no descriptor of /proc counts. *)
HasOpenDirectoryOther ==
  /\ pc = "chrooted"
  /\ IF dir_open THEN Die ELSE Goto("idle", NoOne)
  /\ UNCHANGED <<threadVars, credentialVars, sandboxVars>>

(* The descriptor the caller passes does not count.                          *)
HasOpenDirectory ==
  /\ pc = "chrooted"
  /\ IF dir_open \/ proc_fds # {Main} THEN Die ELSE Goto("idle", NoOne)
  /\ UNCHANGED <<threadVars, credentialVars, sandboxVars>>

(* Directories that any thread of the process opens and closes.              *)
OpenDirectory ==
  /\ pc # "died" /\ ~chrooted /\ ~dir_open /\ dir_open' = TRUE
  /\ pc # "idle" => Running # {}
  /\ UNCHANGED <<threadVars, caps, limit, chrooted, sandboxVars, pcVars>>
CloseDirectory ==
  /\ pc # "died" /\ dir_open /\ dir_open' = FALSE
  /\ pc # "idle" => Running # {}
  /\ UNCHANGED <<threadVars, caps, limit, chrooted, sandboxVars, pcVars>>

-----------------------------------------------------------------------------
(* SandboxBPF.                                                               *)
OpenProc ==
  /\ pc = "idle" /\ Main \notin proc_fds
  /\ IF chrooted THEN Die /\ UNCHANGED proc_fds
     ELSE proc_fds' = proc_fds \union {Main} /\ UNCHANGED pcVars
  /\ UNCHANGED <<threadVars, credentialVars, filters, started, tsync, must_sync>>

(* The sandbox becomes the owner; nobody gives a descriptor to one that has  *)
(* started.                                                                  *)
SetProcFd(sandbox) ==
  /\ pc = "idle" /\ Main \in proc_fds /\ sandbox \notin started
  /\ proc_fds' = (proc_fds \ {Main}) \union {sandbox}
  /\ UNCHANGED <<threadVars, credentialVars, filters, started, tsync, must_sync, pcVars>>

(* The probe of KernelSupportsSeccompTsync is answered by a filter that is   *)
(* in force as that filter likes: with the truth, that there is no such      *)
(* call, or with something that is not expected.                             *)
Probed == {tsync} \union (IF filters[Main] = {} THEN {} ELSE {FALSE})

(* Up to the check of the level.  A sandbox without a descriptor of /proc    *)
(* opens one.                                                                *)
StartSandbox(sandbox, level) ==
  /\ pc = "idle"
  /\ \/ /\ \/ sandbox \in started
           \/ sandbox \notin proc_fds /\ chrooted
           \/ filters[Main] # {}
           \/ level = "MULTI_THREADED" /\ FALSE \in Probed
        /\ Die /\ UNCHANGED <<proc_fds, must_sync>>
     \/ /\ sandbox \notin started
        /\ sandbox \in proc_fds \/ ~chrooted
        /\ proc_fds' = proc_fds \union {sandbox}
        /\ \E supports_tsync \in Probed :
             /\ level = "MULTI_THREADED" => supports_tsync
             /\ must_sync' = supports_tsync
        /\ Goto(IF level = "SINGLE_THREADED" THEN "assert" ELSE "install", sandbox)
  /\ UNCHANGED <<threadVars, credentialVars, filters, started, tsync>>

(* Mutant: filters are put on the calling thread only. *)
InstallFilterAlone ==
  /\ pc = "install"
  /\ must_sync' = FALSE
  /\ filters' = [filters EXCEPT ![Main] = @ \union {arg}]
  /\ started' = started \union {arg}
  /\ Goto("idle", NoOne)
  /\ proc_fds' = proc_fds \ {arg}
  /\ UNCHANGED <<threadVars, credentialVars, tsync>>

(* The descriptor of /proc is closed first.  The kernel refuses to bring the *)
(* threads together when one has a filter that the caller has not, and may   *)
(* refuse for other reasons.                                                 *)
InstallFilter ==
  /\ pc = "install"
  /\ must_sync' = FALSE
  /\ proc_fds' = proc_fds \ {arg}
  /\ \/ Die /\ UNCHANGED <<filters, started>>
     \/ /\ must_sync => \A t \in Running : filters[t] \subseteq filters[Main]
        /\ filters' = [t \in Threads |->
                         IF t = Main \/ (must_sync /\ t \in Running)
                         THEN filters[Main] \union {arg} ELSE filters[t]]
        /\ started' = started \union {arg}
        /\ Goto("idle", NoOne)
  /\ UNCHANGED <<threadVars, credentialVars, tsync>>

-----------------------------------------------------------------------------
MainStep == Join \/ RunWhileTrue \/ WatchEnds \/ AssertSingleThreaded \/ HasOpenDirectory \/ InstallFilter

EntryNext ==
  \/ \E t \in Workers :
       \/ StartThread(t) \/ WorkerLeaves(t) \/ TaskAppears(t) \/ TaskVanishes(t)
       \/ \E step \in {"join", "joinAndWatch"} : StopThread(t, step)
  \/ MainStep
  \/ \E cs \in SUBSET Capabilities : SetCapabilities(cs)
  \/ DropAllCapabilitiesOnCurrentThread \/ MoveToNewUserNS \/ DropFileSystemAccess
  \/ OpenDirectory \/ CloseDirectory \/ OpenProc
  \/ \E sandbox \in Sandboxes :
       \/ SetProcFd(sandbox)
       \/ \E level \in {"SINGLE_THREADED", "MULTI_THREADED"} : StartSandbox(sandbox, level)

(* Main runs when it can, and a worker ends when it is told to; the kernel   *)
(* takes its time with /proc.                                                *)
WorkerStep == \E t \in Workers : WorkerLeaves(t)

EntryFairness == WF_entryVars(MainStep) /\ WF_entryVars(WorkerStep)

EntrySafety == EntryInit /\ [][EntryNext]_entryVars
EntrySpec == EntrySafety /\ EntryFairness

-----------------------------------------------------------------------------
(* "the way to stop threads before calling IsSingleThreaded()"               *)
(* (thread_helpers.h:36): but for the one that is being started every thread *)
(* that runs is in /proc, and none that was stopped and watched is.          *)
ProcAgrees ==
  /\ pc \notin {"appear", "died"} => Running \subseteq task
  /\ \A t \in task : thread[t] \notin {"new", "gone"}

(* Once SetCapabilities has returned true for the process, no thread of it   *)
(* that runs has more, until it moves to a user namespace of its own         *)
(* (credentials.cc:216): capset changes one thread.                          *)
CapsWithinLimit ==
  \A t \in Threads : t = Main \/ t \in Running => caps[t] \subseteq limit

(* Once StartSandbox has returned, every thread of the process that runs has *)
(* the filter, those that are started later included (sandbox_bpf.h:50).     *)
FilterOnAllThreads ==
  \A t \in Threads : t = Main \/ t \in Running => started \subseteq filters[t]

(* Once DropFileSystemAccess has returned, no thread can reach the file      *)
(* system by a name, nor by a directory that is open, but for the one        *)
(* descriptor of /proc the call was given, which a sandbox that has started  *)
(* does not keep (credentials.cc:334).                                       *)
NoWayOut ==
  chrooted /\ pc \notin {"chrooted", "died"} =>
    /\ ~dir_open
    /\ \A one, other \in proc_fds : one = other
    /\ proc_fds \intersect started = {}

(* A process that gave up its root and its capabilities gets none again,     *)
(* though a user namespace of its own gives a process all of them.           *)
StaysLocked ==
  [][chrooted /\ limit = {} => \A t \in Threads : t = Main \/ t \in Running' => caps'[t] = {}]_entryVars

(* Every call comes to an end, or ends the process, whatever /proc says.     *)
CallsEnd == pc # "idle" ~> pc \in {"idle", "died"}
================================================================================
