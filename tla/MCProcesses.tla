------------------------------ MODULE MCProcesses ------------------------------
(* Instances for TLC of a process that enters the sandbox, of a scoped child *)
(* process, of an init process, and of a parent on the Mac with its sandboxed*)
(* children: an execution is one of the four, chosen at its start.           *)
EXTENDS SandboxEntry, ScopedProcess, InitReaper, BootstrapSandbox, TLC

CONSTANTS w1, w2, s1, s2, o1, o2, SysAdmin, SIGABRT, c1, c2, d1, p1, p2

MCPolicies ==
  {[rules |-> [name \in {"listed"} |-> "ALLOW"], default_rule |-> "DENY_ERROR"],
   [rules |-> [name \in {"listed"} |-> "DENY_DUMMY_PORT"], default_rule |-> "SUBSTITUTE_PORT"]}
MCRequests ==
  {[kind |-> "lookUp", name |-> "listed"], [kind |-> "lookUp", name |-> "not listed"],
   [kind |-> "swapInteger", read_only |-> TRUE], [kind |-> "swapInteger", read_only |-> FALSE],
   [kind |-> "domainManagement"], [kind |-> "unknown"]}

VARIABLE part

MCInit ==
  /\ part \in {"entry", "scoped", "init", "bootstrap"}
  /\ EntryInit /\ ScopedInit /\ ReaperInit /\ BootstrapInit
  /\ part # "entry" => tsync /\ caps[Main] = {}

vars == <<part, entryVars, scopedVars, reaperVars, bootstrapVars>>

Entry(step) == part = "entry" /\ step /\ UNCHANGED <<part, scopedVars, reaperVars, bootstrapVars>>
Scoped(step) == part = "scoped" /\ step /\ UNCHANGED <<part, entryVars, reaperVars, bootstrapVars>>
Reaper(step) == part = "init" /\ step /\ UNCHANGED <<part, entryVars, scopedVars, bootstrapVars>>
Bootstrap(step) == part = "bootstrap" /\ step /\ UNCHANGED <<part, entryVars, scopedVars, reaperVars>>

MCNext == Entry(EntryNext) \/ Scoped(ScopedNext) \/ Reaper(ReaperNext) \/ Bootstrap(BootstrapNext)

(* The fairness of each part, in its executions.                             *)
MCFairness ==
  /\ WF_vars(Entry(MainStep)) /\ WF_vars(Entry(WorkerStep))
  /\ WF_vars(Scoped(ParentStep)) /\ WF_vars(Scoped(NotifyParent))
  /\ WF_vars(Reaper(InitStep)) /\ WF_vars(Reaper(Continue))
  /\ WF_vars(Bootstrap(CheckInServer)) /\ WF_vars(Bootstrap(DemuxMessage))

MCSpec == MCInit /\ [][MCNext]_vars /\ MCFairness

(* Nobody waits forever for another process: a call that watches /proc, the  *)
(* first wait for the closure and the destructor of a scoped child, init for *)
(* the children that end, and a child on the Mac for the reply to its        *)
(* check-in (thread_helpers.cc:48, scoped_process.cc:99,                     *)
(* init_process_reaper.cc:64, bootstrap_sandbox.cc:250).                     *)
WaitsEnd ==
  CallsEnd /\ FirstReadEnds /\ ChildDestroyed /\ EndedIsReaped /\ InitEnds /\ CheckInEnds
================================================================================
