------------------------ MODULE BrokerServices_proofs ------------------------
(* What holds of BrokerServices for any number of targets and processes.     *)
EXTENDS BrokerServices, SequenceTheorems, FiniteSetTheorems, TLAPS

USE DEF jobVars, policyVars, kernelVars, counters, workerVars, callerVars,
        mainVars, jobState, serviceVars

(* TypeOK with what makes it inductive: a spawn under way has a number and a *)
(* process, and FreeResources runs for the tracker of a packet.              *)
Typed ==
  /\ TypeOK
  /\ LockHeld => spawned \in Targets /\ pid[spawned] \in Pids
  /\ worker = "freeing" => packet.key \in Targets

LEMMA PacketType ==
  /\ NoPacket \in Packets
  /\ \A e \in Events, s \in Targets, p \in Pids \union {NoPid} :
       Packet(e, s, p) \in Packets
BY DEF Packets, NoPacket, Packet

LEMMA ReleaseType ==
  ASSUME TypeOK, NEW gone \in SUBSET Targets, NEW left \in Seq(Targets),
         ReleasePolicy(gone, left)
  PROVE  /\ refs' \in Int /\ targets' \in Seq(Targets)
         /\ object' \in [Targets -> {"none", "live", "deleted"}]
         /\ killed' \in SUBSET Targets
<1>1. ListedIn(left) \in SUBSET Targets
  BY DEF ListedIn
<1>2. \A S \in SUBSET Targets : DeleteTargets(S) =>
        /\ object' \in [Targets -> {"none", "live", "deleted"}]
        /\ killed' \in SUBSET Targets
  BY DEF DeleteTargets, TypeOK
<1>3. CASE refs = 1
  <2>1. gone \union ListedIn(left) \in SUBSET Targets
    BY <1>1
  <2>2. refs' = refs - 1 /\ targets' = <<>>
          /\ DeleteTargets(gone \union ListedIn(left))
    BY <1>3 DEF ReleasePolicy
  <2>3. QED
    BY <1>2, <2>1, <2>2 DEF TypeOK
<1>4. CASE refs # 1
  <2>1. refs' = refs - 1 /\ targets' = left /\ DeleteTargets(gone)
    BY <1>4 DEF ReleasePolicy
  <2>2. QED
    BY <1>2, <2>1 DEF TypeOK
<1>5. QED
  BY <1>3, <1>4

(* The k-th entry behind the i-th.                                           *)
LEMMA IndexShift ==
  ASSUME NEW l \in Int, NEW i \in Int, NEW k \in 1..(l - i)
  PROVE  k \in 1..(l - (i + 1) + 1) /\ (i + 1) + k - 1 = k + i
  OBVIOUS

(* A sequence with one element removed.                                      *)
LEMMA RemoveFacts ==
  ASSUME NEW S, NEW q \in Seq(S), NEW i \in DOMAIN q,
         NEW r, r = SubSeq(q, 1, i - 1) \o SubSeq(q, i + 1, Len(q))
  PROVE  /\ r \in Seq(S)
         /\ Len(r) = Len(q) - 1
         /\ \A k \in 1..Len(r) : r[k] = IF k < i THEN q[k] ELSE q[k + 1]
<1> DEFINE before == SubSeq(q, 1, i - 1)
           after == SubSeq(q, i + 1, Len(q))
<1>1. i \in 1..Len(q) /\ Len(q) \in Nat
  OBVIOUS
<1>2. /\ before \in Seq(S)
      /\ Len(before) = i - 1
      /\ \A k \in 1..(i - 1) : before[k] = q[k]
  BY <1>1
<1>3. /\ after \in Seq(S)
      /\ Len(after) = Len(q) - i
      /\ \A k \in 1..(Len(q) - i) : after[k] = q[k + i]
  <2> DEFINE l == Len(q)
  <2>0. l \in Nat /\ i \in 1..l /\ i + 1 \in Int /\ after = SubSeq(q, i + 1, l)
    BY <1>1
  <2>1. \A k \in (i + 1)..l : q[k] \in S
    BY <1>1
  <2> HIDE DEF l, after
  <2>2. /\ after \in Seq(S)
        /\ Len(after) = IF i + 1 <= l THEN l - (i + 1) + 1 ELSE 0
        /\ \A k \in 1..(l - (i + 1) + 1) : after[k] = q[(i + 1) + k - 1]
    <3> DEFINE m == i + 1
    <3>1. l \in Int /\ m \in Int /\ after = SubSeq(q, m, l) /\ \A k \in m..l : q[k] \in S
      BY <2>0, <2>1
    <3> HIDE DEF m
    <3>2. /\ SubSeq(q, m, l) \in Seq(S)
          /\ Len(SubSeq(q, m, l)) = IF m <= l THEN l - m + 1 ELSE 0
          /\ \A k \in 1..(l - m + 1) : SubSeq(q, m, l)[k] = q[m + k - 1]
      BY <3>1, SubSeqProperties
    <3>3. /\ after \in Seq(S)
          /\ Len(after) = IF m <= l THEN l - m + 1 ELSE 0
          /\ \A k \in 1..(l - m + 1) : after[k] = q[m + k - 1]
      BY <3>1, <3>2
    <3> QED
      BY <3>3 DEF m
  <2>3. Len(after) = l - i
    <3>1. l \in Nat /\ i \in 1..l
      BY <2>0
    <3>2. Len(after) = IF i + 1 <= l THEN l - (i + 1) + 1 ELSE 0
      BY <2>2
    <3> QED
      BY <3>1, <3>2
  <2>4. ASSUME NEW k \in 1..(l - i) PROVE after[k] = q[k + i]
    <3>0. l \in Int /\ i \in Int
      BY <2>0
    <3>1. k \in 1..(l - (i + 1) + 1) /\ (i + 1) + k - 1 = k + i
      BY <3>0, IndexShift
    <3> QED
      BY <2>2, <3>1
  <2> QED
    BY <2>2, <2>3, <2>4 DEF l
<1> HIDE DEF before, after
<1>4. /\ r \in Seq(S)
      /\ Len(r) = Len(before) + Len(after)
      /\ \A k \in 1..(Len(before) + Len(after)) :
           r[k] = IF k <= Len(before) THEN before[k]
                  ELSE after[k - Len(before)]
  BY <1>2, <1>3, ConcatProperties DEF before, after
<1>5. Len(r) = Len(q) - 1
  <2>1. Len(r) = Len(before) + Len(after)
    BY <1>4
  <2>2. Len(before) = i - 1 /\ Len(after) = Len(q) - i
    BY <1>2, <1>3
  <2>3. (i - 1) + (Len(q) - i) = Len(q) - 1
    BY <1>1
  <2>4. QED
    BY <2>1, <2>2, <2>3
<1>6. ASSUME NEW k \in 1..Len(r)
      PROVE  r[k] = IF k < i THEN q[k] ELSE q[k + 1]
  <2> k \in 1..Len(r)
    BY <1>6
  <2>1. k \in Int /\ 1 <= k /\ k <= Len(q) - 1 /\ i \in Int /\ 1 <= i /\ i <= Len(q)
    BY <1>1, <1>5
  <2> HIDE DEF before, after
  <2>2. r[k] = IF k <= i - 1 THEN before[k] ELSE after[k - (i - 1)]
    BY <1>1, <1>2, <1>3, <1>4, <2>1
  <2>3. CASE k < i
    <3>1. k \in 1..(i - 1)
      BY <2>1, <2>3
    <3>2. QED
      BY <1>2, <2>1, <2>2, <2>3, <3>1
  <2>4. CASE ~(k < i)
    <3>1. k - (i - 1) \in 1..(Len(q) - i) /\ (k - (i - 1)) + i = k + 1
      BY <1>1, <2>1, <2>4
    <3>2. after[k - (i - 1)] = q[(k - (i - 1)) + i]
      BY <1>3, <3>1
    <3>3. r[k] = after[k - (i - 1)]
      <4>1. ~(k <= i - 1)
        BY <2>1, <2>4
      <4>2. QED
        BY <2>2, <4>1, Zenon
    <3>4. QED
      BY <2>4, <3>1, <3>2, <3>3
  <2>5. QED
    BY <2>3, <2>4
<1>7. QED
  BY <1>4, <1>5, <1>6

LEMMA OnJobEmptyType ==
  ASSUME TypeOK, NEW h, OnJobEmpty(h)
  PROVE  /\ refs' \in Int /\ targets' \in Seq(Targets)
         /\ object' \in [Targets -> {"none", "live", "deleted"}]
         /\ killed' \in SUBSET Targets
<1>1. CASE FirstWithJob(h) = {}
  BY <1>1, ReleaseType DEF OnJobEmpty, TypeOK
<1>2. CASE FirstWithJob(h) # {}
  <2>1. PICK i \in FirstWithJob(h) :
          ReleasePolicy({targets[i]}, SubSeq(targets, 1, i - 1) \o
                                      SubSeq(targets, i + 1, Len(targets)))
    BY <1>2 DEF OnJobEmpty
  <2>2. i \in DOMAIN targets /\ targets \in Seq(Targets)
    BY <2>1 DEF FirstWithJob, TypeOK
  <2>3. SubSeq(targets, 1, i - 1) \o SubSeq(targets, i + 1, Len(targets))
          \in Seq(Targets)
    BY <2>2, RemoveFacts
  <2>4. {targets[i]} \in SUBSET Targets
    BY <2>2
  <2>5. QED
    BY <2>1, <2>3, <2>4, ReleaseType
<1>3. QED
  BY <1>1, <1>2

LEMMA PostType ==
  ASSUME TypeOK, NEW ps \in Seq(Packets), Post(ps)
  PROVE  port' \in Seq(Packets)
<1>1. port \in Seq(Packets)
  BY DEF TypeOK
<1>2. QED
  BY <1>1, ConcatProperties DEF Post

LEMMA NotifyPolicyType ==
  ASSUME TypeOK, NEW s \in Targets, NotifyPolicy(s)
  PROVE  /\ refs' \in Int /\ targets' \in Seq(Targets)
         /\ object' \in [Targets -> {"none", "live", "deleted"}]
         /\ killed' \in SUBSET Targets
         /\ tracker' \in [Targets -> {"none", "set", "closed", "freed", "destroyed"}]
<1>1. tracker' \in [Targets -> {"none", "set", "closed", "freed", "destroyed"}]
  BY DEF NotifyPolicy, TypeOK
<1>2. QED
  BY <1>1, OnJobEmptyType DEF NotifyPolicy

LEMMA CallerType ==
  ASSUME Typed, Caller
  PROVE  TypeOK'
<1> TypeOK
  BY DEF Typed
<1>1. CASE SpawnTarget
  <2>1. spawned + 1 \in Targets /\ spawned + 1 \in 0..MaxSpawns
    BY <1>1, BoundsAssumption DEF SpawnTarget, TypeOK, Targets
  <2>2. PICK l \in Levels, p \in FreePids, h \in FreeHandles \union {NoHandle} :
          /\ level' = [level EXCEPT ![spawned + 1] = l]
          /\ pid' = [pid EXCEPT ![spawned + 1] = p]
          /\ job' = [job EXCEPT ![spawned + 1] = h]
          /\ job_open' = [job_open EXCEPT ![spawned + 1] = (h # NoHandle)]
          /\ object' = [object EXCEPT ![spawned + 1] = "live"]
          /\ procs' = [procs EXCEPT ![spawned + 1] = {p}]
    BY <1>1 DEF SpawnTarget
  <2>3. l \in JobLevels /\ p \in Pids /\ h \in Handles \union {NoHandle}
    BY LevelsAssumption DEF FreePids, FreeHandles
  <2>4. /\ level' \in [Targets -> JobLevels]
        /\ pid' \in [Targets -> Pids \union {NoPid}]
        /\ job' \in [Targets -> Handles \union {NoHandle}]
        /\ job_open' \in [Targets -> BOOLEAN]
        /\ object' \in [Targets -> {"none", "live", "deleted"}]
        /\ procs' \in [Targets -> SUBSET Pids]
    BY <2>2, <2>3 DEF TypeOK
  <2>5. spawned' = spawned + 1 /\ main' = "create"
    BY <1>1 DEF SpawnTarget
  <2>6. QED
    BY <1>1, <2>1, <2>4, <2>5 DEF SpawnTarget, TypeOK, MainPC
<1>2. CASE SpawnCleanup
  BY <1>2 DEF SpawnCleanup, TypeOK, MainPC, DeleteTargets, Typed, LockHeld
<1>3. CASE AddTarget
  BY <1>3 DEF AddTarget, TypeOK, MainPC, Typed, LockHeld
<1>4. CASE LeakPolicy
  BY <1>4 DEF LeakPolicy, TypeOK, MainPC
<1>5. CASE WaitForAllTargets
  BY <1>5 DEF WaitForAllTargets, TypeOK, MainPC
<1>6. CASE WaitReturns
  BY <1>6 DEF WaitReturns, TypeOK, MainPC
<1>7. CASE WorkerJoined
  BY <1>7 DEF WorkerJoined, TypeOK, MainPC
<1>8. CASE JoinTimesOut
  BY <1>8 DEF JoinTimesOut, TypeOK, MainPC
<1>9. CASE ClearClosesJob
  BY <1>9 DEF ClearClosesJob, TypeOK, MainPC, CloseJob
<1>10. CASE ClearDestroys
  BY <1>10 DEF ClearDestroys, TypeOK, MainPC
<1>11. CASE ResetThreadPool
  BY <1>11 DEF ResetThreadPool, TypeOK, MainPC
<1>12. CASE TrackJob
  <2>1. spawned \in Targets
    BY <1>12 DEF TrackJob, Typed, LockHeld
  <2>2. pid[spawned] \in Pids \union {NoPid}
    BY <2>1 DEF TypeOK
  <2>3. <<Packet("NEW_PROCESS", spawned, pid[spawned])>> \in Seq(Packets)
    BY <2>1, <2>2, PacketType DEF Events
  <2>4. port' \in Seq(Packets)
    BY <1>12, <2>3, PostType DEF TrackJob
  <2>5. tracker' \in [Targets -> {"none", "set", "closed", "freed", "destroyed"}]
    BY <1>12 DEF TrackJob, TypeOK
  <2>6. pid[spawned] \in Pids
    BY <1>12, <2>1 DEF TrackJob, Typed, LockHeld
  <2>7. QED
    BY <1>12, <2>4, <2>5, <2>6 DEF TrackJob, TypeOK, MainPC
<1>13. CASE DropPolicy
  <2>1. ReleasePolicy({}, targets) /\ targets \in Seq(Targets)
    BY <1>13 DEF DropPolicy, TypeOK
  <2>2. QED
    BY <1>13, <2>1, ReleaseType DEF DropPolicy, TypeOK
<1>14. CASE DestroyBroker
  <2>1. <<NoPacket>> \in Seq(Packets)
    BY PacketType
  <2>2. port' \in Seq(Packets)
    BY <1>14, <2>1, PostType DEF DestroyBroker
  <2>3. QED
    BY <1>14, <2>2 DEF DestroyBroker, TypeOK, MainPC
<1>15. CASE ClearNotifiesPolicy
  <2>1. PICK s \in Targets : NotifyPolicy(s)
    BY <1>15 DEF ClearNotifiesPolicy
  <2>2. QED
    BY <1>15, <2>1, NotifyPolicyType DEF ClearNotifiesPolicy, TypeOK, MainPC
<1>16. QED
  BY <1>1, <1>2, <1>3, <1>4, <1>5, <1>6, <1>7, <1>8, <1>9, <1>10, <1>11,
     <1>12, <1>13, <1>14, <1>15 DEF Caller

LEMMA WorkerType ==
  ASSUME Typed, TargetEventsThread
  PROVE  TypeOK'
<1> TypeOK
  BY DEF Typed
<1> USE PacketType DEF TypeOK, WorkerPC, PacketDone, Got
<1>1. CASE WorkerStarts
  BY <1>1 DEF WorkerStarts
<1>2. CASE GetQueuedCompletionStatus
  <2>1. Head(port) \in Packets /\ Tail(port) \in Seq(Packets)
    BY <1>2 DEF GetQueuedCompletionStatus
  <2>2. QED
    BY <1>2, <2>1 DEF GetQueuedCompletionStatus
<1>3. CASE LookUpNewProcess
  BY <1>3 DEF LookUpNewProcess
<1>4. CASE CountNewProcess
  <2>1. target_counter' \in Int /\ untracked_target_counter' \in Int
    BY <1>4 DEF CountNewProcess
  <2>2. no_targets' \in BOOLEAN
    BY <1>4, Zenon DEF CountNewProcess
  <2>3. packet' \in Packets /\ worker' \in WorkerPC /\ known' \in BOOLEAN
    BY <1>4 DEF CountNewProcess
  <2>4. QED
    BY <1>4, <2>1, <2>2, <2>3 DEF CountNewProcess
<1>5. CASE EraseExitedProcess
  BY <1>5 DEF EraseExitedProcess
<1>6. CASE CountExitedProcess
  <2>1. target_counter' \in Int /\ untracked_target_counter' \in Int
    BY <1>6 DEF CountExitedProcess
  <2>2. no_targets' \in BOOLEAN
    BY <1>6, Zenon DEF CountExitedProcess
  <2>3. packet' \in Packets /\ worker' \in WorkerPC /\ known' \in BOOLEAN
    BY <1>6 DEF CountExitedProcess
  <2>4. QED
    BY <1>6, <2>1, <2>2, <2>3 DEF CountExitedProcess
<1>7. CASE ActiveProcessLimit
  <2>1. target_counter' \in Int /\ untracked_target_counter' \in Int
    BY <1>7 DEF ActiveProcessLimit
  <2>2. no_targets' \in BOOLEAN
    BY <1>7, Zenon DEF ActiveProcessLimit
  <2>3. packet' \in Packets /\ worker' \in WorkerPC /\ known' \in BOOLEAN
    BY <1>7 DEF ActiveProcessLimit
  <2>4. QED
    BY <1>7, <2>1, <2>2, <2>3 DEF ActiveProcessLimit
<1>8. CASE ProcessMemoryLimit
  <2>1. packet.key \in Targets
    BY <1>8 DEF ProcessMemoryLimit, Packets, NoPacket
  <2>2. QED
    BY <1>8, <2>1 DEF ProcessMemoryLimit
<1>9. CASE WorkerClosesJob
  <2>1. packet.key \in Targets
    BY <1>9 DEF WorkerClosesJob, Packets, NoPacket
  <2>2. QED
    BY <1>9, <2>1 DEF WorkerClosesJob, CloseJob
<1>10. CASE WorkerNotifiesPolicy
  <2>1. packet.key \in Targets
    BY <1>10 DEF WorkerNotifiesPolicy, Typed
  <2>2. QED
    BY <1>10, <2>1, NotifyPolicyType DEF WorkerNotifiesPolicy
<1>11. CASE NothingToFree
  BY <1>11 DEF NothingToFree
<1>12. CASE WorkerQuits
  BY <1>12 DEF WorkerQuits
<1>13. CASE WorkerNotifiesLate
  BY <1>13, OnJobEmptyType DEF WorkerNotifiesLate
<1>14. QED
  BY <1>1, <1>2, <1>3, <1>4, <1>5, <1>6, <1>7, <1>8, <1>9, <1>10, <1>11,
     <1>12, <1>13 DEF TargetEventsThread

LEMMA KernelType ==
  ASSUME TypeOK, NEW s \in Targets, Kernel(s)
  PROVE  TypeOK'
<1>1. CASE ProcessExits(s)
  <2>1. PICK p \in procs[s] :
          /\ procs' = [procs EXCEPT ![s] = @ \ {p}]
          /\ IF ~Associated(s) THEN UNCHANGED port
             ELSE Post(<<Packet("EXIT_PROCESS", s, p)>> \o
                       (IF procs[s] = {p}
                        THEN <<Packet("ACTIVE_PROCESS_ZERO", s, NoPid)>>
                        ELSE <<>>))
          /\ UNCHANGED <<serviceVars, killed, kernelVars>>
    BY <1>1 DEF ProcessExits
  <2>2. p \in Pids /\ procs' \in [Targets -> SUBSET Pids]
    BY <2>1 DEF TypeOK
  <2>3. /\ Packet("EXIT_PROCESS", s, p) \in Packets
        /\ Packet("ACTIVE_PROCESS_ZERO", s, NoPid) \in Packets
    BY <2>2, PacketType DEF Events
  <2>4. /\ <<Packet("EXIT_PROCESS", s, p)>> \in Seq(Packets)
        /\ (IF procs[s] = {p} THEN <<Packet("ACTIVE_PROCESS_ZERO", s, NoPid)>>
            ELSE <<>>) \in Seq(Packets)
    BY <2>3
  <2>5. <<Packet("EXIT_PROCESS", s, p)>> \o
          (IF procs[s] = {p} THEN <<Packet("ACTIVE_PROCESS_ZERO", s, NoPid)>>
           ELSE <<>>) \in Seq(Packets)
    BY <2>4, ConcatProperties
  <2>6. port' \in Seq(Packets)
    BY <2>1, <2>5, PostType DEF TypeOK
  <2>7. QED
    BY <2>1, <2>2, <2>6 DEF TypeOK
<1>2. CASE ChildCreated(s)
  <2>1. PICK p \in FreePids :
          /\ procs' = [procs EXCEPT ![s] = @ \union {p}]
          /\ Post(<<Packet("NEW_PROCESS", s, p)>>)
    BY <1>2 DEF ChildCreated
  <2>2. p \in Pids /\ procs' \in [Targets -> SUBSET Pids]
    BY <2>1 DEF FreePids, TypeOK
  <2>3. <<Packet("NEW_PROCESS", s, p)>> \in Seq(Packets)
    BY <2>2, PacketType DEF Events
  <2>4. port' \in Seq(Packets)
    BY <2>1, <2>3, PostType
  <2>5. QED
    BY <1>2, <2>2, <2>4 DEF ChildCreated, MayCreate, TypeOK
<1>3. CASE ChildRefused(s)
  <2>1. PICK p \in FreePids : Post(<<Packet("ACTIVE_PROCESS_LIMIT", s, NoPid),
                                     Packet("EXIT_PROCESS", s, p)>>)
    BY <1>3 DEF ChildRefused
  <2>2. p \in Pids
    BY <2>1 DEF FreePids
  <2>3. <<Packet("ACTIVE_PROCESS_LIMIT", s, NoPid),
          Packet("EXIT_PROCESS", s, p)>> \in Seq(Packets)
    BY <2>2, PacketType DEF Events
  <2>4. port' \in Seq(Packets)
    BY <2>1, <2>3, PostType
  <2>5. QED
    BY <1>3, <2>4 DEF ChildRefused, MayCreate, TypeOK
<1>4. CASE MemoryExceeded(s)
  <2>1. PICK p \in procs[s] : Post(<<Packet("PROCESS_MEMORY_LIMIT", s, p)>>)
    BY <1>4 DEF MemoryExceeded
  <2>2. p \in Pids
    BY <2>1 DEF TypeOK
  <2>3. <<Packet("PROCESS_MEMORY_LIMIT", s, p)>> \in Seq(Packets)
    BY <2>2, PacketType DEF Events
  <2>4. port' \in Seq(Packets)
    BY <2>1, <2>3, PostType
  <2>5. QED
    BY <1>4, <2>4 DEF MemoryExceeded, TypeOK
<1>5. QED
  BY <1>1, <1>2, <1>3, <1>4 DEF Kernel

LEMMA TypedStep == Typed /\ [Next]_vars => Typed'
<1> SUFFICES ASSUME Typed, [Next]_vars PROVE Typed'
  OBVIOUS
<1>1. TypeOK'
  <2>1. CASE UNCHANGED vars
    BY <2>1 DEF Typed, TypeOK, vars
  <2>2. QED
    BY <2>1, CallerType, WorkerType, KernelType DEF Next, Typed
<1>2. LockHeld' => spawned' \in Targets /\ pid'[spawned'] \in Pids
  <2>1. CASE SpawnTarget
    <3>1. spawned + 1 \in Targets
      BY <2>1, BoundsAssumption DEF SpawnTarget, Typed, TypeOK, Targets
    <3>2. QED
      BY <2>1, <3>1 DEF SpawnTarget, FreePids, Typed, TypeOK
  <2>2. CASE Caller /\ ~SpawnTarget
    BY <2>2 DEF Typed, LockHeld, Caller, SpawnCleanup, AddTarget, TrackJob,
       LeakPolicy, WaitForAllTargets, WaitReturns, DropPolicy, DestroyBroker,
       WorkerJoined, JoinTimesOut, ClearClosesJob, ClearNotifiesPolicy,
       ClearDestroys, ResetThreadPool
  <2>3. CASE TargetEventsThread
    BY <2>3 DEF Typed, LockHeld, TargetEventsThread, WorkerStarts,
       GetQueuedCompletionStatus, LookUpNewProcess, CountNewProcess,
       EraseExitedProcess, CountExitedProcess, ActiveProcessLimit,
       ProcessMemoryLimit, WorkerClosesJob, WorkerNotifiesPolicy,
       WorkerNotifiesLate, NothingToFree, WorkerQuits
  <2>4. CASE \E s \in Targets : Kernel(s)
    BY <2>4 DEF Typed, LockHeld, Kernel, ProcessExits, ChildCreated,
       ChildRefused, MemoryExceeded
  <2>5. CASE UNCHANGED vars
    BY <2>5 DEF Typed, LockHeld, vars
  <2>6. QED
    BY <2>1, <2>2, <2>3, <2>4, <2>5 DEF Next
<1>3. worker' = "freeing" => packet'.key \in Targets
  <2>1. CASE Caller
    BY <2>1 DEF Typed, Caller, SpawnTarget, SpawnCleanup, AddTarget, TrackJob,
       LeakPolicy, WaitForAllTargets, WaitReturns, DropPolicy, DestroyBroker,
       WorkerJoined, JoinTimesOut, ClearClosesJob, ClearNotifiesPolicy,
       ClearDestroys, ResetThreadPool
  <2>2. CASE TargetEventsThread
    BY <2>2 DEF Typed, TypeOK, PacketDone, Got, Packets, NoPacket,
       TargetEventsThread, WorkerStarts, GetQueuedCompletionStatus,
       LookUpNewProcess, CountNewProcess, EraseExitedProcess,
       CountExitedProcess, ActiveProcessLimit, ProcessMemoryLimit,
       WorkerClosesJob, WorkerNotifiesPolicy, WorkerNotifiesLate,
       NothingToFree, WorkerQuits
  <2>3. CASE \E s \in Targets : Kernel(s)
    BY <2>3 DEF Typed, Kernel, ProcessExits, ChildCreated, ChildRefused,
       MemoryExceeded
  <2>4. CASE UNCHANGED vars
    BY <2>4 DEF Typed, vars
  <2>5. QED
    BY <2>1, <2>2, <2>3, <2>4 DEF Next
<1>4. QED
  BY <1>1, <1>2, <1>3 DEF Typed

LEMMA InitTyped == Init => Typed
<1>1. 0 \in 0..MaxSpawns /\ NoPacket \in Packets
  BY BoundsAssumption, PacketType
<1>2. ASSUME Init PROVE TypeOK
  <2>1. /\ main \in MainPC /\ worker \in WorkerPC /\ packet \in Packets
        /\ level \in [Targets -> JobLevels]
        /\ tracker \in [Targets ->
             {"none", "set", "closed", "freed", "destroyed"}]
    BY <1>1, <1>2 DEF Init, MainPC, WorkerPC, JobLevels
  <2>2. targets \in Seq(Targets) /\ port \in Seq(Packets)
    BY <1>2 DEF Init
  <2>3. /\ pid \in [Targets -> Pids \union {NoPid}]
        /\ job \in [Targets -> Handles \union {NoHandle}]
        /\ job_open \in [Targets -> BOOLEAN]
        /\ object \in [Targets -> {"none", "live", "deleted"}]
        /\ procs \in [Targets -> SUBSET Pids]
        /\ births \in [Targets -> Nat]
    BY <1>2 DEF Init
  <2>4. /\ spawned \in 0..MaxSpawns /\ refs \in Int
        /\ target_counter \in Int /\ untracked_target_counter \in Int
    BY <1>1, <1>2 DEF Init
  <2>5. /\ held \in BOOLEAN /\ no_targets \in BOOLEAN
        /\ known \in BOOLEAN /\ pool \in {"up", "gone"}
        /\ ids \in SUBSET Pids /\ oom \in SUBSET Targets
        /\ killed \in SUBSET Targets
    BY <1>2 DEF Init
  <2>6. QED
    BY <2>1, <2>2, <2>3, <2>4, <2>5 DEF TypeOK
<1>3. QED
  BY <1>2 DEF Init, Typed, LockHeld

(* Every variable keeps its type: in particular the trackers, the policy's   *)
(* list and the queued packets name targets that were spawned.               *)
THEOREM TypeCorrect == Spec => []TypeOK
<1>1. Typed => TypeOK
  BY DEF Typed
<1>2. QED
  BY <1>1, InitTyped, TypedStep, PTL DEF Spec

-----------------------------------------------------------------------------
(* The target found by a stale job handle.                                   *)

Holders == {s \in Targets : tracker[s] \in {"set", "closed"}}
Listed(s) == \E i \in DOMAIN targets : targets[i] = s

(* targets_ is in the order of the spawns, the one under way not yet in it.  *)
ListOrder ==
  /\ \A i, j \in DOMAIN targets : i < j => targets[i] < targets[j]
  /\ \A i \in DOMAIN targets :
       targets[i] <= spawned /\ (main = "create" => targets[i] # spawned)

(* A job never has the handle value of an older job that is still open.      *)
HandlesDistinct ==
  \A s, t \in Targets :
    t < s /\ s <= spawned /\ job_open[t] /\ job[s] # NoHandle
      => job[s] # job[t]

(* The listed targets that have a job are those whose trackers have a policy *)
(* and the one about to get a tracker.                                       *)
Tracking ==
  /\ \A s \in Targets :
       (s > spawned \/ (LockHeld /\ s = spawned)) => tracker[s] = "none"
  /\ \A s \in Targets : tracker[s] = "set" => job_open[s]
  /\ \A s \in Holders : Listed(s) /\ job[s] # NoHandle
  /\ \A s \in Targets : Listed(s) /\ job[s] # NoHandle
       => s \in Holders \/ (main = "track" /\ s = spawned)
  /\ main = "track" => Listed(spawned)
  /\ LockHeld /\ job[spawned] # NoHandle => job_open[spawned]

(* One tracker at a time is between job.Close() and OnJobEmpty: the worker's *)
(* or, when the worker has gone, the destructor's.                           *)
ClosedOwner ==
  /\ \A s \in Targets : tracker[s] = "closed" =>
       \/ worker = "freeing" /\ packet.key = s
       \/ main = "clearing" /\ IsFront(s)
  /\ main \in {"clear", "clearing", "down"} => worker = "done"

(* The caller and every tracker with a policy hold a reference to it.        *)
RefsCover ==
  /\ LockHeld => held
  /\ refs >= (IF held THEN 1 ELSE 0) + Cardinality(Holders)

StaleInv == Typed /\ ListOrder /\ HandlesDistinct /\ Tracking /\ ClosedOwner
            /\ RefsCover

LEMMA TargetNumbers == \A s \in Targets : s \in Nat /\ s >= 1
BY DEF Targets

LEMMA HoldersFinite ==
  /\ IsFiniteSet(Holders)
  /\ Cardinality(Holders) \in Nat
<1>1. IsFiniteSet(Targets)
  BY BoundsAssumption, FS_Interval DEF Targets
<1>2. QED
  BY <1>1, FS_Subset, FS_CardinalityType DEF Holders

LEMMA FrontUnique ==
  ASSUME NEW s \in Targets, NEW t \in Targets, IsFront(s), IsFront(t)
  PROVE  s = t
BY TargetNumbers DEF IsFront

LEMMA ClosedUnique ==
  ASSUME ClosedOwner, NEW s \in Targets, NEW t \in Targets,
         tracker[s] = "closed", tracker[t] = "closed"
  PROVE  s = t
BY FrontUnique DEF ClosedOwner

(* Of the entries before that of a closed tracker's target none has its job  *)
(* handle: its job would be open, and the value was given out again.         *)
LEMMA OnlyOwnHandle ==
  ASSUME StaleInv, NEW s \in Targets, tracker[s] = "closed",
         NEW j \in DOMAIN targets, targets[j] < s
  PROVE  job[targets[j]] # job[s]
<1> DEFINE t == targets[j]
<1>1. t \in Targets /\ t < s
  BY DEF StaleInv, Typed, TypeOK
<1>2. s \in Holders /\ job[s] # NoHandle
  BY DEF StaleInv, Tracking, Holders
<1>3. s <= spawned
  <2>1. ~(s > spawned)
    BY DEF StaleInv, Tracking
  <2>2. QED
    BY <2>1, TargetNumbers DEF StaleInv, Typed, TypeOK
<1>4. SUFFICES ASSUME job[t] = job[s] PROVE FALSE
  OBVIOUS
<1>5. Listed(t)
  BY DEF Listed
<1>6. t # spawned
  BY <1>1, <1>3, TargetNumbers DEF StaleInv, Typed, TypeOK
<1>7. t \in Holders
  BY <1>1, <1>2, <1>4, <1>5, <1>6 DEF StaleInv, Tracking
<1>8. CASE tracker[t] = "set"
  <2>1. job_open[t]
    BY <1>1, <1>8 DEF StaleInv, Tracking
  <2>2. QED
    BY <1>1, <1>2, <1>3, <1>4, <2>1 DEF StaleInv, HandlesDistinct
<1>9. CASE tracker[t] = "closed"
  BY <1>1, <1>9, ClosedUnique, TargetNumbers DEF StaleInv
<1>10. QED
  BY <1>7, <1>8, <1>9 DEF Holders

LEMMA NotifyFinds ==
  ASSUME StaleInv, NEW s \in Targets, tracker[s] = "closed"
  PROVE  \E i \in DOMAIN targets :
           targets[i] = s /\ FirstWithJob(job[s]) = {i}
<1>1. PICK i \in DOMAIN targets : targets[i] = s
  BY DEF StaleInv, Tracking, Holders, Listed
<1> DOMAIN targets = 1..Len(targets) /\ Len(targets) \in Nat
  BY DEF StaleInv, Typed, TypeOK
<1>2. \A j \in 1..(i - 1) : ~HasJob(j, job[s])
  <2>1. TAKE j \in 1..(i - 1)
  <2>2. j \in DOMAIN targets /\ j < i
    OBVIOUS
  <2>3. targets[j] < s
    BY <1>1, <2>2 DEF StaleInv, ListOrder
  <2>4. QED
    BY <2>2, <2>3, OnlyOwnHandle DEF HasJob
<1>3. HasJob(i, job[s])
  BY <1>1 DEF HasJob
<1>4. i \in FirstWithJob(job[s])
  BY <1>2, <1>3 DEF FirstWithJob
<1>5. ASSUME NEW k \in FirstWithJob(job[s]) PROVE k = i
  <2>1. k \in DOMAIN targets /\ HasJob(k, job[s])
          /\ \A j \in 1..(k - 1) : ~HasJob(j, job[s])
    BY <1>5 DEF FirstWithJob
  <2>2. ~(k < i)
    BY <1>2, <2>1
  <2>3. ~(i < k)
    BY <1>3, <2>1
  <2>4. QED
    BY <2>1, <2>2, <2>3
<1>6. QED
  BY <1>1, <1>4, <1>5

LEMMA StaleHandle == StaleInv => StaleHandleFindsOwn
BY NotifyFinds DEF StaleHandleFindsOwn

LEMMA NotifyHolders ==
  ASSUME StaleInv, NEW s \in Targets, NotifyPolicy(s)
  PROVE  /\ s \in Holders
         /\ Holders' = Holders \ {s}
         /\ Cardinality(Holders') = Cardinality(Holders) - 1
<1>1. s \in Holders /\ Holders' = Holders \ {s}
  BY DEF NotifyPolicy, Holders, StaleInv, Typed, TypeOK
<1>2. QED
  BY <1>1, HoldersFinite, FS_RemoveElement

(* What removing one entry leaves of a list in order.                        *)
LEMMA RemoveListed ==
  ASSUME TypeOK, NEW i \in DOMAIN targets,
         \A a, b \in DOMAIN targets : a < b => targets[a] < targets[b],
         targets' \in Seq(Targets), Len(targets') = Len(targets) - 1,
         \A k \in 1..Len(targets') :
           targets'[k] = IF k < i THEN targets[k] ELSE targets[k + 1]
  PROVE  /\ \A a, b \in DOMAIN targets' : a < b => targets'[a] < targets'[b]
         /\ \A t \in Targets : Listed(t)' <=> Listed(t) /\ t # targets[i]
         /\ \A a \in DOMAIN targets' : Listed(targets'[a])
<1>1. targets \in Seq(Targets) /\ Len(targets) \in Nat
        /\ DOMAIN targets = 1..Len(targets)
  BY DEF TypeOK
<1>2. \A k \in 1..Len(targets') :
        targets'[k] = IF k < i THEN targets[k] ELSE targets[k + 1]
  OBVIOUS
<1>3. DOMAIN targets' = 1..(Len(targets) - 1) /\ i \in 1..Len(targets)
  BY <1>1
<1>4. ASSUME NEW a \in DOMAIN targets', NEW b \in DOMAIN targets', a < b
      PROVE  targets'[a] < targets'[b]
  <2> DEFINE x == IF a < i THEN a ELSE a + 1
             y == IF b < i THEN b ELSE b + 1
  <2>1. x \in DOMAIN targets /\ y \in DOMAIN targets /\ x < y
    BY <1>1, <1>3, <1>4
  <2>2. targets'[a] = targets[x] /\ targets'[b] = targets[y]
    BY <1>2, <1>3
  <2>3. QED
    BY <2>1, <2>2
<1>5. ASSUME NEW a \in DOMAIN targets'
      PROVE  Listed(targets'[a]) /\ targets'[a] # targets[i]
  <2> DEFINE x == IF a < i THEN a ELSE a + 1
  <2>1. x \in DOMAIN targets /\ x # i
    BY <1>1, <1>3
  <2>2. targets'[a] = targets[x]
    BY <1>2, <1>3
  <2>3. targets[x] # targets[i]
    <3>1. x < i \/ i < x
      BY <1>1, <2>1
    <3>2. targets[x] \in Nat /\ targets[i] \in Nat
      <4> HIDE DEF x
      <4>1. targets[x] \in Targets /\ targets[i] \in Targets
        BY <1>1, <2>1
      <4> QED
        BY <4>1, TargetNumbers
    <3>3. targets[x] < targets[i] \/ targets[i] < targets[x]
      BY <2>1, <3>1
    <3>4. QED
      BY <3>2, <3>3
  <2>4. QED
    BY <2>1, <2>2, <2>3 DEF Listed
<1>6. ASSUME NEW t \in Targets, Listed(t), t # targets[i] PROVE Listed(t)'
  <2>1. PICK x \in DOMAIN targets : targets[x] = t
    BY <1>6 DEF Listed
  <2>2. x # i
    BY <1>6, <2>1
  <2> DEFINE a == IF x < i THEN x ELSE x - 1
  <2>3. a \in DOMAIN targets' /\ x = IF a < i THEN a ELSE a + 1
    BY <1>1, <1>3, <2>2
  <2>4. targets'[a] = t
    BY <1>2, <1>3, <2>1, <2>3
  <2>5. QED
    BY <2>3, <2>4 DEF Listed
<1>7. ASSUME NEW t \in Targets, Listed(t)' PROVE Listed(t) /\ t # targets[i]
  BY <1>5, <1>7 DEF Listed
<1>8. QED
  BY <1>4, <1>5, <1>6, <1>7

LEMMA NotifyList ==
  ASSUME StaleInv, NEW s \in Targets, NotifyPolicy(s)
  PROVE  /\ refs' = refs - 1
         /\ \/ refs = 1 /\ targets' = <<>>
            \/ /\ refs # 1
               /\ \A i, j \in DOMAIN targets' : i < j => targets'[i] < targets'[j]
               /\ \A t \in Targets : Listed(t)' <=> Listed(t) /\ t # s
               /\ \A i \in DOMAIN targets' : Listed(targets'[i])
<1>1. PICK i \in DOMAIN targets :
        targets[i] = s /\ FirstWithJob(job[s]) = {i}
  BY NotifyFinds DEF NotifyPolicy
<1> DEFINE left == SubSeq(targets, 1, i - 1) \o
                   SubSeq(targets, i + 1, Len(targets))
<1>2. ReleasePolicy({targets[i]}, left)
  BY <1>1 DEF NotifyPolicy, OnJobEmpty
<1>3. CASE refs = 1
  BY <1>2, <1>3 DEF ReleasePolicy
<1>4. CASE refs # 1
  <2>1. refs' = refs - 1 /\ targets' = left
    BY <1>2, <1>4 DEF ReleasePolicy
  <2>2. targets \in Seq(Targets) /\ Len(targets) \in Nat
          /\ DOMAIN targets = 1..Len(targets)
    BY DEF StaleInv, Typed, TypeOK
  <2>3. /\ targets' \in Seq(Targets)
        /\ Len(targets') = Len(targets) - 1
        /\ \A k \in 1..Len(targets') :
             targets'[k] = IF k < i THEN targets[k] ELSE targets[k + 1]
    <3> HIDE DEF left
    <3>1. /\ left \in Seq(Targets) /\ Len(left) = Len(targets) - 1
          /\ \A k \in 1..Len(left) : left[k] = IF k < i THEN targets[k] ELSE targets[k + 1]
      <4>1. \A r : r = left =>
              /\ r \in Seq(Targets)
              /\ Len(r) = Len(targets) - 1
              /\ \A k \in 1..Len(r) : r[k] = IF k < i THEN targets[k] ELSE targets[k + 1]
        BY <2>2, RemoveFacts DEF left
      <4> QED
        BY <4>1
    <3> QED
      BY <2>1, <3>1
  <2> HIDE DEF left
  <2>4. TypeOK /\ \A a, b \in DOMAIN targets : a < b => targets[a] < targets[b]
    BY DEF StaleInv, Typed, ListOrder
  <2>5. QED
    BY <1>1, <1>4, <2>1, <2>3, <2>4, RemoveListed
<1>5. QED
  BY <1>3, <1>4

(* FreeResources of one tracker keeps the others findable.                   *)
LEMMA NotifyKeeps ==
  ASSUME StaleInv, NEW s \in Targets, NotifyPolicy(s),
         UNCHANGED <<spawned, job, job_open, held>>,
         main' = main \/ (main = "clearing" /\ main' = "clear")
  PROVE  ListOrder' /\ HandlesDistinct' /\ Tracking' /\ RefsCover'
<1>1. /\ (main' = "create" <=> main = "create")
      /\ (main' = "track" <=> main = "track")
      /\ (LockHeld' <=> LockHeld)
  BY DEF LockHeld
<1>2. tracker' = [tracker EXCEPT ![s] = "freed"] /\ tracker[s] = "closed"
        /\ tracker \in [Targets -> {"none", "set", "closed", "freed", "destroyed"}]
  BY DEF NotifyPolicy, StaleInv, Typed, TypeOK
<1>3. HandlesDistinct'
  BY DEF StaleInv, HandlesDistinct
<1>4. RefsCover'
  <2>1. refs \in Int /\ held \in BOOLEAN /\ Cardinality(Holders) \in Nat
    BY HoldersFinite DEF StaleInv, Typed, TypeOK
  <2>2. /\ refs' = refs - 1
        /\ Cardinality(Holders') = Cardinality(Holders) - 1
        /\ refs >= (IF held THEN 1 ELSE 0) + Cardinality(Holders)
    BY NotifyList, NotifyHolders DEF StaleInv, RefsCover
  <2>3. refs' >= (IF held THEN 1 ELSE 0) + Cardinality(Holders')
    BY <2>1, <2>2
  <2>4. LockHeld' => held
    BY <1>1 DEF StaleInv, RefsCover
  <2>5. QED
    BY <2>3, <2>4 DEF RefsCover
<1>5. CASE refs = 1 /\ targets' = <<>>
  <2>1. Holders' = {} /\ ~held
    <3>1. refs >= (IF held THEN 1 ELSE 0) + Cardinality(Holders)
      BY DEF StaleInv, RefsCover
    <3>2. held \in BOOLEAN /\ Cardinality(Holders) \in Nat
      BY HoldersFinite DEF StaleInv, Typed, TypeOK
    <3>3. Cardinality(Holders) >= 1
      BY <3>2, HoldersFinite, NotifyHolders, FS_EmptySet
    <3>4. Cardinality(Holders) = 1 /\ ~held
      BY <1>5, <3>1, <3>2, <3>3
    <3>5. Cardinality(Holders') = 0
      BY <3>4, NotifyHolders
    <3>6. IsFiniteSet(Holders')
      BY HoldersFinite, NotifyHolders, FS_RemoveElement
    <3>7. QED
      BY <3>4, <3>5, <3>6, FS_EmptySet
  <2>2. ~LockHeld
    BY <2>1 DEF StaleInv, RefsCover
  <2>3. ListOrder'
    BY <1>5 DEF ListOrder
  <2>4. Tracking'
    BY <1>1, <1>2, <1>5, <2>1, <2>2 DEF Tracking, StaleInv, Listed, LockHeld
  <2>5. QED
    BY <1>3, <1>4, <2>3, <2>4
<1>6. CASE /\ \A i, j \in DOMAIN targets' : i < j => targets'[i] < targets'[j]
           /\ \A t \in Targets : Listed(t)' <=> Listed(t) /\ t # s
           /\ \A i \in DOMAIN targets' : Listed(targets'[i])
  <2>1. ListOrder'
    BY <1>1, <1>6 DEF StaleInv, ListOrder, Listed
  <2>2. Holders' = Holders \ {s}
    BY NotifyHolders
  <2>3. s # spawned \/ ~LockHeld
    BY <1>2 DEF StaleInv, Tracking
  <2>4. main = "track" => spawned \in Targets
    BY DEF StaleInv, Typed, LockHeld
  <2>5. \A t \in Targets : (t > spawned' \/ (LockHeld' /\ t = spawned'))
           => tracker'[t] = "none"
    BY <1>1, <1>2, <2>3 DEF StaleInv, Tracking
  <2>6. \A t \in Targets : tracker'[t] = "set" => job_open'[t]
    BY <1>2 DEF StaleInv, Tracking
  <2>7. \A t \in Holders' : Listed(t)' /\ job'[t] # NoHandle
    BY <1>6, <2>2 DEF StaleInv, Tracking, Holders
  <2>8. ASSUME NEW t \in Targets, Listed(t)', job'[t] # NoHandle
        PROVE  t \in Holders' \/ (main' = "track" /\ t = spawned')
    <3>1. Listed(t) /\ t # s /\ job[t] # NoHandle
      BY <1>6, <2>8
    <3>2. t \in Holders \/ (main = "track" /\ t = spawned)
      BY <3>1 DEF StaleInv, Tracking
    <3>3. QED
      BY <1>1, <2>2, <3>1, <3>2
  <2>9. main' = "track" => Listed(spawned)'
    <3>1. SUFFICES ASSUME main' = "track" PROVE Listed(spawned)'
      OBVIOUS
    <3>2. main = "track" /\ Listed(spawned) /\ spawned \in Targets /\ LockHeld
      BY <1>1, <2>4, <3>1 DEF StaleInv, Tracking, LockHeld
    <3>3. \E i \in DOMAIN targets' : targets'[i] = spawned
      BY <1>6, <2>3, <3>2 DEF Listed
    <3>4. QED
      BY <3>3 DEF Listed
  <2>10. LockHeld' /\ job'[spawned'] # NoHandle => job_open'[spawned']
    BY <1>1 DEF StaleInv, Tracking
  <2>11. Tracking'
    BY <2>5, <2>6, <2>7, <2>8, <2>9, <2>10 DEF Tracking
  <2>12. QED
    BY <1>3, <1>4, <2>1, <2>11
<1>7. QED
  BY <1>5, <1>6, NotifyList

(* Steps that touch neither list, trackers, handles nor references.          *)
ListVars == <<spawned, job, job_open, targets, tracker, refs, held>>

LEMMA SameLists ==
  ASSUME StaleInv, UNCHANGED ListVars,
         main' = main \/ (~LockHeld /\ ~LockHeld')
  PROVE  ListOrder' /\ HandlesDistinct' /\ Tracking' /\ RefsCover'
<1> USE DEF ListVars
<1>1. /\ LockHeld' <=> LockHeld
      /\ main' = "track" <=> main = "track"
      /\ main' = "create" => main = "create"
  BY DEF LockHeld
<1>2. Holders' = Holders /\ \A s \in Targets : Listed(s)' <=> Listed(s)
  BY DEF Holders, Listed
<1>3. ListOrder'
  BY <1>1 DEF StaleInv, ListOrder
<1>4. HandlesDistinct'
  BY DEF StaleInv, HandlesDistinct
<1>5. Tracking'
  <2>1. main' = "track" => Listed(spawned)'
    BY <1>1 DEF StaleInv, Tracking, Listed
  <2>2. \A s \in Targets : (s > spawned' \/ (LockHeld' /\ s = spawned'))
           => tracker'[s] = "none"
    BY <1>1 DEF StaleInv, Tracking
  <2>3. \A s \in Targets : tracker'[s] = "set" => job_open'[s]
    BY DEF StaleInv, Tracking
  <2>4. \A s \in Holders' : Listed(s)' /\ job'[s] # NoHandle
    BY <1>2 DEF StaleInv, Tracking, Holders
  <2>5. \A s \in Targets : Listed(s)' /\ job'[s] # NoHandle
           => s \in Holders' \/ (main' = "track" /\ s = spawned')
    BY <1>1, <1>2 DEF StaleInv, Tracking
  <2>6. LockHeld' /\ job'[spawned'] # NoHandle => job_open'[spawned']
    BY <1>1 DEF StaleInv, Tracking
  <2>7. QED
    BY <2>1, <2>2, <2>3, <2>4, <2>5, <2>6 DEF Tracking
<1>6. RefsCover'
  BY <1>1, <1>2 DEF StaleInv, RefsCover
<1>7. QED
  BY <1>3, <1>4, <1>5, <1>6

(* Steps that close no tracker and leave the one who does to it.             *)
LEMMA SameClosed ==
  ASSUME StaleInv, UNCHANGED tracker,
         worker = "freeing" => worker' = "freeing" /\ packet' = packet,
         main = "clearing" => main' = "clearing",
         main' \in {"clear", "clearing", "down"} =>
           main \in {"clear", "clearing", "down"} \/ worker = "done",
         worker = "done" => worker' = "done"
  PROVE  ClosedOwner'
BY DEF StaleInv, ClosedOwner, IsFront, TrackerList

LEMMA SpawnKeeps ==
  ASSUME StaleInv, Typed', SpawnTarget
  PROVE  StaleInv'
<1>1. PICK h \in FreeHandles \union {NoHandle} :
        /\ job' = [job EXCEPT ![spawned + 1] = h]
        /\ job_open' = [job_open EXCEPT ![spawned + 1] = (h # NoHandle)]
  BY DEF SpawnTarget
<1>2. /\ main = "idle" /\ main' = "create" /\ held
      /\ spawned' = spawned + 1
      /\ UNCHANGED <<targets, refs, held, tracker, workerVars>>
  BY DEF SpawnTarget
<1>3. /\ spawned + 1 \in Targets /\ spawned \in Nat
      /\ targets \in Seq(Targets)
      /\ job \in [Targets -> Handles \union {NoHandle}]
      /\ job_open \in [Targets -> BOOLEAN]
  BY BoundsAssumption DEF SpawnTarget, StaleInv, Typed, TypeOK, Targets
<1>4. ASSUME NEW i \in DOMAIN targets
      PROVE  targets[i] \in Targets /\ targets[i] <= spawned
               /\ targets[i] # spawned + 1
  <2>1. targets[i] \in Targets /\ targets[i] <= spawned
    BY <1>3 DEF StaleInv, ListOrder
  <2>2. QED
    BY <2>1, <1>3, TargetNumbers
<1>5. ListOrder'
  <2>1. \A i, j \in DOMAIN targets' : i < j => targets'[i] < targets'[j]
    BY <1>2 DEF StaleInv, ListOrder
  <2>2. \A i \in DOMAIN targets' : targets'[i] <= spawned' /\ targets'[i] # spawned'
    BY <1>2, <1>3, <1>4, TargetNumbers
  <2>3. QED
    BY <2>1, <2>2 DEF ListOrder
<1>6. HandlesDistinct'
  <2>1. SUFFICES ASSUME NEW s \in Targets, NEW t \in Targets, t < s,
                        s <= spawned', job_open'[t], job'[s] # NoHandle
                 PROVE  job'[s] # job'[t]
    BY DEF HandlesDistinct
  <2>2. t # spawned + 1 /\ job'[t] = job[t] /\ job_open[t]
    BY <1>1, <1>2, <1>3, <2>1, TargetNumbers
  <2>3. CASE s = spawned + 1
    <3>1. job'[s] = h /\ h \in FreeHandles
      BY <1>1, <1>3, <2>1, <2>3
    <3>2. QED
      BY <2>2, <3>1 DEF FreeHandles
  <2>4. CASE s # spawned + 1
    <3>1. s <= spawned /\ job'[s] = job[s]
      BY <1>1, <1>2, <1>3, <2>1, <2>4, TargetNumbers
    <3>2. QED
      BY <2>1, <2>2, <3>1 DEF StaleInv, HandlesDistinct
  <2>5. QED
    BY <2>3, <2>4
<1>7. Holders' = Holders /\ \A s \in Targets : Listed(s)' <=> Listed(s)
  BY <1>2 DEF Holders, Listed
<1>8. \A s \in Targets : s > spawned => tracker[s] = "none"
  BY DEF StaleInv, Tracking
<1>9. tracker[spawned + 1] = "none" /\ spawned + 1 \notin Holders
  BY <1>3, <1>8 DEF Holders
<1>10. \A s \in Targets : Listed(s) => s # spawned + 1
  BY <1>4 DEF Listed
<1>11. Tracking'
  <2>1. \A s \in Targets : (s > spawned' \/ (LockHeld' /\ s = spawned'))
           => tracker'[s] = "none"
    BY <1>2, <1>3, <1>8, <1>9, TargetNumbers
  <2>2. \A s \in Targets : tracker'[s] = "set" => job_open'[s]
    BY <1>1, <1>2, <1>3, <1>9 DEF StaleInv, Tracking
  <2>3. \A s \in Holders' : Listed(s)' /\ job'[s] # NoHandle
    BY <1>1, <1>3, <1>7, <1>9 DEF StaleInv, Tracking, Holders
  <2>4. \A s \in Targets : Listed(s)' /\ job'[s] # NoHandle => s \in Holders'
    BY <1>1, <1>2, <1>3, <1>7, <1>10 DEF StaleInv, Tracking
  <2>5. LockHeld' /\ job'[spawned'] # NoHandle => job_open'[spawned']
    BY <1>1, <1>2, <1>3
  <2>6. QED
    BY <1>2, <2>1, <2>2, <2>3, <2>4, <2>5 DEF Tracking
<1>12. RefsCover'
  BY <1>2, <1>7 DEF StaleInv, RefsCover
<1>13. ClosedOwner'
  BY <1>2, SameClosed
<1>14. QED
  BY <1>5, <1>6, <1>11, <1>12, <1>13 DEF StaleInv

LEMMA AddTargetKeeps ==
  ASSUME StaleInv, Typed', AddTarget
  PROVE  StaleInv'
<1>1. /\ main = "create" /\ main' = "track"
      /\ targets' = Append(targets, spawned)
      /\ UNCHANGED <<spawned, job, job_open, tracker, refs, held, workerVars>>
  BY DEF AddTarget
<1>2. /\ targets \in Seq(Targets) /\ spawned \in Targets
      /\ spawned \in Nat /\ Len(targets) \in Nat
      /\ DOMAIN targets = 1..Len(targets)
  BY <1>1, TargetNumbers DEF StaleInv, Typed, TypeOK, LockHeld
<1>3. /\ DOMAIN targets' = 1..(Len(targets) + 1)
      /\ \A i \in 1..Len(targets) : targets'[i] = targets[i]
      /\ targets'[Len(targets) + 1] = spawned
  BY <1>1, <1>2, AppendProperties
<1>4. \A i \in 1..Len(targets) : targets[i] \in Nat /\ targets[i] < spawned
  <2>1. TAKE i \in 1..Len(targets)
  <2>2. targets[i] \in Nat
    <3>1. targets[i] \in Targets
      BY <1>2
    <3>2. QED
      BY <3>1, TargetNumbers
  <2>3. targets[i] <= spawned /\ targets[i] # spawned
    BY <1>1, <1>2 DEF StaleInv, ListOrder
  <2>4. QED
    BY <1>2, <2>2, <2>3
<1>5. ListOrder'
  <2>1. ASSUME NEW i \in DOMAIN targets', NEW j \in DOMAIN targets', i < j
        PROVE  targets'[i] < targets'[j]
    <3>1. i \in 1..Len(targets)
      BY <1>2, <1>3, <2>1
    <3>2. CASE j \in 1..Len(targets)
      BY <1>2, <1>3, <2>1, <3>1, <3>2 DEF StaleInv, ListOrder
    <3>3. CASE j = Len(targets) + 1
      BY <1>3, <1>4, <3>1, <3>3
    <3>4. QED
      BY <1>2, <1>3, <3>2, <3>3
  <2>2. \A i \in DOMAIN targets' : targets'[i] <= spawned
    BY <1>2, <1>3, <1>4
  <2>3. QED
    BY <1>1, <2>1, <2>2 DEF ListOrder
<1>6. \A s \in Targets : Listed(s)' <=> Listed(s) \/ s = spawned
  <2>1. TAKE s \in Targets
  <2>2. Listed(s)' => Listed(s) \/ s = spawned
    BY <1>2, <1>3 DEF Listed
  <2>3. Listed(s) => Listed(s)'
    <3>1. SUFFICES ASSUME Listed(s) PROVE Listed(s)'
      OBVIOUS
    <3>2. PICK i \in 1..Len(targets) : targets[i] = s
      BY <1>2, <3>1 DEF Listed
    <3>3. i \in DOMAIN targets' /\ targets'[i] = s
      BY <1>2, <1>3, <3>2
    <3>4. QED
      BY <3>3 DEF Listed
  <2>4. s = spawned => Listed(s)'
    BY <1>2, <1>3 DEF Listed
  <2>5. QED
    BY <2>2, <2>3, <2>4
<1>7. HandlesDistinct'
  BY <1>1 DEF StaleInv, HandlesDistinct
<1>8. Holders' = Holders
  BY <1>1 DEF Holders
<1>9. Tracking'
  <2>1. \A s \in Targets : (s > spawned' \/ (LockHeld' /\ s = spawned'))
           => tracker'[s] = "none"
    BY <1>1 DEF StaleInv, Tracking, LockHeld
  <2>2. \A s \in Targets : tracker'[s] = "set" => job_open'[s]
    BY <1>1 DEF StaleInv, Tracking
  <2>3. \A s \in Holders' : Listed(s)' /\ job'[s] # NoHandle
    BY <1>1, <1>6, <1>8 DEF StaleInv, Tracking, Holders
  <2>4. \A s \in Targets : Listed(s)' /\ job'[s] # NoHandle
           => s \in Holders' \/ s = spawned'
    BY <1>1, <1>6, <1>8 DEF StaleInv, Tracking
  <2>5. Listed(spawned)'
    <3>1. Len(targets) + 1 \in DOMAIN targets'
      BY <1>2, <1>3
    <3>2. targets'[Len(targets) + 1] = spawned'
      BY <1>1, <1>3
    <3>3. QED
      BY <3>1, <3>2 DEF Listed
  <2>6. LockHeld' /\ job'[spawned'] # NoHandle => job_open'[spawned']
    BY <1>1 DEF StaleInv, Tracking, LockHeld
  <2>7. QED
    BY <1>1, <2>1, <2>2, <2>3, <2>4, <2>5, <2>6 DEF Tracking
<1>10. RefsCover'
  BY <1>1, <1>8 DEF StaleInv, RefsCover, LockHeld
<1>11. ClosedOwner'
  BY <1>1, SameClosed
<1>12. QED
  BY <1>5, <1>7, <1>9, <1>10, <1>11 DEF StaleInv

LEMMA SpawnCleanupKeeps ==
  ASSUME StaleInv, Typed', SpawnCleanup
  PROVE  StaleInv'
<1>1. /\ main = "create" /\ main' = "idle" /\ LockHeld
      /\ job_open' = [job_open EXCEPT ![spawned] = FALSE]
      /\ UNCHANGED <<spawned, job, targets, tracker, refs, held, workerVars>>
  BY DEF SpawnCleanup, LockHeld
<1>2. job_open \in [Targets -> BOOLEAN] /\ spawned \in Targets
  BY <1>1 DEF StaleInv, Typed, TypeOK
<1>3. tracker[spawned] = "none" /\ ~LockHeld'
  BY <1>1, <1>2 DEF StaleInv, Tracking, LockHeld
<1>4. ListOrder'
  BY <1>1 DEF StaleInv, ListOrder
<1>5. HandlesDistinct'
  BY <1>1, <1>2 DEF StaleInv, HandlesDistinct
<1>6. Holders' = Holders /\ \A s \in Targets : Listed(s)' <=> Listed(s)
  BY <1>1 DEF Holders, Listed
<1>7. Tracking'
  <2>1. \A s \in Targets : s > spawned' => tracker'[s] = "none"
    BY <1>1 DEF StaleInv, Tracking
  <2>2. \A s \in Targets : tracker'[s] = "set" => job_open'[s]
    BY <1>1, <1>2, <1>3 DEF StaleInv, Tracking
  <2>3. \A s \in Holders' : Listed(s)' /\ job'[s] # NoHandle
    BY <1>1, <1>6 DEF StaleInv, Tracking, Holders
  <2>4. \A s \in Targets : Listed(s)' /\ job'[s] # NoHandle => s \in Holders'
    BY <1>1, <1>6 DEF StaleInv, Tracking
  <2>5. QED
    BY <1>1, <1>3, <2>1, <2>2, <2>3, <2>4 DEF Tracking
<1>8. RefsCover'
  BY <1>1, <1>3, <1>6 DEF StaleInv, RefsCover
<1>9. ClosedOwner'
  BY <1>1, SameClosed
<1>10. QED
  BY <1>4, <1>5, <1>7, <1>8, <1>9 DEF StaleInv

LEMMA TrackJobKeeps ==
  ASSUME StaleInv, Typed', TrackJob
  PROVE  StaleInv'
<1>1. /\ main = "track" /\ main' = "idle" /\ LockHeld
      /\ job[spawned] # NoHandle
      /\ tracker' = [tracker EXCEPT ![spawned] = "set"]
      /\ refs' = refs + 1
      /\ UNCHANGED <<spawned, job, job_open, targets, held, workerVars>>
  BY DEF TrackJob, LockHeld
<1>2. /\ tracker \in [Targets -> {"none", "set", "closed", "freed", "destroyed"}]
      /\ spawned \in Targets
  BY <1>1 DEF StaleInv, Typed, TypeOK
<1>3. tracker[spawned] = "none" /\ ~LockHeld' /\ spawned \notin Holders
  BY <1>1, <1>2 DEF StaleInv, Tracking, LockHeld, Holders
<1>4. ListOrder'
  BY <1>1 DEF StaleInv, ListOrder
<1>5. HandlesDistinct'
  BY <1>1 DEF StaleInv, HandlesDistinct
<1>6. /\ Holders' = Holders \union {spawned}
      /\ \A s \in Targets : Listed(s)' <=> Listed(s)
  BY <1>1, <1>2 DEF Holders, Listed
<1>7. Tracking'
  <2>1. \A s \in Targets : s > spawned' => tracker'[s] = "none"
    BY <1>1, <1>2, TargetNumbers DEF StaleInv, Tracking
  <2>2. \A s \in Targets : tracker'[s] = "set" => job_open'[s]
    BY <1>1, <1>2 DEF StaleInv, Tracking
  <2>3. \A s \in Holders' : Listed(s)' /\ job'[s] # NoHandle
    BY <1>1, <1>2, <1>6 DEF StaleInv, Tracking, Holders
  <2>4. \A s \in Targets : Listed(s)' /\ job'[s] # NoHandle => s \in Holders'
    BY <1>1, <1>6 DEF StaleInv, Tracking
  <2>5. QED
    BY <1>1, <1>3, <2>1, <2>2, <2>3, <2>4 DEF Tracking
<1>8. RefsCover'
  <2>1. Cardinality(Holders') = Cardinality(Holders) + 1
    BY <1>3, <1>6, HoldersFinite, FS_AddElement
  <2>2. refs \in Int /\ held \in BOOLEAN /\ Cardinality(Holders) \in Nat
    BY HoldersFinite DEF StaleInv, Typed, TypeOK
  <2>3. refs >= (IF held THEN 1 ELSE 0) + Cardinality(Holders)
    BY DEF StaleInv, RefsCover
  <2>4. refs' >= (IF held' THEN 1 ELSE 0) + Cardinality(Holders')
    BY <1>1, <2>1, <2>2, <2>3
  <2>5. QED
    BY <1>3, <2>4 DEF RefsCover
<1>9. ClosedOwner'
  <2>1. \A s \in Targets : tracker'[s] = "closed" => tracker[s] = "closed"
    BY <1>1, <1>2
  <2>2. QED
    BY <1>1, <2>1 DEF StaleInv, ClosedOwner
<1>10. QED
  BY <1>4, <1>5, <1>7, <1>8, <1>9 DEF StaleInv

LEMMA LeakPolicyKeeps ==
  ASSUME StaleInv, Typed', LeakPolicy
  PROVE  StaleInv'
<1>1. /\ main = "track" /\ main' = "idle" /\ LockHeld
      /\ job[spawned] = NoHandle
      /\ refs' = refs + 1
      /\ UNCHANGED <<spawned, job, job_open, targets, tracker, held, workerVars>>
  BY DEF LeakPolicy, LockHeld
<1>2. ~LockHeld'
  BY <1>1 DEF LockHeld
<1>3. ListOrder'
  BY <1>1 DEF StaleInv, ListOrder
<1>4. HandlesDistinct'
  BY <1>1 DEF StaleInv, HandlesDistinct
<1>5. Holders' = Holders /\ \A s \in Targets : Listed(s)' <=> Listed(s)
  BY <1>1 DEF Holders, Listed
<1>6. Tracking'
  <2>1. \A s \in Targets : s > spawned' => tracker'[s] = "none"
    BY <1>1 DEF StaleInv, Tracking
  <2>2. \A s \in Targets : tracker'[s] = "set" => job_open'[s]
    BY <1>1 DEF StaleInv, Tracking
  <2>3. \A s \in Holders' : Listed(s)' /\ job'[s] # NoHandle
    BY <1>1, <1>5 DEF StaleInv, Tracking, Holders
  <2>4. \A s \in Targets : Listed(s)' /\ job'[s] # NoHandle => s \in Holders'
    BY <1>1, <1>5 DEF StaleInv, Tracking
  <2>5. QED
    BY <1>1, <1>2, <2>1, <2>2, <2>3, <2>4 DEF Tracking
<1>7. RefsCover'
  <2>1. refs \in Int /\ held \in BOOLEAN /\ Cardinality(Holders) \in Nat
    BY HoldersFinite DEF StaleInv, Typed, TypeOK
  <2>2. refs >= (IF held THEN 1 ELSE 0) + Cardinality(Holders)
    BY DEF StaleInv, RefsCover
  <2>3. refs' >= (IF held' THEN 1 ELSE 0) + Cardinality(Holders')
    BY <1>1, <1>5, <2>1, <2>2
  <2>4. QED
    BY <1>2, <2>3 DEF RefsCover
<1>8. ClosedOwner'
  BY <1>1, SameClosed
<1>9. QED
  BY <1>3, <1>4, <1>6, <1>7, <1>8 DEF StaleInv

LEMMA DropPolicyKeeps ==
  ASSUME StaleInv, Typed', DropPolicy
  PROVE  StaleInv'
<1>1. /\ ~LockHeld /\ held /\ ~held' /\ refs' = refs - 1
      /\ UNCHANGED <<main, spawned, job, job_open, tracker, workerVars>>
  BY DEF DropPolicy, ReleasePolicy, LockHeld
<1>2. ~LockHeld' /\ Holders' = Holders
  BY <1>1 DEF LockHeld, Holders
<1>3. refs \in Int /\ Cardinality(Holders) \in Nat
        /\ refs >= 1 + Cardinality(Holders)
  BY <1>1, HoldersFinite DEF StaleInv, Typed, TypeOK, RefsCover
<1>4. RefsCover'
  BY <1>1, <1>2, <1>3 DEF RefsCover
<1>5. HandlesDistinct'
  BY <1>1 DEF StaleInv, HandlesDistinct
<1>6. ClosedOwner'
  BY <1>1, SameClosed
<1>7. ListOrder' /\ Tracking'
  <2>1. CASE refs = 1
    <3>1. targets' = <<>>
      BY <2>1 DEF DropPolicy, ReleasePolicy
    <3>2. Holders = {}
      BY <1>3, <2>1, HoldersFinite, FS_EmptySet
    <3>3. \A s \in Targets : ~Listed(s)'
      BY <3>1 DEF Listed
    <3>4. ListOrder'
      BY <3>1 DEF ListOrder
    <3>5. /\ \A s \in Targets : s > spawned' => tracker'[s] = "none"
          /\ \A s \in Targets : tracker'[s] = "set" => job_open'[s]
      BY <1>1 DEF StaleInv, Tracking
    <3>6. main' # "track"
      BY <1>2 DEF LockHeld
    <3>7. Tracking'
      BY <1>2, <3>2, <3>3, <3>5, <3>6 DEF Tracking
    <3>8. QED
      BY <3>4, <3>7
  <2>2. CASE refs # 1
    <3>1. targets' = targets
      BY <2>2 DEF DropPolicy, ReleasePolicy
    <3>2. \A s \in Targets : Listed(s)' <=> Listed(s)
      BY <3>1 DEF Listed
    <3>3. ListOrder'
      BY <1>1, <3>1 DEF StaleInv, ListOrder
    <3>4. /\ \A s \in Targets : s > spawned' => tracker'[s] = "none"
          /\ \A s \in Targets : tracker'[s] = "set" => job_open'[s]
      BY <1>1 DEF StaleInv, Tracking
    <3>5. main # "track" /\ main' # "track"
      BY <1>1, <1>2 DEF LockHeld
    <3>6. \A s \in Holders' : Listed(s)' /\ job'[s] # NoHandle
      BY <1>1, <1>2, <3>2 DEF StaleInv, Tracking, Holders
    <3>7. \A s \in Targets : Listed(s)' /\ job'[s] # NoHandle => s \in Holders'
      BY <1>1, <1>2, <3>2, <3>5 DEF StaleInv, Tracking
    <3>8. Tracking'
      BY <1>2, <3>4, <3>5, <3>6, <3>7 DEF Tracking
    <3>9. QED
      BY <3>3, <3>8
  <2>3. QED
    BY <2>1, <2>2
<1>8. QED
  BY <1>4, <1>5, <1>6, <1>7 DEF StaleInv

(* job.Close() of FreeResources, whoever calls it.                           *)
LEMMA CloseKeeps ==
  ASSUME StaleInv, NEW s \in Targets, CloseJob(s),
         UNCHANGED <<spawned, job, targets, refs, held>>,
         main' = main \/ (main = "clear" /\ main' = "clearing")
  PROVE  ListOrder' /\ HandlesDistinct' /\ Tracking' /\ RefsCover'
<1>1. /\ tracker[s] = "set" /\ tracker' = [tracker EXCEPT ![s] = "closed"]
      /\ job_open' = [job_open EXCEPT ![s] = FALSE]
      /\ tracker \in [Targets -> {"none", "set", "closed", "freed", "destroyed"}]
      /\ job_open \in [Targets -> BOOLEAN]
  BY DEF CloseJob, StaleInv, Typed, TypeOK
<1>2. /\ LockHeld' <=> LockHeld
      /\ main' = "track" <=> main = "track"
      /\ main' = "create" <=> main = "create"
  BY DEF LockHeld
<1>3. Holders' = Holders /\ \A t \in Targets : Listed(t)' <=> Listed(t)
  BY <1>1 DEF Holders, Listed
<1>4. ~(LockHeld /\ s = spawned)
  BY <1>1 DEF StaleInv, Tracking
<1>5. ListOrder'
  BY <1>2 DEF StaleInv, ListOrder
<1>6. HandlesDistinct'
  BY <1>1 DEF StaleInv, HandlesDistinct
<1>7. Tracking'
  <2>1. \A t \in Targets : (t > spawned' \/ (LockHeld' /\ t = spawned'))
           => tracker'[t] = "none"
    BY <1>1, <1>2 DEF StaleInv, Tracking
  <2>2. \A t \in Targets : tracker'[t] = "set" => job_open'[t]
    BY <1>1 DEF StaleInv, Tracking
  <2>3. \A t \in Holders' : Listed(t)' /\ job'[t] # NoHandle
    BY <1>3 DEF StaleInv, Tracking, Holders
  <2>4. \A t \in Targets : Listed(t)' /\ job'[t] # NoHandle
           => t \in Holders' \/ (main' = "track" /\ t = spawned')
    BY <1>2, <1>3 DEF StaleInv, Tracking
  <2>5. main' = "track" => Listed(spawned)'
    BY <1>2 DEF StaleInv, Tracking, Listed
  <2>6. LockHeld' /\ job'[spawned'] # NoHandle => job_open'[spawned']
    BY <1>1, <1>2, <1>4 DEF StaleInv, Tracking
  <2>7. QED
    BY <2>1, <2>2, <2>3, <2>4, <2>5, <2>6 DEF Tracking
<1>8. RefsCover'
  BY <1>2, <1>3 DEF StaleInv, RefsCover
<1>9. QED
  BY <1>5, <1>6, <1>7, <1>8

(* The steps of the threads that call FreeResources.                         *)
LEMMA ClosedOwnerKeeps ==
  ASSUME StaleInv, Typed',
         \/ WorkerClosesJob \/ WorkerNotifiesPolicy
         \/ ClearClosesJob \/ ClearNotifiesPolicy \/ ClearDestroys
  PROVE  ClosedOwner'
<1>1. tracker \in [Targets -> {"none", "set", "closed", "freed", "destroyed"}]
  BY DEF StaleInv, Typed, TypeOK
<1>2. CASE WorkerClosesJob
  <2>1. /\ worker = "event" /\ worker' = "freeing" /\ packet' = packet
        /\ main' = main
        /\ tracker' = [tracker EXCEPT ![packet.key] = "closed"]
    BY <1>2 DEF WorkerClosesJob, Got, CloseJob
  <2>2. main \notin {"clear", "clearing", "down"}
    BY <2>1 DEF StaleInv, ClosedOwner
  <2>3. \A t \in Targets : tracker[t] # "closed"
    BY <2>1, <2>2 DEF StaleInv, ClosedOwner
  <2>4. QED
    BY <1>1, <2>1, <2>2, <2>3 DEF ClosedOwner
<1>3. CASE WorkerNotifiesPolicy
  <2>1. /\ worker = "freeing" /\ main' = main
        /\ tracker' = [tracker EXCEPT ![packet.key] = "freed"]
        /\ tracker[packet.key] = "closed" /\ packet.key \in Targets
    BY <1>3 DEF WorkerNotifiesPolicy, NotifyPolicy, StaleInv, Typed
  <2>2. main \notin {"clear", "clearing", "down"}
    BY <2>1 DEF StaleInv, ClosedOwner
  <2>3. \A t \in Targets : tracker'[t] # "closed"
    BY <1>1, <2>1, ClosedUnique DEF StaleInv
  <2>4. QED
    BY <2>1, <2>2, <2>3 DEF ClosedOwner
<1>4. CASE ClearClosesJob
  <2>1. PICK s \in Targets : IsFront(s) /\ CloseJob(s)
    BY <1>4 DEF ClearClosesJob
  <2>2. /\ main = "clear" /\ main' = "clearing" /\ UNCHANGED workerVars
        /\ tracker' = [tracker EXCEPT ![s] = "closed"] /\ tracker[s] = "set"
    BY <1>4, <2>1 DEF ClearClosesJob, CloseJob
  <2>3. worker = "done"
    BY <2>2 DEF StaleInv, ClosedOwner
  <2>4. \A t \in Targets : tracker[t] # "closed"
    BY <2>2, <2>3 DEF StaleInv, ClosedOwner
  <2>5. TrackerList' = TrackerList
    BY <1>1, <2>2 DEF TrackerList
  <2>6. IsFront(s)'
    BY <2>1, <2>5 DEF IsFront
  <2>7. QED
    BY <1>1, <2>2, <2>3, <2>4, <2>6 DEF ClosedOwner
<1>5. CASE ClearNotifiesPolicy
  <2>1. PICK s \in Targets : IsFront(s) /\ NotifyPolicy(s)
    BY <1>5 DEF ClearNotifiesPolicy
  <2>2. /\ main = "clearing" /\ main' = "clear" /\ UNCHANGED workerVars
        /\ tracker' = [tracker EXCEPT ![s] = "freed"] /\ tracker[s] = "closed"
    BY <1>5, <2>1 DEF ClearNotifiesPolicy, NotifyPolicy
  <2>3. worker = "done"
    BY <2>2 DEF StaleInv, ClosedOwner
  <2>4. \A t \in Targets : tracker'[t] # "closed"
    BY <1>1, <2>2, ClosedUnique DEF StaleInv
  <2>5. QED
    BY <2>2, <2>3, <2>4 DEF ClosedOwner
<1>6. CASE ClearDestroys
  <2>1. PICK s \in Targets : tracker' = [tracker EXCEPT ![s] = "destroyed"]
    BY <1>6 DEF ClearDestroys
  <2>2. main = "clear" /\ UNCHANGED <<main, workerVars>>
    BY <1>6 DEF ClearDestroys
  <2>3. worker = "done"
    BY <2>2 DEF StaleInv, ClosedOwner
  <2>4. \A t \in Targets : tracker[t] # "closed"
    BY <2>2, <2>3 DEF StaleInv, ClosedOwner
  <2>5. QED
    BY <1>1, <2>1, <2>2, <2>3, <2>4 DEF ClosedOwner
<1>7. QED
  BY <1>2, <1>3, <1>4, <1>5, <1>6

LEMMA ClearDestroysKeeps ==
  ASSUME StaleInv, Typed', ClearDestroys
  PROVE  StaleInv'
<1>1. PICK s \in Targets : /\ tracker[s] \notin {"none", "set", "destroyed"}
                           /\ tracker' = [tracker EXCEPT ![s] = "destroyed"]
  BY DEF ClearDestroys, IsFront, TrackerList
<1>2. /\ main = "clear" /\ main' = "clear" /\ ~LockHeld /\ ~LockHeld'
      /\ UNCHANGED <<spawned, job, job_open, targets, refs, held, workerVars>>
      /\ tracker \in [Targets -> {"none", "set", "closed", "freed", "destroyed"}]
  BY DEF ClearDestroys, LockHeld, StaleInv, Typed, TypeOK
<1>3. \A t \in Targets : tracker[t] # "closed"
  BY <1>2 DEF StaleInv, ClosedOwner
<1>4. /\ Holders' = Holders
      /\ \A t \in Targets : Listed(t)' <=> Listed(t)
  BY <1>1, <1>2, <1>3 DEF Holders, Listed
<1>5. s <= spawned
  <2>1. ~(s > spawned)
    BY <1>1 DEF StaleInv, Tracking
  <2>2. QED
    BY <2>1, TargetNumbers DEF StaleInv, Typed, TypeOK
<1>6. ListOrder' /\ HandlesDistinct'
  BY <1>2 DEF StaleInv, ListOrder, HandlesDistinct
<1>7. Tracking'
  <2>1. \A t \in Targets : t > spawned' => tracker'[t] = "none"
    <3>1. TAKE t \in Targets
    <3>2. t > spawned => t # s
      BY <1>5, TargetNumbers DEF StaleInv, Typed, TypeOK
    <3>3. QED
      BY <1>1, <1>2, <3>2 DEF StaleInv, Tracking
  <2>2. \A t \in Targets : tracker'[t] = "set" => job_open'[t]
    BY <1>1, <1>2 DEF StaleInv, Tracking
  <2>3. \A t \in Holders' : Listed(t)' /\ job'[t] # NoHandle
    BY <1>2, <1>4 DEF StaleInv, Tracking, Holders
  <2>4. \A t \in Targets : Listed(t)' /\ job'[t] # NoHandle => t \in Holders'
    BY <1>2, <1>4 DEF StaleInv, Tracking
  <2>5. QED
    BY <1>2, <2>1, <2>2, <2>3, <2>4 DEF Tracking
<1>8. RefsCover'
  BY <1>2, <1>4 DEF StaleInv, RefsCover
<1>9. QED
  BY <1>6, <1>7, <1>8, ClosedOwnerKeeps DEF StaleInv

LEMMA FreeResourcesKeeps ==
  ASSUME StaleInv, Typed',
         \/ WorkerClosesJob \/ WorkerNotifiesPolicy
         \/ ClearClosesJob \/ ClearNotifiesPolicy
  PROVE  StaleInv'
<1>1. CASE WorkerClosesJob
  <2>1. packet.key \in Targets /\ CloseJob(packet.key)
    BY <1>1 DEF WorkerClosesJob, Got, StaleInv, Typed, TypeOK, Packets, NoPacket
  <2>2. UNCHANGED <<main, spawned, job, targets, refs, held>>
    BY <1>1 DEF WorkerClosesJob
  <2>3. QED
    BY <1>1, <2>1, <2>2, CloseKeeps, ClosedOwnerKeeps DEF StaleInv
<1>2. CASE WorkerNotifiesPolicy
  <2>1. packet.key \in Targets /\ NotifyPolicy(packet.key)
    BY <1>2 DEF WorkerNotifiesPolicy, StaleInv, Typed
  <2>2. UNCHANGED <<main, spawned, job, job_open, held>>
    BY <1>2 DEF WorkerNotifiesPolicy
  <2>3. QED
    BY <1>2, <2>1, <2>2, NotifyKeeps, ClosedOwnerKeeps DEF StaleInv
<1>3. CASE ClearClosesJob
  <2>1. PICK s \in Targets : CloseJob(s)
    BY <1>3 DEF ClearClosesJob
  <2>2. /\ UNCHANGED <<spawned, job, targets, refs, held>>
        /\ main = "clear" /\ main' = "clearing"
    BY <1>3 DEF ClearClosesJob
  <2>3. QED
    BY <1>3, <2>1, <2>2, CloseKeeps, ClosedOwnerKeeps DEF StaleInv
<1>4. CASE ClearNotifiesPolicy
  <2>1. PICK s \in Targets : NotifyPolicy(s)
    BY <1>4 DEF ClearNotifiesPolicy
  <2>2. /\ UNCHANGED <<spawned, job, job_open, held>>
        /\ main = "clearing" /\ main' = "clear"
    BY <1>4 DEF ClearNotifiesPolicy
  <2>3. QED
    BY <1>4, <2>1, <2>2, NotifyKeeps, ClosedOwnerKeeps DEF StaleInv
<1>5. QED
  BY <1>1, <1>2, <1>3, <1>4

(* All other steps.                                                          *)
LEMMA CallerLeavesLists ==
  ASSUME StaleInv, Typed', ~QuitTimesOut,
         \/ WaitForAllTargets \/ WaitReturns \/ DestroyBroker
         \/ WorkerJoined \/ JoinTimesOut \/ ResetThreadPool
  PROVE  StaleInv'
<1>1. /\ UNCHANGED ListVars /\ UNCHANGED workerVars
      /\ ~LockHeld /\ ~LockHeld'
      /\ main # "clearing"
      /\ main' \in {"clear", "clearing", "down"} =>
           main \in {"clear", "clearing", "down"} \/ worker = "done"
  BY DEF ListVars, LockHeld, WaitForAllTargets, WaitReturns, DestroyBroker,
     WorkerJoined, JoinTimesOut, ResetThreadPool
<1>2. ClosedOwner'
  BY <1>1, SameClosed DEF ListVars
<1>3. QED
  BY <1>1, <1>2, SameLists DEF StaleInv

LEMMA WorkerLeavesLists ==
  ASSUME StaleInv, Typed', TargetEventsThread, ~QuitTimesOut,
         ~WorkerClosesJob, ~WorkerNotifiesPolicy
  PROVE  StaleInv'
<1>1. /\ UNCHANGED ListVars /\ UNCHANGED main
      /\ worker # "freeing" /\ worker # "done"
  BY DEF ListVars, Got, TargetEventsThread, WorkerStarts,
     GetQueuedCompletionStatus, LookUpNewProcess, CountNewProcess,
     EraseExitedProcess, CountExitedProcess, ActiveProcessLimit,
     ProcessMemoryLimit, WorkerNotifiesLate, NothingToFree, WorkerQuits
<1>2. ClosedOwner'
  BY <1>1, SameClosed DEF ListVars
<1>3. QED
  BY <1>1, <1>2, SameLists DEF StaleInv

LEMMA KernelLeavesLists ==
  ASSUME StaleInv, Typed',
         (\E s \in Targets : Kernel(s)) \/ UNCHANGED vars
  PROVE  StaleInv'
<1>1. UNCHANGED ListVars /\ UNCHANGED <<main, workerVars>>
  BY DEF ListVars, Kernel, ProcessExits, ChildCreated, ChildRefused,
     MemoryExceeded, vars
<1>2. ClosedOwner'
  BY <1>1, SameClosed DEF ListVars
<1>3. QED
  BY <1>1, <1>2, SameLists DEF StaleInv

LEMMA StaleInit == Init => StaleInv
<1> SUFFICES ASSUME Init PROVE StaleInv
  OBVIOUS
<1>1. Typed
  BY InitTyped
<1>2. Holders = {} /\ \A s \in Targets : ~Listed(s)
  BY DEF Init, Holders, Listed
<1>3. ListOrder /\ HandlesDistinct /\ ClosedOwner
  BY DEF Init, ListOrder, HandlesDistinct, ClosedOwner
<1>4. Tracking
  BY <1>2 DEF Init, Tracking, LockHeld
<1>5. RefsCover
  BY <1>2, FS_EmptySet DEF Init, RefsCover, LockHeld
<1>6. QED
  BY <1>1, <1>3, <1>4, <1>5 DEF StaleInv

LEMMA StaleStep ==
  ASSUME ~QuitTimesOut
  PROVE  StaleInv /\ [Next]_vars => StaleInv'
<1> SUFFICES ASSUME StaleInv, [Next]_vars PROVE StaleInv'
  OBVIOUS
<1>1. Typed'
  BY TypedStep DEF StaleInv
<1>2. CASE Caller
  BY <1>1, <1>2, SpawnKeeps, SpawnCleanupKeeps, AddTargetKeeps, TrackJobKeeps,
     LeakPolicyKeeps, DropPolicyKeeps, FreeResourcesKeeps, ClearDestroysKeeps,
     CallerLeavesLists DEF Caller
<1>3. CASE TargetEventsThread
  BY <1>1, <1>3, FreeResourcesKeeps, WorkerLeavesLists
<1>4. CASE (\E s \in Targets : Kernel(s)) \/ UNCHANGED vars
  BY <1>1, <1>4, KernelLeavesLists
<1>5. QED
  BY <1>2, <1>3, <1>4 DEF Next

(* OnJobEmpty compares handle values of a job it has already closed, and the *)
(* kernel may have given that value to a younger job; still the first match  *)
(* in targets_ is the target of the emptied job, for any number of targets,  *)
(* whenever the destructor finds the worker thread gone in time.             *)
THEOREM StaleHandleRight ==
  ASSUME ~QuitTimesOut
  PROVE  Spec => []StaleHandleFindsOwn
<1>1. StaleInv /\ [Next]_vars => StaleInv'
  BY StaleStep
<1>2. QED
  BY <1>1, StaleInit, StaleHandle, PTL DEF Spec

-----------------------------------------------------------------------------
(* What the packets refer to.  The packet that says that a job is empty is   *)
(* the last the worker gets of a target's memory limit, and only that packet *)
(* closes a job while the worker runs.                                       *)
MemoryPacket(q, s) == q.event = "PROCESS_MEMORY_LIMIT" /\ q.key = s
Silent(s) ==
  /\ Associated(s) /\ procs[s] = {}
  /\ \A j \in DOMAIN port : ~MemoryPacket(port[j], s)

QueueOrder ==
  /\ \A i \in DOMAIN port : port[i].event # "QUIT" => Associated(port[i].key)
  /\ \A i \in DOMAIN port : port[i].event = "ACTIVE_PROCESS_ZERO" =>
       /\ procs[port[i].key] = {}
       /\ \A j \in DOMAIN port : i < j => ~MemoryPacket(port[j], port[i].key)

HandledPacket ==
  /\ worker = "freeing" \/ Got("ACTIVE_PROCESS_ZERO") => Silent(packet.key)
  /\ Got("PROCESS_MEMORY_LIMIT") => tracker[packet.key] = "set"

EmptiedJobs ==
  worker # "done" =>
    \A s \in Targets : /\ tracker[s] \in {"closed", "freed"} => Silent(s)
                       /\ tracker[s] # "destroyed"

QueueInv == QueueOrder /\ HandledPacket /\ EmptiedJobs

LEMMA PacketFields ==
  /\ NoPacket.event = "QUIT"
  /\ \A e, s, p : Packet(e, s, p).event = e /\ Packet(e, s, p).key = s
  /\ \A q \in Packets : q.event # "QUIT" => q.key \in Targets
BY DEF NoPacket, Packet, Packets

LEMMA PostedAt ==
  ASSUME TypeOK, NEW ps \in Seq(Packets), Post(ps)
  PROVE  /\ \A i \in DOMAIN port : i \in DOMAIN port' /\ port'[i] = port[i]
         /\ \A i \in DOMAIN port' : i \notin DOMAIN port =>
              /\ \A j \in DOMAIN port : j < i
              /\ \E k \in DOMAIN ps : port'[i] = ps[k]
<1>1. port \in Seq(Packets) /\ port' = port \o ps
  BY DEF TypeOK, Post
<1>2. /\ Len(port') = Len(port) + Len(ps)
      /\ \A i \in 1..(Len(port) + Len(ps)) :
           port'[i] = IF i <= Len(port) THEN port[i] ELSE ps[i - Len(port)]
      /\ DOMAIN port' = 1..Len(port') /\ DOMAIN port = 1..Len(port) /\ DOMAIN ps = 1..Len(ps)
      /\ Len(port) \in Nat /\ Len(ps) \in Nat
  BY <1>1, ConcatProperties
<1>3. \A i \in DOMAIN port : i \in DOMAIN port' /\ port'[i] = port[i]
  BY <1>2
<1>4. ASSUME NEW i \in DOMAIN port', i \notin DOMAIN port
      PROVE  /\ \A j \in DOMAIN port : j < i
             /\ \E k \in DOMAIN ps : port'[i] = ps[k]
  <2>1. i \in Nat /\ i > Len(port) /\ i - Len(port) \in DOMAIN ps
    BY <1>2, <1>4
  <2> QED
    BY <1>2, <2>1
<1> QED
  BY <1>3, <1>4

(* A step that posts packets, or none, and takes none.                       *)
LEMMA PostKeeps ==
  ASSUME Typed, Typed', QueueInv, NEW ps \in Seq(Packets), Post(ps),
         UNCHANGED <<worker, packet>>,
         \A k \in DOMAIN ps :
           /\ ps[k].event # "QUIT" => tracker'[ps[k].key] # "none"
           /\ ps[k].event = "PROCESS_MEMORY_LIMIT" =>
                Associated(ps[k].key) /\ procs[ps[k].key] # {}
           /\ ps[k].event = "ACTIVE_PROCESS_ZERO" =>
                /\ procs'[ps[k].key] = {}
                /\ \A j \in DOMAIN ps : ps[j].event # "PROCESS_MEMORY_LIMIT",
         \A s \in Targets : /\ Associated(s) => tracker'[s] = tracker[s]
                            /\ Associated(s) /\ procs[s] = {} => procs'[s] = {}
                            /\ tracker'[s] # tracker[s] => tracker'[s] = "set"
  PROVE  QueueInv'
<1> TypeOK /\ TypeOK'
  BY DEF Typed
<1>1. port' \in Seq(Packets) /\ DOMAIN port' \subseteq Nat
  BY DEF TypeOK
<1>2. \A i \in DOMAIN port : port[i] \in Packets
  BY DEF TypeOK
<1>3. ASSUME NEW s \in Targets, Silent(s) PROVE Silent(s)'
  BY <1>3, PostedAt DEF Silent, MemoryPacket, Associated
<1>4. QueueOrder'
  <2>1. ASSUME NEW i \in DOMAIN port', port'[i].event # "QUIT"
        PROVE  tracker'[port'[i].key] # "none"
    <3>1. CASE i \in DOMAIN port
      <4>1. port'[i] = port[i] /\ port[i].key \in Targets /\ Associated(port[i].key)
        BY <1>2, <2>1, <3>1, PostedAt, PacketFields DEF QueueInv, QueueOrder
      <4> QED
        BY <4>1 DEF Associated
    <3>2. CASE i \notin DOMAIN port
      <4>1. PICK k \in DOMAIN ps : port'[i] = ps[k]
        BY <2>1, <3>2, PostedAt
      <4> QED
        BY <2>1, <4>1
    <3> QED
      BY <3>1, <3>2
  <2>2. ASSUME NEW i \in DOMAIN port', port'[i].event = "ACTIVE_PROCESS_ZERO",
               NEW j \in DOMAIN port', i < j
        PROVE  procs'[port'[i].key] = {} /\ ~MemoryPacket(port'[j], port'[i].key)
    <3>1. CASE i \in DOMAIN port
      <4>1. port[i].key \in Targets /\ Associated(port[i].key) /\ procs[port[i].key] = {}
            /\ port'[i] = port[i]
        BY <1>2, <2>2, <3>1, PostedAt, PacketFields DEF QueueInv, QueueOrder
      <4> QED
        BY <2>2, <3>1, <4>1, PostedAt DEF QueueInv, QueueOrder, MemoryPacket
    <3>2. CASE i \notin DOMAIN port
      <4>1. j \notin DOMAIN port
        <5>1. i \in Nat /\ j \in Nat /\ (j \in DOMAIN port => j < i)
          BY <1>1, <2>2, <3>2, PostedAt
        <5> QED
          BY <2>2, <5>1
      <4>2. PICK k \in DOMAIN ps : port'[i] = ps[k]
        BY <2>2, <3>2, PostedAt
      <4>3. PICK l \in DOMAIN ps : port'[j] = ps[l]
        BY <2>2, <4>1, PostedAt
      <4> QED
        BY <2>2, <4>2, <4>3 DEF MemoryPacket
    <3> QED
      BY <3>1, <3>2
  <2>3. ASSUME NEW i \in DOMAIN port', port'[i].event = "ACTIVE_PROCESS_ZERO"
        PROVE  procs'[port'[i].key] = {}
    <3>1. CASE i \in DOMAIN port
      <4>1. port'[i] = port[i] /\ port[i].key \in Targets /\ Associated(port[i].key)
            /\ procs[port[i].key] = {}
        BY <1>2, <2>3, <3>1, PostedAt, PacketFields DEF QueueInv, QueueOrder
      <4> QED
        BY <4>1
    <3>2. CASE i \notin DOMAIN port
      <4>1. PICK k \in DOMAIN ps : port'[i] = ps[k]
        BY <2>3, <3>2, PostedAt
      <4> QED
        BY <2>3, <4>1
    <3> QED
      BY <3>1, <3>2
  <2> QED
    BY <2>1, <2>2, <2>3 DEF QueueOrder, Associated
<1>5. HandledPacket'
  <2>1. packet \in Packets
    BY DEF TypeOK
  <2>2. Got("PROCESS_MEMORY_LIMIT") => packet.key \in Targets
    BY <2>1, PacketFields DEF Got
  <2>3. Got("ACTIVE_PROCESS_ZERO") => packet.key \in Targets
    BY <2>1, PacketFields DEF Got
  <2>4. worker = "freeing" => packet.key \in Targets
    BY DEF Typed
  <2>5. worker' = "freeing" \/ Got("ACTIVE_PROCESS_ZERO")' => Silent(packet.key)'
    <3>1. worker = "freeing" \/ Got("ACTIVE_PROCESS_ZERO") => Silent(packet.key)'
      BY <1>3, <2>3, <2>4 DEF QueueInv, HandledPacket
    <3> QED
      BY <3>1 DEF Got, Silent, Associated
  <2>6. Got("PROCESS_MEMORY_LIMIT")' => tracker'[packet'.key] = "set"
    BY <2>2 DEF QueueInv, HandledPacket, Got, Associated
  <2> QED
    BY <2>5, <2>6 DEF HandledPacket
<1>6. EmptiedJobs'
  BY <1>3 DEF QueueInv, EmptiedJobs, Associated
<1> QED
  BY <1>4, <1>5, <1>6 DEF QueueInv

(* A step that posts nothing and leaves the worker where it is.              *)
LEMMA NoPostKeeps ==
  ASSUME Typed, Typed', QueueInv, UNCHANGED <<port, worker, packet>>,
         \A s \in Targets : /\ Associated(s) => tracker'[s] = tracker[s]
                            /\ Associated(s) /\ procs[s] = {} => procs'[s] = {}
                            /\ tracker'[s] # tracker[s] => tracker'[s] = "set"
  PROVE  QueueInv'
<1>1. <<>> \in Seq(Packets) /\ DOMAIN <<>> = {} /\ Post(<<>>)
  <2>1. port \in Seq(Packets)
    BY DEF Typed, TypeOK
  <2> QED
    BY <2>1 DEF Post
<1> DEFINE ps == <<>>
<1>2. ps \in Seq(Packets) /\ DOMAIN ps = {} /\ Post(ps)
  BY <1>1
<1> HIDE DEF ps
<1> QED
  BY <1>2, PostKeeps

LEMMA OnePacket ==
  ASSUME NEW q \in Packets
  PROVE  <<q>> \in Seq(Packets) /\ DOMAIN <<q>> = {1} /\ <<q>>[1] = q
OBVIOUS

LEMMA TwoPackets ==
  ASSUME NEW q \in Packets, NEW r \in Packets
  PROVE  /\ <<q, r>> \in Seq(Packets) /\ DOMAIN <<q, r>> = {1, 2}
         /\ <<q, r>>[1] = q /\ <<q, r>>[2] = r
         /\ <<q>> \o <<r>> = <<q, r>>
<1>1. /\ <<q>> \in Seq(Packets) /\ <<r>> \in Seq(Packets) /\ <<q, r>> \in Seq(Packets)
      /\ Len(<<q>>) = 1 /\ Len(<<r>>) = 1 /\ Len(<<q, r>>) = 2
      /\ <<q>>[1] = q /\ <<r>>[1] = r /\ <<q, r>>[1] = q /\ <<q, r>>[2] = r
  OBVIOUS
<1> DEFINE a == <<q>>
           b == <<r>>
           c == <<q, r>>
<1>2. /\ a \in Seq(Packets) /\ b \in Seq(Packets) /\ c \in Seq(Packets)
      /\ Len(a) = 1 /\ Len(b) = 1 /\ Len(c) = 2
      /\ a[1] = q /\ b[1] = r /\ c[1] = q /\ c[2] = r
  BY <1>1
<1> HIDE DEF a, b, c
<1>3. /\ a \o b \in Seq(Packets) /\ Len(a \o b) = 2
      /\ (a \o b)[1] = q /\ (a \o b)[2] = r
  <2>1. /\ a \o b \in Seq(Packets) /\ Len(a \o b) = Len(a) + Len(b)
        /\ \A k \in 1..(Len(a) + Len(b)) :
             (a \o b)[k] = IF k <= Len(a) THEN a[k] ELSE b[k - Len(a)]
    BY <1>2, ConcatProperties
  <2> DEFINE both == a \o b
  <2>2. /\ both \in Seq(Packets) /\ Len(both) = 1 + 1
        /\ \A k \in 1..(1 + 1) : both[k] = IF k <= 1 THEN a[k] ELSE b[k - 1]
    BY <1>2, <2>1
  <2> HIDE DEF both
  <2>3. both \in Seq(Packets) /\ Len(both) = 2 /\ both[1] = q /\ both[2] = r
    BY <1>2, <2>2
  <2> QED
    BY <2>3 DEF both
<1>4. a \o b = c
  BY <1>2, <1>3, SeqEqual
<1> QED
  BY <1>1, <1>4 DEF a, b, c

LEMMA CallerQueue ==
  ASSUME StaleInv, Typed', QueueInv, Caller, ~QuitTimesOut
  PROVE  QueueInv'
<1> Typed /\ Tracking /\ TypeOK
  BY DEF StaleInv, Typed
<1>1. CASE SpawnTarget
  <2>1. spawned + 1 \in Targets /\ tracker[spawned + 1] = "none"
    <3>1. spawned \in 0..MaxSpawns /\ spawned < MaxSpawns
      BY <1>1 DEF SpawnTarget, TypeOK
    <3>2. spawned + 1 \in Targets /\ spawned + 1 > spawned
      BY <3>1, BoundsAssumption DEF Targets
    <3> QED
      BY <3>2 DEF Tracking
  <2>2. /\ UNCHANGED <<port, worker, packet, tracker>>
        /\ \A s \in Targets : s # spawned + 1 => procs'[s] = procs[s]
    BY <1>1 DEF SpawnTarget, TypeOK
  <2> QED
    BY <2>1, <2>2, NoPostKeeps DEF Associated
<1>2. CASE TrackJob
  <2>1. /\ spawned \in Targets /\ pid[spawned] \in Pids /\ tracker[spawned] = "none"
        /\ tracker' = [tracker EXCEPT ![spawned] = "set"]
        /\ UNCHANGED <<procs, worker, packet>>
    BY <1>2 DEF TrackJob, Tracking, Typed, LockHeld
  <2> DEFINE q == Packet("NEW_PROCESS", spawned, pid[spawned])
  <2>2. q \in Packets /\ q.event = "NEW_PROCESS" /\ q.key = spawned /\ Post(<<q>>)
    BY <1>2, <2>1, PacketType, PacketFields DEF TrackJob, Events
  <2> HIDE DEF q
  <2>3. tracker'[spawned] = "set" /\ \A s \in Targets : s # spawned => tracker'[s] = tracker[s]
    BY <2>1 DEF TypeOK
  <2>4. \A s \in Targets : /\ Associated(s) => tracker'[s] = tracker[s]
                           /\ tracker'[s] # tracker[s] => tracker'[s] = "set"
    BY <2>1, <2>3 DEF Associated
  <2> DEFINE ps == <<q>>
  <2>5. ps \in Seq(Packets) /\ Post(ps) /\ \A k \in DOMAIN ps : ps[k] = q
    BY <2>2, OnePacket
  <2> HIDE DEF ps
  <2>6. \A k \in DOMAIN ps :
           /\ ps[k].event # "QUIT" => tracker'[ps[k].key] # "none"
           /\ ps[k].event # "PROCESS_MEMORY_LIMIT" /\ ps[k].event # "ACTIVE_PROCESS_ZERO"
    BY <2>2, <2>3, <2>5
  <2> QED
    BY <2>1, <2>4, <2>5, <2>6, PostKeeps
<1>3. CASE DestroyBroker
  <2> DEFINE ps == <<NoPacket>>
  <2>1. ps \in Seq(Packets) /\ Post(ps) /\ \A k \in DOMAIN ps : ps[k].event = "QUIT"
    BY <1>3, OnePacket, PacketType, PacketFields DEF DestroyBroker
  <2>2. UNCHANGED <<tracker, procs, worker, packet>>
    BY <1>3 DEF DestroyBroker
  <2> HIDE DEF ps
  <2> QED
    BY <2>1, <2>2, PostKeeps
<1>4. CASE ClearClosesJob \/ ClearNotifiesPolicy \/ ClearDestroys
  <2>1. worker = "done" /\ UNCHANGED <<port, procs, worker, packet>>
    BY <1>4 DEF ClearClosesJob, ClearNotifiesPolicy, ClearDestroys, StaleInv, ClosedOwner
  <2>2. \A s \in Targets : tracker'[s] # "none" \/ tracker[s] = "none"
    BY <1>4 DEF ClearClosesJob, ClearNotifiesPolicy, ClearDestroys, CloseJob, NotifyPolicy, TypeOK
  <2>3. \A i \in DOMAIN port : port[i] \in Packets
    BY DEF TypeOK
  <2>4. \A i \in DOMAIN port : port[i].event # "QUIT" => port[i].key \in Targets
    BY <2>3, PacketFields
  <2> QED
    BY <2>1, <2>2, <2>4
    DEF QueueInv, QueueOrder, HandledPacket, EmptiedJobs, Got, Associated
<1>5. CASE \/ SpawnCleanup \/ AddTarget \/ LeakPolicy \/ WaitForAllTargets \/ WaitReturns
           \/ DropPolicy \/ WorkerJoined \/ JoinTimesOut \/ ResetThreadPool
  <2>1. UNCHANGED <<port, worker, packet, tracker, procs>>
    BY <1>5 DEF SpawnCleanup, AddTarget, LeakPolicy, WaitForAllTargets, WaitReturns,
       DropPolicy, WorkerJoined, JoinTimesOut, ResetThreadPool
  <2> QED
    BY <2>1, NoPostKeeps
<1> QED
  BY <1>1, <1>2, <1>3, <1>4, <1>5 DEF Caller

LEMMA KernelQueue ==
  ASSUME StaleInv, Typed', QueueInv, NEW s \in Targets, Kernel(s)
  PROVE  QueueInv'
<1> Typed /\ Tracking /\ TypeOK
  BY DEF StaleInv, Typed
<1>0. UNCHANGED <<tracker, worker, packet>>
  BY DEF Kernel, ProcessExits, ChildCreated, ChildRefused, MemoryExceeded
<1>1. CASE ProcessExits(s)
  <2>1. PICK p \in procs[s] :
          /\ procs' = [procs EXCEPT ![s] = @ \ {p}]
          /\ IF ~Associated(s) THEN UNCHANGED port
             ELSE Post(<<Packet("EXIT_PROCESS", s, p)>> \o
                       (IF procs[s] = {p}
                        THEN <<Packet("ACTIVE_PROCESS_ZERO", s, NoPid)>> ELSE <<>>))
    BY <1>1 DEF ProcessExits
  <2>2. /\ p \in Pids /\ procs'[s] = procs[s] \ {p}
        /\ \A t \in Targets : procs[t] = {} => procs'[t] = {}
    BY <2>1 DEF TypeOK
  <2>3. CASE ~Associated(s)
    BY <1>0, <2>1, <2>2, <2>3, NoPostKeeps
  <2> DEFINE exit == Packet("EXIT_PROCESS", s, p)
             zero == Packet("ACTIVE_PROCESS_ZERO", s, NoPid)
  <2>4. /\ exit \in Packets /\ exit.event = "EXIT_PROCESS" /\ exit.key = s
        /\ zero \in Packets /\ zero.event = "ACTIVE_PROCESS_ZERO" /\ zero.key = s
    BY <2>2, PacketType, PacketFields DEF Events
  <2>5. CASE Associated(s) /\ procs[s] = {p}
    <3> DEFINE ps == <<exit, zero>>
    <3>1. Post(<<exit>> \o <<zero>>)
      BY <2>1, <2>5
    <3> HIDE DEF exit, zero
    <3>2. ps \in Seq(Packets) /\ Post(ps) /\ \A k \in DOMAIN ps : ps[k] \in {exit, zero}
      <4>1. <<exit>> \o <<zero>> = ps /\ ps \in Seq(Packets)
        BY <2>4, TwoPackets
      <4>2. Post(ps)
        BY <3>1, <4>1
      <4>3. DOMAIN ps = {1, 2} /\ ps[1] = exit /\ ps[2] = zero
        BY <2>4, TwoPackets
      <4> QED
        BY <4>1, <4>2, <4>3
    <3> HIDE DEF ps
    <3>3. \A k \in DOMAIN ps :
             /\ ps[k].key = s /\ ps[k].event # "PROCESS_MEMORY_LIMIT"
             /\ procs'[ps[k].key] = {} /\ tracker'[ps[k].key] # "none"
      BY <1>0, <2>2, <2>4, <2>5, <3>2 DEF Associated
    <3> QED
      BY <1>0, <2>2, <3>2, <3>3, PostKeeps
  <2>6. CASE Associated(s) /\ procs[s] # {p}
    <3> DEFINE ps == <<exit>>
    <3>1. Post(<<exit>> \o <<>>) /\ <<exit>> \o <<>> = <<exit>>
      BY <2>1, <2>6
    <3>2. ps \in Seq(Packets) /\ Post(ps) /\ \A k \in DOMAIN ps : ps[k] = exit
      BY <2>4, <3>1, OnePacket
    <3> HIDE DEF ps, exit, zero
    <3>3. \A k \in DOMAIN ps :
             /\ ps[k].event # "PROCESS_MEMORY_LIMIT" /\ ps[k].event # "ACTIVE_PROCESS_ZERO"
             /\ tracker'[ps[k].key] # "none"
      BY <1>0, <2>4, <2>6, <3>2 DEF Associated
    <3> QED
      BY <1>0, <2>2, <3>2, <3>3, PostKeeps
  <2> QED
    BY <2>3, <2>5, <2>6
<1>2. CASE ChildCreated(s)
  <2>1. PICK p \in FreePids :
          /\ procs' = [procs EXCEPT ![s] = @ \union {p}]
          /\ Post(<<Packet("NEW_PROCESS", s, p)>>)
    BY <1>2 DEF ChildCreated
  <2>2. /\ Associated(s) /\ procs[s] # {} /\ p \in Pids
        /\ \A t \in Targets : procs[t] = {} => procs'[t] = {}
    BY <1>2, <2>1 DEF ChildCreated, MayCreate, FreePids, TypeOK
  <2> DEFINE q == Packet("NEW_PROCESS", s, p)
             ps == <<q>>
  <2>3. q \in Packets /\ q.event = "NEW_PROCESS" /\ q.key = s
    BY <2>2, PacketType, PacketFields DEF Events
  <2>4. ps \in Seq(Packets) /\ Post(ps) /\ \A k \in DOMAIN ps : ps[k] = q
    BY <2>1, <2>3, OnePacket
  <2> HIDE DEF ps, q
  <2>5. \A k \in DOMAIN ps :
           /\ ps[k].event # "PROCESS_MEMORY_LIMIT" /\ ps[k].event # "ACTIVE_PROCESS_ZERO"
           /\ tracker'[ps[k].key] # "none"
    BY <1>0, <2>2, <2>3, <2>4 DEF Associated
  <2> QED
    BY <1>0, <2>2, <2>4, <2>5, PostKeeps
<1>3. CASE ChildRefused(s)
  <2>1. PICK p \in FreePids : Post(<<Packet("ACTIVE_PROCESS_LIMIT", s, NoPid),
                                     Packet("EXIT_PROCESS", s, p)>>)
    BY <1>3 DEF ChildRefused
  <2>2. Associated(s) /\ p \in Pids /\ UNCHANGED procs
    BY <1>3, <2>1 DEF ChildRefused, MayCreate, FreePids
  <2> DEFINE q == Packet("ACTIVE_PROCESS_LIMIT", s, NoPid)
             r == Packet("EXIT_PROCESS", s, p)
             ps == <<q, r>>
  <2>3. /\ q \in Packets /\ q.event = "ACTIVE_PROCESS_LIMIT" /\ q.key = s
        /\ r \in Packets /\ r.event = "EXIT_PROCESS" /\ r.key = s
    BY <2>2, PacketType, PacketFields DEF Events
  <2>4. ps \in Seq(Packets) /\ Post(ps) /\ \A k \in DOMAIN ps : ps[k] \in {q, r}
    BY <2>1, <2>3, TwoPackets
  <2> HIDE DEF ps, q, r
  <2>5. \A k \in DOMAIN ps :
           /\ ps[k].event # "PROCESS_MEMORY_LIMIT" /\ ps[k].event # "ACTIVE_PROCESS_ZERO"
           /\ tracker'[ps[k].key] # "none"
    BY <1>0, <2>2, <2>3, <2>4 DEF Associated
  <2> QED
    BY <1>0, <2>2, <2>4, <2>5, PostKeeps
<1>4. CASE MemoryExceeded(s)
  <2>1. PICK p \in procs[s] : Post(<<Packet("PROCESS_MEMORY_LIMIT", s, p)>>)
    BY <1>4 DEF MemoryExceeded
  <2>2. Associated(s) /\ p \in Pids /\ procs[s] # {} /\ UNCHANGED procs
    BY <1>4, <2>1 DEF MemoryExceeded, TypeOK
  <2> DEFINE q == Packet("PROCESS_MEMORY_LIMIT", s, p)
             ps == <<q>>
  <2>3. q \in Packets /\ q.event = "PROCESS_MEMORY_LIMIT" /\ q.key = s
    BY <2>2, PacketType, PacketFields DEF Events
  <2>4. ps \in Seq(Packets) /\ Post(ps) /\ \A k \in DOMAIN ps : ps[k] = q
    BY <2>1, <2>3, OnePacket
  <2> HIDE DEF ps, q
  <2>5. \A k \in DOMAIN ps : ps[k].event = "PROCESS_MEMORY_LIMIT" /\ ps[k].key = s
    BY <2>3, <2>4
  <2> QED
    BY <1>0, <2>2, <2>4, <2>5, PostKeeps DEF Associated
<1> QED
  BY <1>1, <1>2, <1>3, <1>4 DEF Kernel

(* The worker takes the oldest packet.                                       *)
LEMMA TakesPacket ==
  ASSUME StaleInv, QueueInv, GetQueuedCompletionStatus
  PROVE  QueueInv'
<1>1. /\ port \in Seq(Packets) /\ port # <<>> /\ packet' = Head(port) /\ port' = Tail(port)
      /\ worker = "loop" /\ worker' = "event" /\ UNCHANGED <<tracker, procs>>
  BY DEF GetQueuedCompletionStatus, StaleInv, Typed, TypeOK
<1>2. /\ packet' = port[1] /\ 1 \in DOMAIN port
      /\ \A i \in DOMAIN port' : i \in Nat /\ i + 1 \in DOMAIN port /\ 1 < i + 1
                                 /\ port'[i] = port[i + 1]
  BY <1>1, HeadTailProperties
<1>3. \A i, j \in DOMAIN port' : i < j => i + 1 < j + 1
  BY <1>2
<1>4. \A i \in DOMAIN port : port[i] \in Packets
  BY <1>1
<1>5. packet' \in Packets /\ (packet'.event # "QUIT" => packet'.key \in Targets)
  BY <1>2, <1>4, PacketFields
<1>6. QueueOrder'
  <2>1. ASSUME NEW i \in DOMAIN port'
        PROVE  /\ port'[i].event # "QUIT" => tracker'[port'[i].key] # "none"
               /\ port'[i].event = "ACTIVE_PROCESS_ZERO" => procs'[port'[i].key] = {}
    <3> DEFINE k == i + 1
    <3>1. k \in DOMAIN port /\ port'[i] = port[k]
      BY <1>2
    <3> HIDE DEF k
    <3>2. port[k].event # "QUIT" => tracker[port[k].key] # "none"
      BY <3>1 DEF QueueInv, QueueOrder, Associated
    <3>3. port[k].event = "ACTIVE_PROCESS_ZERO" => procs[port[k].key] = {}
      BY <3>1 DEF QueueInv, QueueOrder
    <3>4. tracker' = tracker /\ procs' = procs
      BY <1>1
    <3> QED
      BY <3>1, <3>2, <3>3, <3>4
  <2>2. ASSUME NEW i \in DOMAIN port', port'[i].event = "ACTIVE_PROCESS_ZERO",
               NEW j \in DOMAIN port', i < j
        PROVE  ~MemoryPacket(port'[j], port'[i].key)
    <3>1. /\ i + 1 \in DOMAIN port /\ j + 1 \in DOMAIN port /\ i + 1 < j + 1
          /\ port'[i] = port[i + 1] /\ port'[j] = port[j + 1]
      BY <1>2, <1>3, <2>2
    <3> QED
      BY <2>2, <3>1 DEF QueueInv, QueueOrder
  <2> QED
    BY <2>1, <2>2 DEF QueueOrder, Associated
<1>7. ASSUME NEW s \in Targets, Silent(s) PROVE Silent(s)' /\ ~MemoryPacket(packet', s)
  BY <1>1, <1>2, <1>7 DEF Silent, Associated, MemoryPacket
<1>8. EmptiedJobs'
  BY <1>1, <1>7 DEF QueueInv, EmptiedJobs
<1>9. HandledPacket'
  <2>1. ASSUME packet'.event = "ACTIVE_PROCESS_ZERO" PROVE Silent(packet.key)'
    <3> DEFINE s == port[1].key
    <3>1. 1 \in DOMAIN port /\ port[1].event = "ACTIVE_PROCESS_ZERO" /\ packet'.key = s
      BY <1>2, <2>1
    <3>2. Associated(s) /\ procs[s] = {}
      BY <3>1 DEF QueueInv, QueueOrder
    <3>3. ASSUME NEW j \in DOMAIN port' PROVE ~MemoryPacket(port'[j], s)
      <4>1. j + 1 \in DOMAIN port /\ 1 < j + 1 /\ port'[j] = port[j + 1]
        BY <1>2
      <4> QED
        BY <3>1, <4>1 DEF QueueInv, QueueOrder
    <3>4. tracker' = tracker /\ procs' = procs
      BY <1>1
    <3> HIDE DEF s
    <3> QED
      BY <3>1, <3>2, <3>3, <3>4 DEF Silent, Associated, MemoryPacket
  <2>2. ASSUME packet'.event = "PROCESS_MEMORY_LIMIT" PROVE tracker'[packet'.key] = "set"
    <3>1. packet'.key \in Targets /\ tracker[packet'.key] # "none"
      BY <1>2, <1>5, <2>2 DEF QueueInv, QueueOrder, Associated
    <3>2. tracker[packet'.key] \notin {"closed", "freed", "destroyed"}
      BY <1>1, <1>7, <2>2, <3>1 DEF QueueInv, EmptiedJobs, MemoryPacket
    <3>3. tracker[packet'.key] \in {"none", "set", "closed", "freed", "destroyed"}
      BY <3>1 DEF StaleInv, Typed, TypeOK
    <3> QED
      BY <1>1, <3>1, <3>2, <3>3
  <2> QED
    BY <1>1, <2>1, <2>2 DEF HandledPacket, Got
<1> QED
  BY <1>6, <1>8, <1>9 DEF QueueInv

(* The worker handles it: trackers change only for a job that is empty.      *)
LEMMA HandlesPacket ==
  ASSUME StaleInv, QueueInv, UNCHANGED <<port, procs>>, worker # "done",
         worker' \in {"loop", "counted", "erased", "freeing", "done"},
         worker' = "freeing" => Silent(packet.key) /\ packet'.key = packet.key
                                /\ packet.key \in Targets,
         \A s \in Targets :
           \/ tracker'[s] = tracker[s]
           \/ Silent(s) /\ tracker'[s] \in {"closed", "freed"}
  PROVE  QueueInv'
<1>1. \A i \in DOMAIN port : port[i] \in Packets
  BY DEF StaleInv, Typed, TypeOK
<1>2. \A s \in Targets : tracker[s] # "none" => tracker'[s] # "none"
  OBVIOUS
<1>3. \A i \in DOMAIN port : port[i].event # "QUIT" => port[i].key \in Targets
  BY <1>1, PacketFields
<1>4. QueueOrder'
  BY <1>2, <1>3 DEF QueueInv, QueueOrder, Associated
<1>5. \A s \in Targets : Silent(s) => Silent(s)'
  BY <1>2 DEF Silent, Associated
<1>6. EmptiedJobs'
  BY <1>5 DEF QueueInv, EmptiedJobs
<1>7. HandledPacket'
  <2>1. worker' = "freeing" => Silent(packet.key)'
    <3>1. worker' = "freeing" => /\ packet'.key = packet.key /\ packet.key \in Targets
                                 /\ tracker'[packet.key] # "none"
                                 /\ procs'[packet.key] = {}
                                 /\ \A j \in DOMAIN port' : ~MemoryPacket(port'[j], packet.key)
      BY <1>2 DEF Silent, Associated
    <3> QED
      BY <3>1 DEF Silent, Associated
  <2> QED
    BY <2>1 DEF HandledPacket, Got
<1> QED
  BY <1>4, <1>6, <1>7 DEF QueueInv

LEMMA WorkerQueue ==
  ASSUME StaleInv, QueueInv, TargetEventsThread, ~QuitTimesOut
  PROVE  QueueInv'
<1> Typed /\ TypeOK
  BY DEF StaleInv, Typed
<1>0. packet \in Packets
      /\ tracker \in [Targets -> {"none", "set", "closed", "freed", "destroyed"}]
  BY DEF TypeOK
<1>1. CASE WorkerClosesJob
  <2>1. /\ Got("ACTIVE_PROCESS_ZERO") /\ worker' = "freeing" /\ worker = "event"
        /\ tracker' = [tracker EXCEPT ![packet.key] = "closed"]
        /\ UNCHANGED <<port, procs, packet>>
    BY <1>1 DEF WorkerClosesJob, CloseJob, Got
  <2>2. packet.key \in Targets /\ Silent(packet.key)
    BY <1>0, <2>1, PacketFields DEF Got, QueueInv, HandledPacket
  <2>3. \A s \in Targets : \/ tracker'[s] = tracker[s]
                           \/ Silent(s) /\ tracker'[s] \in {"closed", "freed"}
    BY <1>0, <2>1, <2>2
  <2> QED
    BY <2>1, <2>2, <2>3, HandlesPacket
<1>2. CASE WorkerNotifiesPolicy
  <2>1. /\ worker = "freeing" /\ worker' = "loop" /\ tracker[packet.key] = "closed"
        /\ tracker' = [tracker EXCEPT ![packet.key] = "freed"]
        /\ UNCHANGED <<port, procs>>
    BY <1>2 DEF WorkerNotifiesPolicy, NotifyPolicy, PacketDone
  <2>2. packet.key \in Targets /\ Silent(packet.key)
    BY <2>1 DEF Typed, QueueInv, HandledPacket
  <2>3. \A s \in Targets : \/ tracker'[s] = tracker[s]
                           \/ Silent(s) /\ tracker'[s] \in {"closed", "freed"}
    BY <1>0, <2>1, <2>2
  <2> QED
    BY <2>1, <2>3, HandlesPacket
<1>3. CASE GetQueuedCompletionStatus
  BY <1>3, TakesPacket
<1>4. CASE \/ WorkerStarts \/ LookUpNewProcess \/ CountNewProcess \/ EraseExitedProcess
           \/ CountExitedProcess \/ ActiveProcessLimit \/ ProcessMemoryLimit
           \/ NothingToFree \/ WorkerQuits
  <2>1. /\ UNCHANGED <<port, procs, tracker>> /\ worker # "done"
        /\ worker' \in {"loop", "counted", "erased", "done"}
    BY <1>4 DEF WorkerStarts, LookUpNewProcess, CountNewProcess, EraseExitedProcess,
       CountExitedProcess, ActiveProcessLimit, ProcessMemoryLimit, NothingToFree, WorkerQuits,
       PacketDone, Got
  <2> QED
    BY <2>1, HandlesPacket
<1>5. ~WorkerNotifiesLate
  BY DEF WorkerNotifiesLate
<1> QED
  BY <1>1, <1>2, <1>3, <1>4, <1>5 DEF TargetEventsThread

(* The worker finds the job of a PROCESS_MEMORY_LIMIT open and the tracker   *)
(* of every packet in place (broker_services.cc:244, 246), for any targets   *)
(* and processes, whenever the destructor finds the worker gone in time.     *)
THEOREM TrackersAlive ==
  ASSUME ~QuitTimesOut
  PROVE  Spec => []TrackerAliveWhenUsed
<1>1. Init => QueueInv
  <2> SUFFICES ASSUME Init PROVE QueueInv
    OBVIOUS
  <2>1. DOMAIN port = {} /\ worker = "start" /\ \A s \in Targets : tracker[s] = "none"
    BY DEF Init
  <2> QED
    BY <2>1 DEF QueueInv, QueueOrder, HandledPacket, EmptiedJobs, Got
<1>2. StaleInv /\ QueueInv /\ [Next]_vars => QueueInv'
  <2> SUFFICES ASSUME StaleInv, QueueInv, [Next]_vars PROVE QueueInv'
    OBVIOUS
  <2>1. Typed /\ Typed'
    BY TypedStep DEF StaleInv
  <2>2. CASE UNCHANGED vars
    <3>1. UNCHANGED <<port, worker, packet, tracker, procs>>
      BY <2>2 DEF vars
    <3> QED
      BY <2>1, <3>1, NoPostKeeps
  <2> QED
    BY <2>1, <2>2, CallerQueue, WorkerQueue, KernelQueue DEF Next
<1>3. StaleInv /\ [Next]_vars => StaleInv'
  BY StaleStep
<1>4. StaleInv /\ QueueInv => TrackerAliveWhenUsed
  <2> SUFFICES ASSUME StaleInv, QueueInv, worker = "event"
               PROVE  /\ packet.event = "PROCESS_MEMORY_LIMIT" => job_open[packet.key]
                      /\ packet.event = "ACTIVE_PROCESS_ZERO" => tracker[packet.key] # "destroyed"
    BY DEF TrackerAliveWhenUsed
  <2>1. packet \in Packets /\ (packet.event # "QUIT" => packet.key \in Targets)
    <3>1. packet \in Packets
      BY DEF StaleInv, Typed, TypeOK
    <3> QED
      BY <3>1, PacketFields
  <2> QED
    BY <2>1 DEF QueueInv, HandledPacket, EmptiedJobs, Got, StaleInv, Tracking
<1> QED
  BY <1>1, <1>2, <1>3, <1>4, StaleInit, PTL DEF Spec

-----------------------------------------------------------------------------
(* What a deletion finds, however slow the worker is.  Two trackers may then *)
(* be between job.Close() and OnJobEmpty at once, the destructor may destroy *)
(* the one the worker is freeing, and each may remove the other's target     *)
(* when both jobs had the same handle value.                                 *)
Late(s) == worker = "freeing" /\ packet.key = s /\ tracker[s] = "destroyed"

(* The trackers that owe the policy a notification, and the listed targets   *)
(* whose job is closed, by handle value.                                     *)
Closing(h) == {s \in Targets : job[s] = h /\ (tracker[s] = "closed" \/ Late(s))}
Stale(h) == {s \in Targets : job[s] = h /\ Listed(s) /\ ~job_open[s]}

(* Those that hold a reference to the policy besides the caller.             *)
Leaked(s) == Listed(s) /\ job[s] = NoHandle /\ ~(main = "track" /\ s = spawned)
Debts == {s \in Targets :
            tracker[s] \in {"set", "closed"} \/ Late(s) \/ Leaked(s)}

Balanced == \A h \in Handles : Cardinality(Closing(h)) = Cardinality(Stale(h))
StaleKilled == \A h \in Handles : \A s \in Stale(h) : s \in killed

DebtsCovered ==
  /\ LockHeld => held
  /\ refs >= (IF held THEN 1 ELSE 0) + Cardinality(Debts)

OpenJobs ==
  /\ \A s \in Targets :
       (s > spawned \/ (LockHeld /\ s = spawned)) => tracker[s] = "none"
  /\ \A s \in Targets : tracker[s] = "set" => job_open[s] /\ Listed(s)
  /\ \A s \in Targets : job_open[s] => job[s] # NoHandle
  /\ \A s \in Targets : tracker[s] # "none" => job[s] # NoHandle
  /\ \A s \in Targets : Listed(s) /\ job_open[s]
       => tracker[s] = "set" \/ (main = "track" /\ s = spawned)
  /\ main = "track" => Listed(spawned)
  /\ LockHeld /\ job[spawned] # NoHandle => job_open[spawned]

(* A closed tracker is the worker's or the destructor's; never both's.       *)
Owners ==
  /\ \A s \in Targets : tracker[s] = "closed" =>
       \/ worker = "freeing" /\ packet.key = s
       \/ main = "clearing" /\ IsFront(s)
  /\ worker = "freeing" => tracker[packet.key] \in {"closed", "destroyed"}
  /\ main = "clearing" => \A s \in Targets : IsFront(s) =>
       tracker[s] = "closed" /\ ~(worker = "freeing" /\ packet.key = s)
  /\ main = "down" => TrackerList = {}
  /\ pool = "gone" => main = "down"

DeleteInv == Typed /\ ListOrder /\ HandlesDistinct /\ OpenJobs /\ Owners
             /\ DebtsCovered /\ Balanced /\ StaleKilled

LEMMA LeastNumber ==
  ASSUME NEW T \in SUBSET Nat, T # {}
  PROVE  \E x \in T : \A y \in T : x <= y
<1> DEFINE R == OpToRel(<, Nat)
<1>1. IsWellFoundedOn(R, Nat)
  BY NatLessThanWellFounded
<1>2. \A x, y \in Nat : y < x => <<y, x>> \in R
  BY DEF OpToRel
<1> HIDE DEF R
<1>3. PICK x \in T : \A y \in T : ~(<<y, x>> \in R)
  BY <1>1, WFMin
<1>4. ASSUME NEW y \in T PROVE x <= y
  <2>1. x \in Nat /\ y \in Nat /\ ~(y < x)
    BY <1>2, <1>3
  <2> QED
    BY <2>1
<1> QED
  BY <1>4

LEMMA TargetSetsFinite ==
  /\ \A S \in SUBSET Targets : IsFiniteSet(S) /\ Cardinality(S) \in Nat
  /\ Debts \in SUBSET Targets
  /\ \A h : Closing(h) \in SUBSET Targets /\ Stale(h) \in SUBSET Targets
<1>1. IsFiniteSet(Targets)
  BY BoundsAssumption, FS_Interval DEF Targets
<1>2. ASSUME NEW S \in SUBSET Targets
      PROVE  IsFiniteSet(S) /\ Cardinality(S) \in Nat
  <2>1. IsFiniteSet(S)
    BY <1>1, FS_Subset
  <2> QED
    BY <2>1, FS_CardinalityType
<1> QED
  BY <1>2 DEF Debts, Closing, Stale

(* A listed target is kept by its tracker or a leaked reference, or its job  *)
(* is closed.                                                                *)
LEMMA ListedKinds ==
  ASSUME DeleteInv, NEW t \in Targets, Listed(t), ~(main = "track" /\ t = spawned)
  PROVE  \/ Leaked(t)
         \/ tracker[t] = "set"
         \/ job[t] \in Handles /\ t \in Stale(job[t])
<1>1. job[t] \in Handles \union {NoHandle}
  BY DEF DeleteInv, Typed, TypeOK
<1> QED
  BY <1>1 DEF DeleteInv, OpenJobs, Leaked, Stale

(* With one reference left and a tracker that owes its notification, what is *)
(* still listed has been told to terminate.                                  *)
LEMMA LastDebt ==
  ASSUME DeleteInv, NEW s \in Targets, tracker[s] = "closed" \/ Late(s), refs = 1
  PROVE  /\ Debts = {s} /\ ~held /\ ~LockHeld
         /\ \A t \in Targets : Listed(t) => t \in killed
<1>1. s \in Debts
  BY DEF Debts
<1>2. IsFiniteSet(Debts) /\ Cardinality(Debts) \in Nat
  BY TargetSetsFinite
<1>3. Cardinality(Debts) >= 1
  <2>1. Cardinality(Debts) # 0
    BY <1>1, <1>2, FS_EmptySet
  <2> QED
    BY <1>2, <2>1
<1>4. Cardinality(Debts) = 1 /\ ~held
  BY <1>2, <1>3 DEF DeleteInv, DebtsCovered
<1>5. Debts = {s}
  <2>1. \E x : Debts = {x}
    BY <1>2, <1>4, FS_Singleton
  <2> QED
    BY <1>1, <2>1
<1>6. ~LockHeld
  BY <1>4 DEF DeleteInv, DebtsCovered
<1>7. ASSUME NEW t \in Targets, Listed(t) PROVE t \in killed
  <2>1. job[s] # NoHandle /\ tracker[s] # "set"
    BY DEF DeleteInv, OpenJobs, Late
  <2>2. t \in Debts => t = s
    BY <1>5
  <2>3. ~Leaked(t)
    BY <2>1, <2>2 DEF Debts, Leaked
  <2>4. tracker[t] # "set"
    BY <2>1, <2>2 DEF Debts
  <2>5. job[t] \in Handles /\ t \in Stale(job[t])
    BY <1>6, <1>7, <2>3, <2>4, ListedKinds DEF LockHeld
  <2> QED
    BY <2>5 DEF DeleteInv, StaleKilled
<1> QED
  BY <1>4, <1>5, <1>6, <1>7

(* A notification finds a target whose job is closed.                        *)
LEMMA NotifyFindsStale ==
  ASSUME DeleteInv, NEW s \in Targets, tracker[s] = "closed" \/ Late(s)
  PROVE  /\ job[s] \in Handles
         /\ FirstWithJob(job[s]) # {}
         /\ \A i \in FirstWithJob(job[s]) :
              targets[i] \in Targets /\ targets[i] \in Stale(job[s])
<1> DEFINE h == job[s]
           With == {i \in DOMAIN targets : HasJob(i, h)}
<1>1. h \in Handles
  <2>1. h # NoHandle
    BY DEF DeleteInv, OpenJobs, Late
  <2> QED
    BY <2>1 DEF DeleteInv, Typed, TypeOK
<1>2. targets \in Seq(Targets) /\ DOMAIN targets = 1..Len(targets)
        /\ Len(targets) \in Nat
  BY DEF DeleteInv, Typed, TypeOK
<1>3. PICK t \in Targets : t \in Stale(h)
  <2>1. s \in Closing(h)
    BY DEF Closing
  <2>2. Cardinality(Closing(h)) # 0
    BY <2>1, TargetSetsFinite, FS_EmptySet
  <2>3. Cardinality(Stale(h)) # 0
    BY <1>1, <2>2 DEF DeleteInv, Balanced
  <2>4. Stale(h) # {}
    BY <2>3, FS_EmptySet
  <2> QED
    BY <2>4, TargetSetsFinite
<1>4. PICK j \in DOMAIN targets : targets[j] = t
  BY <1>3 DEF Stale, Listed
<1>5. job[t] = h /\ ~job_open[t]
  BY <1>3 DEF Stale
<1>6. j \in With
  BY <1>4, <1>5 DEF HasJob
<1>7. With \in SUBSET Nat
  BY <1>2
<1>8. PICK m \in With : \A i \in With : m <= i
  <2> HIDE DEF With
  <2> QED
    BY <1>6, <1>7, LeastNumber
<1>9. m \in FirstWithJob(h)
  <2>1. m \in DOMAIN targets /\ HasJob(m, h)
    BY <1>8
  <2>2. ASSUME NEW i \in 1..(m - 1) PROVE ~HasJob(i, h)
    <3>1. i \in DOMAIN targets /\ i < m /\ ~(m <= i)
      BY <1>2, <2>1
    <3> QED
      BY <1>8, <3>1
  <2> QED
    BY <2>1, <2>2 DEF FirstWithJob
<1>10. ASSUME NEW i \in FirstWithJob(h)
       PROVE  targets[i] \in Targets /\ targets[i] \in Stale(h)
  <2>1. /\ i \in DOMAIN targets /\ job[targets[i]] = h
        /\ \A k \in 1..(i - 1) : ~HasJob(k, h)
    BY <1>10 DEF FirstWithJob, HasJob
  <2>2. targets[i] \in Targets /\ Listed(targets[i])
    BY <1>2, <2>1 DEF Listed
  <2>3. i = j \/ i < j
    <3>1. ~(j < i)
      BY <1>2, <1>6, <2>1
    <3> QED
      BY <1>2, <2>1, <3>1
  <2>4. ~job_open[targets[i]]
    <3>1. CASE i = j
      BY <1>4, <1>5, <3>1
    <3>2. CASE i < j
      <4>1. targets[i] < t /\ t <= spawned
        BY <1>4, <2>1, <3>2 DEF DeleteInv, ListOrder
      <4>2. job[t] # NoHandle /\ job[t] = job[targets[i]]
        BY <1>1, <1>5, <2>1, HandlesAssumption
      <4> QED
        BY <2>2, <4>1, <4>2 DEF DeleteInv, HandlesDistinct
    <3> QED
      BY <2>3, <3>1, <3>2
  <2> QED
    BY <2>1, <2>2, <2>4 DEF Stale
<1> QED
  BY <1>1, <1>9, <1>10

LEMMA NotifyEffect ==
  ASSUME DeleteInv, NEW s \in Targets, tracker[s] = "closed" \/ Late(s),
         OnJobEmpty(job[s])
  PROVE  /\ refs' = refs - 1
         /\ killed \subseteq killed'
         /\ \A t \in Targets :
              object[t] = "live" /\ object'[t] = "deleted" => t \in killed
         /\ \/ refs = 1 /\ targets' = <<>>
            \/ /\ refs # 1
               /\ \A i, j \in DOMAIN targets' : i < j => targets'[i] < targets'[j]
               /\ \A i \in DOMAIN targets' : Listed(targets'[i])
               /\ \E f \in Stale(job[s]) :
                    \A t \in Targets : Listed(t)' <=> Listed(t) /\ t # f
<1>1. PICK i \in FirstWithJob(job[s]) :
        ReleasePolicy({targets[i]}, SubSeq(targets, 1, i - 1) \o
                                    SubSeq(targets, i + 1, Len(targets)))
  BY NotifyFindsStale DEF OnJobEmpty
<1> DEFINE left == SubSeq(targets, 1, i - 1) \o
                   SubSeq(targets, i + 1, Len(targets))
           f == targets[i]
<1>2. i \in DOMAIN targets
  BY <1>1 DEF FirstWithJob
<1>3. job[s] \in Handles /\ f \in Targets /\ f \in Stale(job[s]) /\ f \in killed
  BY <1>1, NotifyFindsStale DEF DeleteInv, StaleKilled
<1>4. /\ targets \in Seq(Targets) /\ Len(targets) \in Nat
      /\ DOMAIN targets = 1..Len(targets)
  BY DEF DeleteInv, Typed, TypeOK
<1>5. /\ left \in Seq(Targets)
      /\ Len(left) = Len(targets) - 1
      /\ \A k \in 1..Len(left) :
           left[k] = IF k < i THEN targets[k] ELSE targets[k + 1]
  <2>1. \A r : r = left =>
          /\ r \in Seq(Targets)
          /\ Len(r) = Len(targets) - 1
          /\ \A k \in 1..Len(r) : r[k] = IF k < i THEN targets[k] ELSE targets[k + 1]
    BY <1>2, <1>4, RemoveFacts
  <2> QED
    BY <2>1
<1>6. ReleasePolicy({f}, left)
  BY <1>1
<1> HIDE DEF left
<1>7. refs' = refs - 1
  BY <1>6 DEF ReleasePolicy
<1>8. object \in [Targets -> {"none", "live", "deleted"}]
  BY DEF DeleteInv, Typed, TypeOK
<1>9. CASE refs = 1
  <2>1. targets' = <<>> /\ DeleteTargets({f} \union ListedIn(left))
    BY <1>6, <1>9 DEF ReleasePolicy
  <2>2. ASSUME NEW t \in ListedIn(left) PROVE t \in killed
    <3>1. PICK k \in DOMAIN left : left[k] = t
      BY <2>2 DEF ListedIn
    <3>2. k \in 1..Len(left) /\ k \in Int /\ i \in Int
      BY <1>2, <1>4, <1>5, <3>1
    <3>3. PICK j \in DOMAIN targets : targets[j] = t
      <4>1. k \in DOMAIN targets /\ k + 1 \in DOMAIN targets
        BY <1>4, <1>5, <3>2
      <4> QED
        BY <1>5, <3>1, <3>2, <4>1
    <3>4. t \in Targets /\ Listed(t)
      BY <1>4, <3>3 DEF Listed
    <3> QED
      BY <1>9, <3>4, LastDebt
  <2>3. \A t \in Targets :
          object[t] = "live" /\ object'[t] = "deleted" => t \in killed
    BY <1>3, <1>8, <2>1, <2>2 DEF DeleteTargets
  <2>4. killed \subseteq killed'
    BY <2>1 DEF DeleteTargets
  <2> QED
    BY <1>7, <1>9, <2>1, <2>3, <2>4
<1>10. CASE refs # 1
  <2>1. targets' = left /\ DeleteTargets({f})
    BY <1>6, <1>10 DEF ReleasePolicy
  <2>2. \A t \in Targets :
          object[t] = "live" /\ object'[t] = "deleted" => t \in killed
    BY <1>3, <1>8, <2>1 DEF DeleteTargets
  <2>3. killed \subseteq killed'
    BY <2>1 DEF DeleteTargets
  <2>4. TypeOK /\ \A a, b \in DOMAIN targets : a < b => targets[a] < targets[b]
    BY DEF DeleteInv, Typed, ListOrder
  <2>5. /\ targets' \in Seq(Targets)
        /\ Len(targets') = Len(targets) - 1
        /\ \A k \in 1..Len(targets') :
             targets'[k] = IF k < i THEN targets[k] ELSE targets[k + 1]
    BY <1>5, <2>1
  <2>6. /\ \A a, b \in DOMAIN targets' : a < b => targets'[a] < targets'[b]
        /\ \A t \in Targets : Listed(t)' <=> Listed(t) /\ t # f
        /\ \A a \in DOMAIN targets' : Listed(targets'[a])
    BY <1>2, <2>4, <2>5, RemoveListed
  <2> QED
    BY <1>3, <1>7, <1>10, <2>2, <2>3, <2>6
<1> QED
  BY <1>9, <1>10

(* A notification settles one debt and takes one target with a closed job    *)
(* and the same handle value off the list.                                   *)
LEMMA NotifySettles ==
  ASSUME DeleteInv, NEW s \in Targets, tracker[s] = "closed" \/ Late(s),
         OnJobEmpty(job[s]),
         UNCHANGED <<spawned, job, job_open, held>>,
         main' = main \/ (main = "clearing" /\ main' = "clear"),
         \A t \in Targets : (tracker'[t] = "closed" \/ Late(t)')
                              <=> t # s /\ (tracker[t] = "closed" \/ Late(t)),
         \A t \in Targets : /\ tracker'[t] = "set" <=> tracker[t] = "set"
                            /\ tracker'[t] = "none" <=> tracker[t] = "none"
  PROVE  /\ ListOrder' /\ HandlesDistinct' /\ OpenJobs' /\ DebtsCovered'
         /\ Balanced' /\ StaleKilled'
<1>1. /\ (main' = "create" <=> main = "create")
      /\ (main' = "track" <=> main = "track")
      /\ (LockHeld' <=> LockHeld)
  BY DEF LockHeld
<1>2. HandlesDistinct'
  BY DEF DeleteInv, HandlesDistinct
<1>3. /\ job[s] # NoHandle /\ job[s] \in Handles /\ s \in Debts
      /\ tracker[s] \notin {"set", "none"}
  BY NotifyFindsStale DEF DeleteInv, OpenJobs, Late, Debts
<1>4. refs \in Int /\ held \in BOOLEAN /\ refs' = refs - 1
  BY NotifyEffect DEF DeleteInv, Typed, TypeOK
<1>5. ASSUME NEW h \in Handles
      PROVE  Closing(h)' = IF h = job[s] THEN Closing(h) \ {s} ELSE Closing(h)
  BY DEF Closing
<1>6. CASE refs = 1 /\ targets' = <<>>
  <2>1. /\ Debts = {s} /\ ~held /\ ~LockHeld
    BY <1>6, LastDebt
  <2>2. \A t \in Targets : ~Listed(t)'
    BY <1>6 DEF Listed
  <2>3. \A t \in Targets : t # s => tracker[t] # "set" /\ tracker[t] # "closed" /\ ~Late(t)
    BY <2>1 DEF Debts
  <2>4. Debts' = {}
    BY <1>3, <2>2, <2>3 DEF Debts, Leaked
  <2>5. DebtsCovered'
    BY <1>1, <1>4, <1>6, <2>1, <2>4, FS_EmptySet DEF DebtsCovered
  <2>6. \A h \in Handles : Closing(h)' = {} /\ Stale(h)' = {}
    BY <2>2, <2>3 DEF Closing, Stale
  <2>7. Balanced' /\ StaleKilled'
    BY <2>6 DEF Balanced, StaleKilled
  <2>8. ListOrder'
    BY <1>6 DEF ListOrder
  <2>9. OpenJobs'
    <3>1. \A t \in Targets : tracker'[t] # "set"
      BY <1>3, <2>3
    <3>2. main' # "track"
      BY <1>1, <2>1 DEF LockHeld
    <3>3. \A t \in Targets : t > spawned' => tracker'[t] = "none"
      BY DEF DeleteInv, OpenJobs
    <3> QED
      BY <1>1, <2>1, <2>2, <3>1, <3>2, <3>3 DEF DeleteInv, OpenJobs
  <2> QED
    BY <1>2, <2>5, <2>7, <2>8, <2>9
<1>7. CASE /\ refs # 1
           /\ \A i, j \in DOMAIN targets' : i < j => targets'[i] < targets'[j]
           /\ \A i \in DOMAIN targets' : Listed(targets'[i])
           /\ \E f \in Stale(job[s]) :
                \A t \in Targets : Listed(t)' <=> Listed(t) /\ t # f
  <2>1. PICK f \in Stale(job[s]) :
          \A t \in Targets : Listed(t)' <=> Listed(t) /\ t # f
    BY <1>7
  <2>2. f \in Targets /\ job[f] = job[s] /\ Listed(f) /\ ~job_open[f]
    BY <2>1 DEF Stale
  <2>3. ListOrder'
    BY <1>1, <1>7 DEF DeleteInv, ListOrder, Listed
  <2>4. \A t \in Targets : Leaked(t)' <=> Leaked(t)
    BY <1>1, <1>3, <2>1, <2>2 DEF Leaked
  <2>5. ~Leaked(s)
    BY <1>3 DEF Leaked
  <2>6. Debts' = Debts \ {s}
    <3>1. ASSUME NEW t \in Targets
          PROVE  t \in Debts' <=> t \in Debts /\ t # s
      <4>1. tracker'[t] \in {"set", "closed"} \/ Late(t)'
              <=> t # s /\ (tracker[t] \in {"set", "closed"} \/ Late(t))
        BY <1>3
      <4> QED
        BY <2>4, <2>5, <4>1 DEF Debts
    <3> QED
      BY <3>1, TargetSetsFinite DEF Debts
  <2>7. DebtsCovered'
    <3>1. IsFiniteSet(Debts) /\ Cardinality(Debts) \in Nat
      BY TargetSetsFinite
    <3>2. Cardinality(Debts') = Cardinality(Debts) - 1
      BY <1>3, <2>6, <3>1, FS_RemoveElement
    <3>3. refs >= (IF held THEN 1 ELSE 0) + Cardinality(Debts)
      BY DEF DeleteInv, DebtsCovered
    <3>4. refs' >= (IF held' THEN 1 ELSE 0) + Cardinality(Debts')
      BY <1>4, <3>1, <3>2, <3>3
    <3> QED
      BY <1>1, <3>4 DEF DebtsCovered, DeleteInv
  <2>8. ASSUME NEW h \in Handles
        PROVE  Stale(h)' = IF h = job[s] THEN Stale(h) \ {f} ELSE Stale(h)
    BY <2>1, <2>2 DEF Stale
  <2>9. Balanced'
    <3>1. SUFFICES ASSUME NEW h \in Handles
                   PROVE  Cardinality(Closing(h)') = Cardinality(Stale(h)')
      BY DEF Balanced
    <3>2. Cardinality(Closing(h)) = Cardinality(Stale(h))
      BY DEF DeleteInv, Balanced
    <3>3. CASE h = job[s]
      <4>1. s \in Closing(h) /\ f \in Stale(h)
        BY <2>1, <3>3 DEF Closing
      <4>2. /\ Cardinality(Closing(h) \ {s}) = Cardinality(Closing(h)) - 1
            /\ Cardinality(Stale(h) \ {f}) = Cardinality(Stale(h)) - 1
        BY <4>1, TargetSetsFinite, FS_RemoveElement
      <4> QED
        BY <1>5, <2>8, <3>2, <3>3, <4>2
    <3>4. CASE h # job[s]
      BY <1>5, <2>8, <3>2, <3>4
    <3> QED
      BY <3>3, <3>4
  <2>10. StaleKilled'
    <3>1. \A h \in Handles : Stale(h)' \subseteq Stale(h)
      BY <2>8
    <3> QED
      BY <3>1, NotifyEffect DEF DeleteInv, StaleKilled
  <2>11. OpenJobs'
    <3>1. \A t \in Targets : (t > spawned' \/ (LockHeld' /\ t = spawned'))
            => tracker'[t] = "none"
      BY <1>1 DEF DeleteInv, OpenJobs
    <3>2. \A t \in Targets : tracker'[t] = "set" => job_open'[t] /\ Listed(t)'
      BY <2>1, <2>2 DEF DeleteInv, OpenJobs
    <3>3. \A t \in Targets : Listed(t)' /\ job_open'[t]
            => tracker'[t] = "set" \/ (main' = "track" /\ t = spawned')
      BY <1>1, <2>1 DEF DeleteInv, OpenJobs
    <3>4. main' = "track" => Listed(spawned)'
      <4>1. SUFFICES ASSUME main' = "track" PROVE Listed(spawned)'
        OBVIOUS
      <4>2. main = "track" /\ LockHeld /\ spawned \in Targets /\ Listed(spawned)
        BY <1>1, <4>1 DEF LockHeld, DeleteInv, Typed, OpenJobs
      <4>3. job[spawned] # NoHandle => job_open[spawned]
        BY <4>2 DEF DeleteInv, OpenJobs
      <4>4. spawned # f
        BY <1>3, <2>2, <4>3
      <4>5. \E i \in DOMAIN targets' : targets'[i] = spawned
        BY <2>1, <4>2, <4>4 DEF Listed
      <4> QED
        BY <4>5 DEF Listed
    <3>5. \A t \in Targets : /\ job_open'[t] => job'[t] # NoHandle
                             /\ tracker'[t] # "none" => job'[t] # NoHandle
      BY DEF DeleteInv, OpenJobs
    <3>6. LockHeld' /\ job'[spawned'] # NoHandle => job_open'[spawned']
      BY <1>1 DEF DeleteInv, OpenJobs
    <3> QED
      BY <3>1, <3>2, <3>3, <3>4, <3>5, <3>6 DEF OpenJobs
  <2> QED
    BY <1>2, <2>3, <2>7, <2>9, <2>10, <2>11
<1> QED
  BY <1>6, <1>7, NotifyEffect

ListInv == ListOrder /\ HandlesDistinct /\ OpenJobs /\ DebtsCovered /\ Balanced
           /\ StaleKilled

LEMMA SameDebts ==
  ASSUME DeleteInv, UNCHANGED ListVars,
         main' = main \/ (~LockHeld /\ ~LockHeld'),
         \A t \in Targets : Late(t)' <=> Late(t),
         killed \subseteq killed'
  PROVE  ListInv'
<1> USE DEF ListVars
<1>1. /\ LockHeld' <=> LockHeld
      /\ main' = "track" <=> main = "track"
      /\ main' = "create" => main = "create"
  BY DEF LockHeld
<1>2. \A t \in Targets : (Listed(t)' <=> Listed(t)) /\ (Leaked(t)' <=> Leaked(t))
  BY <1>1 DEF Listed, Leaked
<1>3. Debts' = Debts
  <2>1. \A t \in Targets : tracker'[t] = tracker[t]
    OBVIOUS
  <2> QED
    BY <1>2, <2>1 DEF Debts
<1>4. ASSUME NEW h PROVE Closing(h)' = Closing(h) /\ Stale(h)' = Stale(h)
  BY <1>2 DEF Closing, Stale
<1>5. ListOrder'
  BY <1>1 DEF DeleteInv, ListOrder
<1>6. HandlesDistinct'
  BY DEF DeleteInv, HandlesDistinct
<1>7. OpenJobs'
  <2>1. main' = "track" => Listed(spawned)'
    BY <1>1 DEF DeleteInv, OpenJobs, Listed
  <2>2. \A s \in Targets : (s > spawned' \/ (LockHeld' /\ s = spawned'))
           => tracker'[s] = "none"
    BY <1>1 DEF DeleteInv, OpenJobs
  <2>3. \A s \in Targets : /\ tracker'[s] = "set" => job_open'[s] /\ Listed(s)'
                           /\ job_open'[s] => job'[s] # NoHandle
                           /\ tracker'[s] # "none" => job'[s] # NoHandle
    BY <1>2 DEF DeleteInv, OpenJobs
  <2>4. \A s \in Targets : Listed(s)' /\ job_open'[s]
           => tracker'[s] = "set" \/ (main' = "track" /\ s = spawned')
    BY <1>1, <1>2 DEF DeleteInv, OpenJobs
  <2>5. LockHeld' /\ job'[spawned'] # NoHandle => job_open'[spawned']
    BY <1>1 DEF DeleteInv, OpenJobs
  <2> QED
    BY <2>1, <2>2, <2>3, <2>4, <2>5 DEF OpenJobs
<1>8. DebtsCovered'
  BY <1>1, <1>3 DEF DeleteInv, DebtsCovered
<1>9. Balanced'
  BY <1>4 DEF DeleteInv, Balanced
<1>10. StaleKilled'
  BY <1>4 DEF DeleteInv, StaleKilled
<1> QED
  BY <1>5, <1>6, <1>7, <1>8, <1>9, <1>10 DEF ListInv

(* job.Close() of FreeResources.                                             *)
LEMMA CloseSettles ==
  ASSUME DeleteInv, NEW s \in Targets, CloseJob(s),
         UNCHANGED <<spawned, job, targets, refs, held>>,
         main' = main \/ (main = "clear" /\ main' = "clearing"),
         \A t \in Targets : Late(t)' <=> Late(t)
  PROVE  ListInv'
<1>1. /\ (main' = "create" <=> main = "create")
      /\ (main' = "track" <=> main = "track")
      /\ (LockHeld' <=> LockHeld)
  BY DEF LockHeld
<1>2. /\ tracker[s] = "set" /\ tracker' = [tracker EXCEPT ![s] = "closed"]
      /\ tracker \in [Targets -> {"none", "set", "closed", "freed", "destroyed"}]
      /\ job_open' = [job_open EXCEPT ![s] = FALSE]
      /\ job_open \in [Targets -> BOOLEAN]
      /\ killed' = killed \union {s}
  BY DEF CloseJob, DeleteInv, Typed, TypeOK
<1>3. /\ job_open[s] /\ Listed(s) /\ job[s] # NoHandle
      /\ ~(LockHeld /\ s = spawned) /\ ~Late(s)
  BY <1>2 DEF DeleteInv, OpenJobs, Late
<1>4. \A t \in Targets : (Listed(t)' <=> Listed(t)) /\ (Leaked(t)' <=> Leaked(t))
  BY <1>1 DEF Listed, Leaked
<1>5. Debts' = Debts
  <2>1. \A t \in Targets :
          tracker'[t] \in {"set", "closed"} <=> tracker[t] \in {"set", "closed"}
    BY <1>2
  <2> QED
    BY <1>4, <2>1 DEF Debts
<1>6. ASSUME NEW h \in Handles
      PROVE  /\ Closing(h)' = IF h = job[s] THEN Closing(h) \union {s} ELSE Closing(h)
             /\ Stale(h)' = IF h = job[s] THEN Stale(h) \union {s} ELSE Stale(h)
  BY <1>2, <1>3, <1>4 DEF Closing, Stale
<1>7. ListOrder'
  BY <1>1 DEF DeleteInv, ListOrder
<1>8. HandlesDistinct'
  BY <1>2 DEF DeleteInv, HandlesDistinct
<1>9. OpenJobs'
  <2>1. main' = "track" => Listed(spawned)'
    BY <1>1 DEF DeleteInv, OpenJobs, Listed
  <2>2. \A t \in Targets : (t > spawned' \/ (LockHeld' /\ t = spawned'))
           => tracker'[t] = "none"
    BY <1>1, <1>2 DEF DeleteInv, OpenJobs
  <2>3. \A t \in Targets : /\ tracker'[t] = "set" => job_open'[t] /\ Listed(t)'
                           /\ job_open'[t] => job'[t] # NoHandle
                           /\ tracker'[t] # "none" => job'[t] # NoHandle
    BY <1>2, <1>3, <1>4 DEF DeleteInv, OpenJobs
  <2>4. \A t \in Targets : Listed(t)' /\ job_open'[t]
           => tracker'[t] = "set" \/ (main' = "track" /\ t = spawned')
    BY <1>1, <1>2, <1>4 DEF DeleteInv, OpenJobs
  <2>5. LockHeld' /\ job'[spawned'] # NoHandle => job_open'[spawned']
    <3>1. LockHeld => spawned \in Targets /\ spawned # s
      BY <1>3 DEF DeleteInv, Typed
    <3> QED
      BY <1>1, <1>2, <3>1 DEF DeleteInv, OpenJobs
  <2> QED
    BY <2>1, <2>2, <2>3, <2>4, <2>5 DEF OpenJobs
<1>10. DebtsCovered'
  BY <1>1, <1>5 DEF DeleteInv, DebtsCovered
<1>11. Balanced'
  <2>1. SUFFICES ASSUME NEW h \in Handles
                 PROVE  Cardinality(Closing(h)') = Cardinality(Stale(h)')
    BY DEF Balanced
  <2>2. Cardinality(Closing(h)) = Cardinality(Stale(h))
    BY DEF DeleteInv, Balanced
  <2>3. CASE h = job[s]
    <3>1. s \notin Closing(h) /\ s \notin Stale(h)
      BY <1>2, <1>3 DEF Closing, Stale
    <3>2. /\ Cardinality(Closing(h) \union {s}) = Cardinality(Closing(h)) + 1
          /\ Cardinality(Stale(h) \union {s}) = Cardinality(Stale(h)) + 1
      BY <3>1, TargetSetsFinite, FS_AddElement
    <3> QED
      BY <1>6, <2>2, <2>3, <3>2
  <2>4. CASE h # job[s]
    BY <1>6, <2>2, <2>4
  <2> QED
    BY <2>3, <2>4
<1>12. StaleKilled'
  BY <1>2, <1>6 DEF DeleteInv, StaleKilled
<1> QED
  BY <1>7, <1>8, <1>9, <1>10, <1>11, <1>12 DEF ListInv

(* When the caller drops its reference and it was the last, nothing is on    *)
(* the list.                                                                 *)
LEMMA DropDeletesNothing ==
  ASSUME DeleteInv, DropPolicy
  PROVE  /\ targets' = targets /\ refs' = refs - 1 /\ killed \subseteq killed'
         /\ object' = object
<1>1. /\ main \in {"idle", "down"} /\ held /\ ReleasePolicy({}, targets)
  BY DEF DropPolicy
<1>2. /\ object \in [Targets -> {"none", "live", "deleted"}]
      /\ targets \in Seq(Targets) /\ refs \in Int
  BY DEF DeleteInv, Typed, TypeOK
<1>3. CASE refs = 1
  <2>1. Debts = {}
    <3>1. refs >= 1 + Cardinality(Debts)
      BY <1>1 DEF DeleteInv, DebtsCovered
    <3>2. IsFiniteSet(Debts) /\ Cardinality(Debts) \in Nat
      BY TargetSetsFinite
    <3>3. Cardinality(Debts) = 0
      BY <1>3, <3>1, <3>2
    <3> QED
      BY <3>2, <3>3, FS_EmptySet
  <2>2. ASSUME NEW t \in Targets, Listed(t) PROVE FALSE
    <3>1. ~Leaked(t) /\ tracker[t] # "set"
      BY <2>1 DEF Debts
    <3>2. job[t] \in Handles /\ t \in Stale(job[t])
      BY <1>1, <2>2, <3>1, ListedKinds
    <3>3. Closing(job[t]) = {}
      BY <2>1 DEF Debts, Closing
    <3>4. Cardinality(Stale(job[t])) = 0
      BY <3>2, <3>3, FS_EmptySet DEF DeleteInv, Balanced
    <3>5. Stale(job[t]) = {}
      BY <3>4, FS_EmptySet, TargetSetsFinite
    <3> QED
      BY <3>2, <3>5
  <2>3. DOMAIN targets = {}
    BY <1>2, <2>2 DEF Listed
  <2>4. targets = <<>> /\ ListedIn(targets) = {}
    BY <1>2, <2>3 DEF ListedIn
  <2>5. targets' = <<>> /\ refs' = refs - 1
          /\ DeleteTargets({} \union ListedIn(targets))
    BY <1>1, <1>3 DEF ReleasePolicy
  <2>6. DeleteTargets({})
    BY <2>4, <2>5
  <2> QED
    BY <1>2, <2>4, <2>5, <2>6 DEF DeleteTargets
<1>4. CASE refs # 1
  <2>1. targets' = targets /\ refs' = refs - 1 /\ DeleteTargets({})
    BY <1>1, <1>4 DEF ReleasePolicy
  <2> QED
    BY <1>2, <2>1 DEF DeleteTargets
<1> QED
  BY <1>3, <1>4

LEMMA DropSettles ==
  ASSUME DeleteInv, DropPolicy
  PROVE  ListInv'
<1>1. /\ ~LockHeld /\ ~LockHeld' /\ held /\ ~held' /\ main' = main
      /\ UNCHANGED <<spawned, job, job_open, tracker, workerVars>>
  BY DEF DropPolicy, LockHeld
<1>2. targets' = targets /\ refs' = refs - 1 /\ killed \subseteq killed'
  BY DropDeletesNothing
<1>3. \A t \in Targets : /\ Listed(t)' <=> Listed(t)
                         /\ Leaked(t)' <=> Leaked(t)
                         /\ Late(t)' <=> Late(t)
  BY <1>1, <1>2 DEF Listed, Leaked, Late
<1>4. Debts' = Debts
  <2>1. \A t \in Targets : tracker'[t] = tracker[t]
    BY <1>1
  <2> QED
    BY <1>3, <2>1 DEF Debts
<1>5. ASSUME NEW h PROVE Closing(h)' = Closing(h) /\ Stale(h)' = Stale(h)
  BY <1>1, <1>3 DEF Closing, Stale
<1>6. ListOrder'
  BY <1>1, <1>2 DEF DeleteInv, ListOrder
<1>7. HandlesDistinct'
  BY <1>1 DEF DeleteInv, HandlesDistinct
<1>8. OpenJobs'
  <2>1. main # "track" /\ main' # "track"
    BY <1>1 DEF LockHeld
  <2>2. \A t \in Targets : t > spawned' => tracker'[t] = "none"
    BY <1>1 DEF DeleteInv, OpenJobs
  <2>3. \A t \in Targets : /\ tracker'[t] = "set" => job_open'[t] /\ Listed(t)'
                           /\ job_open'[t] => job'[t] # NoHandle
                           /\ tracker'[t] # "none" => job'[t] # NoHandle
                           /\ Listed(t)' /\ job_open'[t] => tracker'[t] = "set"
    BY <1>1, <1>3, <2>1 DEF DeleteInv, OpenJobs
  <2> QED
    BY <1>1, <2>1, <2>2, <2>3 DEF OpenJobs
<1>9. DebtsCovered'
  <2>1. refs >= 1 + Cardinality(Debts)
    BY <1>1 DEF DeleteInv, DebtsCovered
  <2>2. refs \in Int /\ Cardinality(Debts) \in Nat
    BY TargetSetsFinite DEF DeleteInv, Typed, TypeOK
  <2>3. refs' >= 0 + Cardinality(Debts')
    BY <1>2, <1>4, <2>1, <2>2
  <2> QED
    BY <1>1, <2>3 DEF DebtsCovered
<1>10. Balanced'
  BY <1>5 DEF DeleteInv, Balanced
<1>11. StaleKilled'
  BY <1>2, <1>5 DEF DeleteInv, StaleKilled
<1> QED
  BY <1>6, <1>7, <1>8, <1>9, <1>10, <1>11 DEF ListInv

LEMMA SpawnSettles ==
  ASSUME DeleteInv, SpawnTarget
  PROVE  ListInv'
<1>1. PICK h \in FreeHandles \union {NoHandle} :
        /\ job' = [job EXCEPT ![spawned + 1] = h]
        /\ job_open' = [job_open EXCEPT ![spawned + 1] = (h # NoHandle)]
  BY DEF SpawnTarget
<1>2. /\ main = "idle" /\ main' = "create" /\ held
      /\ spawned' = spawned + 1
      /\ UNCHANGED <<targets, refs, held, tracker, killed, workerVars>>
  BY DEF SpawnTarget
<1>3. /\ spawned + 1 \in Targets /\ spawned \in Nat
      /\ targets \in Seq(Targets)
      /\ job \in [Targets -> Handles \union {NoHandle}]
      /\ job_open \in [Targets -> BOOLEAN]
  BY BoundsAssumption DEF SpawnTarget, DeleteInv, Typed, TypeOK, Targets
<1>4. ASSUME NEW i \in DOMAIN targets
      PROVE  targets[i] \in Targets /\ targets[i] <= spawned
               /\ targets[i] # spawned + 1
  <2>1. targets[i] \in Targets /\ targets[i] <= spawned
    BY <1>3 DEF DeleteInv, ListOrder
  <2>2. QED
    BY <2>1, <1>3, TargetNumbers
<1>5. ListOrder'
  <2>1. \A i, j \in DOMAIN targets' : i < j => targets'[i] < targets'[j]
    BY <1>2 DEF DeleteInv, ListOrder
  <2>2. \A i \in DOMAIN targets' : targets'[i] <= spawned' /\ targets'[i] # spawned'
    BY <1>2, <1>3, <1>4, TargetNumbers
  <2>3. QED
    BY <2>1, <2>2 DEF ListOrder
<1>6. HandlesDistinct'
  <2>1. SUFFICES ASSUME NEW s \in Targets, NEW t \in Targets, t < s,
                        s <= spawned', job_open'[t], job'[s] # NoHandle
                 PROVE  job'[s] # job'[t]
    BY DEF HandlesDistinct
  <2>2. t # spawned + 1 /\ job'[t] = job[t] /\ job_open[t]
    BY <1>1, <1>2, <1>3, <2>1, TargetNumbers
  <2>3. CASE s = spawned + 1
    <3>1. job'[s] = h /\ h \in FreeHandles
      BY <1>1, <1>3, <2>1, <2>3
    <3>2. QED
      BY <2>2, <3>1 DEF FreeHandles
  <2>4. CASE s # spawned + 1
    <3>1. s <= spawned /\ job'[s] = job[s]
      BY <1>1, <1>2, <1>3, <2>1, <2>4, TargetNumbers
    <3>2. QED
      BY <2>1, <2>2, <3>1 DEF DeleteInv, HandlesDistinct
  <2>5. QED
    BY <2>3, <2>4
<1>7. \A s \in Targets : /\ Listed(s)' <=> Listed(s)
                         /\ Late(s)' <=> Late(s)
                         /\ Listed(s) => s # spawned + 1
  BY <1>2, <1>4 DEF Listed, Late
<1>8. \A s \in Targets : s > spawned => tracker[s] = "none"
  BY DEF DeleteInv, OpenJobs
<1>9. tracker[spawned + 1] = "none"
  BY <1>3, <1>8
<1>10. \A s \in Targets : s # spawned + 1 => job'[s] = job[s] /\ job_open'[s] = job_open[s]
  BY <1>1, <1>3
<1>11. \A s \in Targets : Leaked(s)' <=> Leaked(s)
  BY <1>2, <1>7, <1>10 DEF Leaked
<1>12. Debts' = Debts
  <2>1. \A t \in Targets : tracker'[t] = tracker[t]
    BY <1>2
  <2> QED
    BY <1>7, <1>11, <2>1 DEF Debts
<1>13. ASSUME NEW g \in Handles
       PROVE  Closing(g)' = Closing(g) /\ Stale(g)' = Stale(g)
  <2>1. \A s \in Targets : s \in Closing(g)' <=> s \in Closing(g)
    BY <1>2, <1>7, <1>9, <1>10 DEF Closing, Late
  <2>2. \A s \in Targets : s \in Stale(g)' <=> s \in Stale(g)
    BY <1>7, <1>10 DEF Stale
  <2>3. /\ Closing(g)' \subseteq Targets /\ Stale(g)' \subseteq Targets
        /\ Closing(g) \subseteq Targets /\ Stale(g) \subseteq Targets
    BY DEF Closing, Stale
  <2> QED
    BY <2>1, <2>2, <2>3
<1>14. OpenJobs'
  <2>1. \A s \in Targets : (s > spawned' \/ (LockHeld' /\ s = spawned'))
           => tracker'[s] = "none"
    BY <1>2, <1>3, <1>8, <1>9, TargetNumbers
  <2>2. \A s \in Targets : tracker'[s] = "set" => job_open'[s] /\ Listed(s)'
    BY <1>2, <1>7, <1>9, <1>10 DEF DeleteInv, OpenJobs
  <2>3. \A s \in Targets : /\ job_open'[s] => job'[s] # NoHandle
                           /\ tracker'[s] # "none" => job'[s] # NoHandle
    <3>1. TAKE s \in Targets
    <3>2. CASE s = spawned + 1
      BY <1>1, <1>2, <1>3, <1>9, <3>2
    <3>3. CASE s # spawned + 1
      BY <1>2, <1>10, <3>3 DEF DeleteInv, OpenJobs
    <3> QED
      BY <3>2, <3>3
  <2>4. \A s \in Targets : Listed(s)' /\ job_open'[s] => tracker'[s] = "set"
    BY <1>2, <1>7, <1>10 DEF DeleteInv, OpenJobs
  <2>5. job'[spawned'] # NoHandle => job_open'[spawned']
    BY <1>1, <1>2, <1>3
  <2> QED
    BY <1>2, <2>1, <2>2, <2>3, <2>4, <2>5 DEF OpenJobs
<1>15. DebtsCovered'
  BY <1>2, <1>12 DEF DeleteInv, DebtsCovered
<1>16. Balanced'
  BY <1>13 DEF DeleteInv, Balanced
<1>17. StaleKilled'
  BY <1>2, <1>13 DEF DeleteInv, StaleKilled
<1> QED
  BY <1>5, <1>6, <1>14, <1>15, <1>16, <1>17 DEF ListInv

LEMMA AddTargetSettles ==
  ASSUME DeleteInv, AddTarget
  PROVE  ListInv'
<1>1. /\ main = "create" /\ main' = "track"
      /\ targets' = Append(targets, spawned)
      /\ UNCHANGED <<spawned, job, job_open, tracker, refs, held, killed,
                     workerVars>>
  BY DEF AddTarget
<1>2. /\ targets \in Seq(Targets) /\ spawned \in Targets
      /\ spawned \in Nat /\ Len(targets) \in Nat
      /\ DOMAIN targets = 1..Len(targets)
  BY <1>1, TargetNumbers DEF DeleteInv, Typed, TypeOK, LockHeld
<1>3. /\ DOMAIN targets' = 1..(Len(targets) + 1)
      /\ \A i \in 1..Len(targets) : targets'[i] = targets[i]
      /\ targets'[Len(targets) + 1] = spawned
  BY <1>1, <1>2, AppendProperties
<1>4. \A i \in 1..Len(targets) : targets[i] \in Nat /\ targets[i] < spawned
  <2>1. TAKE i \in 1..Len(targets)
  <2>2. targets[i] \in Nat
    <3>1. targets[i] \in Targets
      BY <1>2
    <3>2. QED
      BY <3>1, TargetNumbers
  <2>3. targets[i] <= spawned /\ targets[i] # spawned
    BY <1>1, <1>2 DEF DeleteInv, ListOrder
  <2>4. QED
    BY <1>2, <2>2, <2>3
<1>5. ListOrder'
  <2>1. ASSUME NEW i \in DOMAIN targets', NEW j \in DOMAIN targets', i < j
        PROVE  targets'[i] < targets'[j]
    <3>1. i \in 1..Len(targets)
      BY <1>2, <1>3, <2>1
    <3>2. CASE j \in 1..Len(targets)
      BY <1>2, <1>3, <2>1, <3>1, <3>2 DEF DeleteInv, ListOrder
    <3>3. CASE j = Len(targets) + 1
      BY <1>3, <1>4, <3>1, <3>3
    <3>4. QED
      BY <1>2, <1>3, <3>2, <3>3
  <2>2. \A i \in DOMAIN targets' : targets'[i] <= spawned
    BY <1>2, <1>3, <1>4
  <2>3. QED
    BY <1>1, <2>1, <2>2 DEF ListOrder
<1>6. \A s \in Targets : Listed(s)' <=> Listed(s) \/ s = spawned
  <2>1. TAKE s \in Targets
  <2>2. Listed(s)' => Listed(s) \/ s = spawned
    BY <1>2, <1>3 DEF Listed
  <2>3. Listed(s) => Listed(s)'
    <3>1. SUFFICES ASSUME Listed(s) PROVE Listed(s)'
      OBVIOUS
    <3>2. PICK i \in 1..Len(targets) : targets[i] = s
      BY <1>2, <3>1 DEF Listed
    <3>3. i \in DOMAIN targets' /\ targets'[i] = s
      BY <1>2, <1>3, <3>2
    <3>4. QED
      BY <3>3 DEF Listed
  <2>4. s = spawned => Listed(s)'
    BY <1>2, <1>3 DEF Listed
  <2>5. QED
    BY <2>2, <2>3, <2>4
<1>7. HandlesDistinct'
  BY <1>1 DEF DeleteInv, HandlesDistinct
<1>8. /\ ~Listed(spawned)
      /\ tracker[spawned] = "none"
      /\ job[spawned] # NoHandle => job_open[spawned]
  BY <1>1, <1>2, <1>4 DEF Listed, DeleteInv, OpenJobs, LockHeld
<1>9. \A s \in Targets : /\ Late(s)' <=> Late(s)
                         /\ Leaked(s)' <=> Leaked(s)
  BY <1>1, <1>6, <1>8 DEF Late, Leaked
<1>10. Debts' = Debts
  <2>1. \A t \in Targets : tracker'[t] = tracker[t]
    BY <1>1
  <2> QED
    BY <1>9, <2>1 DEF Debts
<1>11. ASSUME NEW g \in Handles
       PROVE  Closing(g)' = Closing(g) /\ Stale(g)' = Stale(g)
  BY <1>1, <1>6, <1>8, <1>9, HandlesAssumption DEF Closing, Stale
<1>12. OpenJobs'
  <2>1. \A s \in Targets : (s > spawned' \/ (LockHeld' /\ s = spawned'))
           => tracker'[s] = "none"
    BY <1>1 DEF DeleteInv, OpenJobs, LockHeld
  <2>2. \A s \in Targets : /\ tracker'[s] = "set" => job_open'[s] /\ Listed(s)'
                           /\ job_open'[s] => job'[s] # NoHandle
                           /\ tracker'[s] # "none" => job'[s] # NoHandle
    BY <1>1, <1>6 DEF DeleteInv, OpenJobs
  <2>3. \A s \in Targets : Listed(s)' /\ job_open'[s]
           => tracker'[s] = "set" \/ s = spawned'
    BY <1>1, <1>6 DEF DeleteInv, OpenJobs
  <2>4. Listed(spawned)'
    <3>1. Len(targets) + 1 \in DOMAIN targets'
      BY <1>2, <1>3
    <3>2. targets'[Len(targets) + 1] = spawned'
      BY <1>1, <1>3
    <3>3. QED
      BY <3>1, <3>2 DEF Listed
  <2>5. job'[spawned'] # NoHandle => job_open'[spawned']
    BY <1>1, <1>8
  <2> QED
    BY <1>1, <2>1, <2>2, <2>3, <2>4, <2>5 DEF OpenJobs
<1>13. DebtsCovered'
  BY <1>1, <1>10 DEF DeleteInv, DebtsCovered, LockHeld
<1>14. Balanced'
  BY <1>11 DEF DeleteInv, Balanced
<1>15. StaleKilled'
  BY <1>1, <1>11 DEF DeleteInv, StaleKilled
<1> QED
  BY <1>5, <1>7, <1>12, <1>13, <1>14, <1>15 DEF ListInv

LEMMA SpawnCleanupSettles ==
  ASSUME DeleteInv, SpawnCleanup
  PROVE  ListInv'
<1>1. /\ main = "create" /\ main' = "idle" /\ LockHeld /\ ~LockHeld'
      /\ job_open' = [job_open EXCEPT ![spawned] = FALSE]
      /\ killed \subseteq killed'
      /\ UNCHANGED <<spawned, job, targets, tracker, refs, held, workerVars>>
  BY DEF SpawnCleanup, LockHeld, DeleteTargets
<1>2. job_open \in [Targets -> BOOLEAN] /\ spawned \in Targets
  BY <1>1 DEF DeleteInv, Typed, TypeOK
<1>3. tracker[spawned] = "none" /\ ~Listed(spawned)
  BY <1>1, <1>2 DEF DeleteInv, OpenJobs, ListOrder, Listed
<1>4. \A s \in Targets : /\ Listed(s)' <=> Listed(s)
                         /\ Late(s)' <=> Late(s)
                         /\ Leaked(s)' <=> Leaked(s)
  BY <1>1 DEF Listed, Late, Leaked
<1>5. Debts' = Debts
  <2>1. \A t \in Targets : tracker'[t] = tracker[t]
    BY <1>1
  <2> QED
    BY <1>4, <2>1 DEF Debts
<1>6. ASSUME NEW g \in Handles
      PROVE  Closing(g)' = Closing(g) /\ Stale(g)' = Stale(g)
  BY <1>1, <1>2, <1>3, <1>4 DEF Closing, Stale
<1>7. ListOrder'
  BY <1>1 DEF DeleteInv, ListOrder
<1>8. HandlesDistinct'
  BY <1>1, <1>2 DEF DeleteInv, HandlesDistinct
<1>9. OpenJobs'
  <2>1. \A s \in Targets : s > spawned' => tracker'[s] = "none"
    BY <1>1 DEF DeleteInv, OpenJobs
  <2>2. \A s \in Targets : /\ tracker'[s] = "set" => job_open'[s] /\ Listed(s)'
                           /\ job_open'[s] => job'[s] # NoHandle
                           /\ tracker'[s] # "none" => job'[s] # NoHandle
                           /\ Listed(s)' /\ job_open'[s] => tracker'[s] = "set"
    BY <1>1, <1>2, <1>3, <1>4 DEF DeleteInv, OpenJobs
  <2> QED
    BY <1>1, <2>1, <2>2 DEF OpenJobs
<1>10. DebtsCovered'
  BY <1>1, <1>5 DEF DeleteInv, DebtsCovered
<1>11. Balanced'
  BY <1>6 DEF DeleteInv, Balanced
<1>12. StaleKilled'
  BY <1>1, <1>6 DEF DeleteInv, StaleKilled
<1> QED
  BY <1>7, <1>8, <1>9, <1>10, <1>11, <1>12 DEF ListInv

(* The new tracker, and the leaked reference, are debts.                     *)
LEMMA TrackSettles ==
  ASSUME DeleteInv, TrackJob \/ LeakPolicy
  PROVE  ListInv'
<1>1. /\ main = "track" /\ main' = "idle" /\ LockHeld /\ ~LockHeld'
      /\ refs' = refs + 1
      /\ UNCHANGED <<spawned, job, job_open, targets, held, killed, workerVars>>
  BY DEF TrackJob, LeakPolicy, LockHeld
<1>2. /\ spawned \in Targets /\ refs \in Int /\ held \in BOOLEAN
      /\ tracker \in [Targets -> {"none", "set", "closed", "freed", "destroyed"}]
  BY <1>1 DEF DeleteInv, Typed, TypeOK
<1>3. /\ tracker[spawned] = "none" /\ Listed(spawned)
      /\ job[spawned] # NoHandle => job_open[spawned]
  BY <1>1, <1>2 DEF DeleteInv, OpenJobs
<1>4. \/ job[spawned] # NoHandle /\ tracker' = [tracker EXCEPT ![spawned] = "set"]
      \/ job[spawned] = NoHandle /\ tracker' = tracker
  BY DEF TrackJob, LeakPolicy
<1>5. \A s \in Targets : Listed(s)' <=> Listed(s)
  BY <1>1 DEF Listed
<1>6. \A s \in Targets : Late(s)' <=> Late(s)
  <2>1. \A s \in Targets : tracker'[s] = "destroyed" <=> tracker[s] = "destroyed"
    BY <1>2, <1>3, <1>4
  <2> QED
    BY <1>1, <2>1 DEF Late
<1>7. \A s \in Targets : Leaked(s)' <=> Leaked(s) \/ (s = spawned /\ job[s] = NoHandle)
  BY <1>1, <1>3, <1>5 DEF Leaked
<1>8. spawned \notin Debts /\ Debts' = Debts \union {spawned}
  <2>1. spawned \notin Debts
    BY <1>1, <1>3 DEF Debts, Late, Leaked
  <2>2. ASSUME NEW s \in Targets
        PROVE  s \in Debts' <=> s \in Debts \/ s = spawned
    <3>1. CASE s # spawned
      <4>1. tracker'[s] = tracker[s]
        BY <1>2, <1>4, <3>1
      <4> QED
        BY <1>6, <1>7, <3>1, <4>1 DEF Debts
    <3>2. CASE s = spawned
      <4>1. tracker'[s] = "set" \/ Leaked(s)'
        BY <1>2, <1>4, <1>7, <3>2
      <4> QED
        BY <3>2, <4>1 DEF Debts
    <3> QED
      BY <3>1, <3>2
  <2>3. Debts \subseteq Targets /\ Debts' \subseteq Targets
    BY DEF Debts
  <2> QED
    BY <1>2, <2>1, <2>2, <2>3
<1>9. ASSUME NEW g \in Handles
      PROVE  Closing(g)' = Closing(g) /\ Stale(g)' = Stale(g)
  <2>1. \A s \in Targets : tracker'[s] = "closed" <=> tracker[s] = "closed"
    BY <1>2, <1>3, <1>4
  <2> QED
    BY <1>1, <1>5, <1>6, <2>1 DEF Closing, Stale
<1>10. ListOrder'
  BY <1>1 DEF DeleteInv, ListOrder
<1>11. HandlesDistinct'
  BY <1>1 DEF DeleteInv, HandlesDistinct
<1>12. OpenJobs'
  <2>1. \A s \in Targets : s > spawned' => tracker'[s] = "none"
    BY <1>1, <1>2, <1>4, TargetNumbers DEF DeleteInv, OpenJobs
  <2>2. ASSUME NEW s \in Targets
        PROVE  /\ tracker'[s] = "set" => job_open'[s] /\ Listed(s)'
               /\ job_open'[s] => job'[s] # NoHandle
               /\ tracker'[s] # "none" => job'[s] # NoHandle
               /\ Listed(s)' /\ job_open'[s] => tracker'[s] = "set"
    <3>1. CASE s # spawned
      <4>1. tracker'[s] = tracker[s]
        BY <1>2, <1>4, <3>1
      <4> QED
        BY <1>1, <1>5, <3>1, <4>1 DEF DeleteInv, OpenJobs
    <3>2. CASE s = spawned
      BY <1>1, <1>2, <1>3, <1>4, <1>5, <3>2 DEF DeleteInv, OpenJobs
    <3> QED
      BY <3>1, <3>2
  <2> QED
    BY <1>1, <2>1, <2>2 DEF OpenJobs
<1>13. DebtsCovered'
  <2>1. Cardinality(Debts') = Cardinality(Debts) + 1 /\ Cardinality(Debts) \in Nat
    BY <1>8, TargetSetsFinite, FS_AddElement
  <2>2. refs >= (IF held THEN 1 ELSE 0) + Cardinality(Debts)
    BY DEF DeleteInv, DebtsCovered
  <2>3. refs' >= (IF held' THEN 1 ELSE 0) + Cardinality(Debts')
    BY <1>1, <1>2, <2>1, <2>2
  <2> QED
    BY <1>1, <2>3 DEF DebtsCovered
<1>14. Balanced'
  BY <1>9 DEF DeleteInv, Balanced
<1>15. StaleKilled'
  BY <1>1, <1>9 DEF DeleteInv, StaleKilled
<1> QED
  BY <1>10, <1>11, <1>12, <1>13, <1>14, <1>15 DEF ListInv

(* The destructor may destroy a tracker the worker has closed; the worker    *)
(* still has its policy to notify.                                           *)
LEMMA DestroySettles ==
  ASSUME DeleteInv, ClearDestroys
  PROVE  ListInv'
<1>1. PICK s \in Targets :
        /\ IsFront(s) /\ tracker[s] # "set"
        /\ tracker' = [tracker EXCEPT ![s] = "destroyed"]
  BY DEF ClearDestroys
<1>2. /\ main = "clear"
      /\ UNCHANGED <<main, spawned, job, job_open, targets, refs, held, killed,
                     workerVars>>
  BY DEF ClearDestroys
<1>3. /\ tracker \in [Targets -> {"none", "set", "closed", "freed", "destroyed"}]
      /\ tracker[s] \in {"closed", "freed"}
  BY <1>1 DEF DeleteInv, Typed, TypeOK, IsFront, TrackerList
<1>4. \A t \in Targets : (tracker'[t] = "closed" \/ Late(t)')
                           <=> (tracker[t] = "closed" \/ Late(t))
  <2>1. \A t \in Targets : t # s => tracker'[t] = tracker[t]
    BY <1>1, <1>3
  <2>2. tracker[s] = "closed" <=> worker = "freeing" /\ packet.key = s
    BY <1>2, <1>3 DEF DeleteInv, Owners
  <2>3. tracker'[s] = "destroyed"
    BY <1>1, <1>3
  <2>4. \A t \in Targets : t # s => (Late(t)' <=> Late(t))
    BY <1>2, <2>1 DEF Late
  <2>5. (Late(s)' <=> tracker[s] = "closed") /\ ~Late(s)
    BY <1>2, <1>3, <2>2, <2>3 DEF Late
  <2> QED
    BY <2>1, <2>3, <2>4, <2>5
<1>5. \A t \in Targets : /\ Listed(t)' <=> Listed(t)
                         /\ Leaked(t)' <=> Leaked(t)
                         /\ tracker'[t] = "set" <=> tracker[t] = "set"
                         /\ tracker'[t] = "none" <=> tracker[t] = "none"
  BY <1>1, <1>2, <1>3 DEF Listed, Leaked
<1>6. Debts' = Debts
  <2>1. \A t \in Targets : (tracker'[t] \in {"set", "closed"} \/ Late(t)')
                             <=> (tracker[t] \in {"set", "closed"} \/ Late(t))
    BY <1>4, <1>5
  <2> QED
    BY <1>5, <2>1 DEF Debts
<1>7. ASSUME NEW g \in Handles
      PROVE  Closing(g)' = Closing(g) /\ Stale(g)' = Stale(g)
  BY <1>2, <1>4, <1>5 DEF Closing, Stale
<1>8. ListOrder' /\ HandlesDistinct'
  BY <1>2 DEF DeleteInv, ListOrder, HandlesDistinct
<1>9. OpenJobs'
  BY <1>2, <1>5 DEF DeleteInv, OpenJobs, LockHeld
<1>10. DebtsCovered'
  BY <1>2, <1>6 DEF DeleteInv, DebtsCovered, LockHeld
<1>11. Balanced'
  BY <1>7 DEF DeleteInv, Balanced
<1>12. StaleKilled'
  BY <1>2, <1>7 DEF DeleteInv, StaleKilled
<1> QED
  BY <1>8, <1>9, <1>10, <1>11, <1>12 DEF ListInv

(* Who closes and frees, step by step.                                       *)
LEMMA SameOwners ==
  ASSUME DeleteInv, UNCHANGED <<tracker, pool>>,
         worker' = "freeing" <=> worker = "freeing",
         worker = "freeing" => packet' = packet,
         main' = main \/ (main \notin {"clearing", "down"} /\
                          main' \notin {"clearing", "down"})
  PROVE  Owners' /\ \A t \in Targets : Late(t)' <=> Late(t)
<1>1. \A t \in Targets : /\ IsFront(t)' <=> IsFront(t)
                         /\ Late(t)' <=> Late(t)
  BY DEF IsFront, TrackerList, Late
<1>2. TrackerList' = TrackerList
  BY DEF TrackerList
<1>3. (main' = "clearing" <=> main = "clearing") /\ (main' = "down" <=> main = "down")
  OBVIOUS
<1>4. worker' = "freeing" => tracker'[packet'.key] \in {"closed", "destroyed"}
  BY DEF DeleteInv, Owners
<1>5. \A s \in Targets : tracker'[s] = "closed" =>
        \/ worker' = "freeing" /\ packet'.key = s
        \/ main' = "clearing" /\ IsFront(s)'
  BY <1>1, <1>3 DEF DeleteInv, Owners
<1>6. main' = "clearing" => \A s \in Targets : IsFront(s)' =>
        tracker'[s] = "closed" /\ ~(worker' = "freeing" /\ packet'.key = s)
  BY <1>1, <1>3 DEF DeleteInv, Owners
<1>7. (main' = "down" => TrackerList' = {}) /\ (pool' = "gone" => main' = "down")
  BY <1>2, <1>3 DEF DeleteInv, Owners
<1> QED
  BY <1>1, <1>4, <1>5, <1>6, <1>7 DEF Owners

LEMMA FreeResourcesOwners ==
  ASSUME DeleteInv,
         \/ WorkerClosesJob \/ WorkerNotifiesPolicy \/ WorkerNotifiesLate
         \/ ClearClosesJob \/ ClearNotifiesPolicy \/ ClearDestroys
  PROVE  Owners'
<1>1. tracker \in [Targets -> {"none", "set", "closed", "freed", "destroyed"}]
        /\ (packet.event # "QUIT" => packet.key \in Targets)
        /\ (worker = "freeing" => packet.key \in Targets)
  BY PacketFields DEF DeleteInv, Typed, TypeOK
<1>2. CASE WorkerClosesJob
  <2>1. /\ packet.key \in Targets
        /\ worker = "event" /\ worker' = "freeing"
        /\ tracker[packet.key] = "set"
        /\ tracker' = [tracker EXCEPT ![packet.key] = "closed"]
        /\ UNCHANGED <<main, pool, packet>>
    BY <1>1, <1>2 DEF WorkerClosesJob, CloseJob, Got
  <2>2. TrackerList' = TrackerList /\ \A t \in Targets : IsFront(t)' <=> IsFront(t)
    <3>1. TrackerList' = TrackerList
      BY <1>1, <2>1 DEF TrackerList
    <3> QED
      BY <3>1 DEF IsFront
  <2>3. main = "clearing" => ~IsFront(packet.key)
    BY <2>1 DEF DeleteInv, Owners
  <2>4. \A t \in Targets : t # packet.key => tracker'[t] = tracker[t]
    BY <1>1, <2>1
  <2> QED
    BY <1>1, <2>1, <2>2, <2>3, <2>4 DEF DeleteInv, Owners
<1>3. CASE WorkerNotifiesPolicy
  <2>1. /\ packet.key \in Targets
        /\ worker = "freeing" /\ worker' = "loop"
        /\ tracker[packet.key] = "closed"
        /\ tracker' = [tracker EXCEPT ![packet.key] = "freed"]
        /\ UNCHANGED <<main, pool>>
    BY <1>1, <1>3 DEF WorkerNotifiesPolicy, NotifyPolicy, PacketDone
  <2>2. TrackerList' = TrackerList /\ \A t \in Targets : IsFront(t)' <=> IsFront(t)
    <3>1. TrackerList' = TrackerList
      BY <1>1, <2>1 DEF TrackerList
    <3> QED
      BY <3>1 DEF IsFront
  <2>3. main = "clearing" => ~IsFront(packet.key)
    BY <2>1 DEF DeleteInv, Owners
  <2>4. \A t \in Targets : t # packet.key => tracker'[t] = tracker[t]
    BY <1>1, <2>1
  <2>5. tracker'[packet.key] = "freed"
    BY <1>1, <2>1
  <2> QED
    BY <2>1, <2>2, <2>3, <2>4, <2>5 DEF DeleteInv, Owners
<1>4. CASE WorkerNotifiesLate
  <2>1. /\ packet.key \in Targets
        /\ worker = "freeing" /\ worker' = "loop"
        /\ tracker[packet.key] = "destroyed"
        /\ UNCHANGED <<main, pool, tracker>>
    BY <1>1, <1>4 DEF WorkerNotifiesLate, PacketDone
  <2>2. TrackerList' = TrackerList /\ \A t \in Targets : IsFront(t)' <=> IsFront(t)
    BY <2>1 DEF TrackerList, IsFront
  <2> QED
    BY <2>1, <2>2 DEF DeleteInv, Owners
<1>5. CASE ClearClosesJob
  <2>1. PICK s \in Targets : IsFront(s) /\ CloseJob(s)
    BY <1>5 DEF ClearClosesJob
  <2>2. /\ tracker[s] = "set" /\ tracker' = [tracker EXCEPT ![s] = "closed"]
        /\ main = "clear" /\ main' = "clearing"
        /\ UNCHANGED <<pool, worker, packet>>
    BY <1>5, <2>1 DEF ClearClosesJob, CloseJob
  <2>3. TrackerList' = TrackerList
    BY <1>1, <2>2 DEF TrackerList
  <2>4. IsFront(s)' /\ \A t \in Targets : IsFront(t)' => t = s
    BY <2>1, <2>3, FrontUnique DEF IsFront
  <2>5. \A t \in Targets : t # s => tracker'[t] = tracker[t]
    BY <1>1, <2>2
  <2>6. tracker'[s] = "closed"
    BY <1>1, <2>2
  <2>7. worker = "freeing" => packet.key # s
    BY <2>2 DEF DeleteInv, Owners
  <2>8. pool # "gone"
    BY <2>2 DEF DeleteInv, Owners
  <2>9. \A t \in Targets : tracker'[t] = "closed" =>
          \/ worker' = "freeing" /\ packet'.key = t
          \/ main' = "clearing" /\ IsFront(t)'
    BY <2>2, <2>4, <2>5 DEF DeleteInv, Owners
  <2>10. worker' = "freeing" => tracker'[packet'.key] \in {"closed", "destroyed"}
    BY <1>1, <2>2, <2>5, <2>7 DEF DeleteInv, Owners
  <2> QED
    BY <2>2, <2>4, <2>6, <2>7, <2>8, <2>9, <2>10 DEF Owners
<1>6. CASE ClearNotifiesPolicy
  <2>1. PICK s \in Targets : IsFront(s) /\ NotifyPolicy(s)
    BY <1>6 DEF ClearNotifiesPolicy
  <2>2. /\ tracker[s] = "closed" /\ tracker' = [tracker EXCEPT ![s] = "freed"]
        /\ main = "clearing" /\ main' = "clear"
        /\ UNCHANGED <<pool, worker, packet>>
    BY <1>6, <2>1 DEF ClearNotifiesPolicy, NotifyPolicy
  <2>3. \A t \in Targets : t # s => tracker'[t] = tracker[t]
    BY <1>1, <2>2
  <2>4. tracker'[s] = "freed"
    BY <1>1, <2>2
  <2>5. worker = "freeing" => packet.key # s
    BY <2>1, <2>2 DEF DeleteInv, Owners
  <2>6. pool # "gone"
    BY <2>2 DEF DeleteInv, Owners
  <2>7. ASSUME NEW t \in Targets, tracker'[t] = "closed"
        PROVE  worker' = "freeing" /\ packet'.key = t
    <3>1. t # s /\ tracker[t] = "closed"
      BY <2>3, <2>4, <2>7
    <3>2. ~IsFront(t)
      BY <2>1, <3>1, FrontUnique
    <3> QED
      BY <2>2, <3>1, <3>2 DEF DeleteInv, Owners
  <2>8. worker' = "freeing" => tracker'[packet'.key] \in {"closed", "destroyed"}
    BY <1>1, <2>2, <2>3, <2>5 DEF DeleteInv, Owners
  <2> QED
    BY <2>2, <2>6, <2>7, <2>8 DEF Owners
<1>7. CASE ClearDestroys
  <2>1. PICK s \in Targets : tracker' = [tracker EXCEPT ![s] = "destroyed"]
    BY <1>7 DEF ClearDestroys
  <2>2. main = "clear" /\ UNCHANGED <<main, pool, worker, packet>>
    BY <1>7 DEF ClearDestroys
  <2>3. /\ \A t \in Targets : t # s => tracker'[t] = tracker[t]
        /\ tracker'[s] = "destroyed"
    BY <1>1, <2>1
  <2>4. worker' = "freeing" => tracker'[packet'.key] \in {"closed", "destroyed"}
    BY <1>1, <2>2, <2>3 DEF DeleteInv, Owners
  <2>5. \A t \in Targets : tracker'[t] = "closed" =>
          worker' = "freeing" /\ packet'.key = t
    BY <2>2, <2>3 DEF DeleteInv, Owners
  <2> QED
    BY <2>2, <2>4, <2>5 DEF DeleteInv, Owners
<1> QED
  BY <1>2, <1>3, <1>4, <1>5, <1>6, <1>7

LEMMA DeleteInit == Init => DeleteInv
<1> SUFFICES ASSUME Init PROVE DeleteInv
  OBVIOUS
<1>1. Typed
  BY InitTyped
<1>2. \A s \in Targets : ~Listed(s) /\ ~Late(s) /\ ~Leaked(s) /\ tracker[s] = "none"
  BY DEF Init, Listed, Late, Leaked
<1>3. Debts = {} /\ \A h : Closing(h) = {} /\ Stale(h) = {}
  BY <1>2 DEF Debts, Closing, Stale
<1>4. ListOrder /\ HandlesDistinct
  BY DEF Init, ListOrder, HandlesDistinct
<1>5. OpenJobs
  BY <1>2 DEF Init, OpenJobs, LockHeld
<1>6. Owners
  BY <1>2 DEF Init, Owners
<1>7. DebtsCovered
  BY <1>3, FS_EmptySet DEF Init, DebtsCovered, LockHeld
<1>8. Balanced /\ StaleKilled
  BY <1>3 DEF Balanced, StaleKilled
<1> QED
  BY <1>1, <1>4, <1>5, <1>6, <1>7, <1>8 DEF DeleteInv

LEMMA DeleteCaller ==
  ASSUME DeleteInv, Caller
  PROVE  Owners' /\ ListInv'
<1>1. CASE SpawnTarget \/ SpawnCleanup \/ AddTarget \/ LeakPolicy \/ DropPolicy
  <2>1. /\ UNCHANGED <<tracker, pool, workerVars>>
        /\ main' = main \/ (main \notin {"clearing", "down"} /\
                            main' \notin {"clearing", "down"})
    BY <1>1 DEF SpawnTarget, SpawnCleanup, AddTarget, LeakPolicy, DropPolicy
  <2>2. Owners'
    BY <2>1, SameOwners
  <2> QED
    BY <1>1, <2>2, SpawnSettles, SpawnCleanupSettles, AddTargetSettles,
       TrackSettles, DropSettles
<1>2. CASE TrackJob
  <2>1. /\ main = "track" /\ main' = "idle" /\ LockHeld
        /\ tracker' = [tracker EXCEPT ![spawned] = "set"]
        /\ UNCHANGED <<pool, workerVars>>
    BY <1>2 DEF TrackJob, LockHeld
  <2>2. spawned \in Targets /\ tracker[spawned] = "none"
          /\ tracker \in [Targets -> {"none", "set", "closed", "freed", "destroyed"}]
    BY <2>1 DEF DeleteInv, Typed, TypeOK, OpenJobs
  <2>3. worker = "freeing" => packet.key \in Targets /\ packet.key # spawned
    BY <2>2 DEF DeleteInv, Owners, Typed
  <2>4. \A t \in Targets : tracker'[t] = "closed" => tracker[t] = "closed"
    BY <2>1, <2>2
  <2>5. worker = "freeing" => tracker'[packet.key] = tracker[packet.key]
    BY <2>1, <2>2, <2>3
  <2>6. Owners'
    BY <2>1, <2>4, <2>5 DEF DeleteInv, Owners
  <2> QED
    BY <1>2, <2>6, TrackSettles
<1>3. CASE \/ WaitForAllTargets \/ WaitReturns \/ DestroyBroker
           \/ WorkerJoined \/ JoinTimesOut
  <2>1. /\ UNCHANGED ListVars /\ UNCHANGED <<pool, killed, workerVars>>
        /\ ~LockHeld /\ ~LockHeld'
        /\ main \notin {"clearing", "down"} /\ main' \notin {"clearing", "down"}
    BY <1>3 DEF ListVars, LockHeld, WaitForAllTargets, WaitReturns,
       DestroyBroker, WorkerJoined, JoinTimesOut
  <2>2. Owners' /\ \A t \in Targets : Late(t)' <=> Late(t)
    BY <2>1, SameOwners DEF ListVars
  <2>3. ListInv'
    BY <2>1, <2>2, SameDebts
  <2> QED
    BY <2>2, <2>3
<1>4. CASE ResetThreadPool
  <2>1. /\ UNCHANGED ListVars /\ UNCHANGED <<killed, workerVars>>
        /\ ~LockHeld /\ ~LockHeld' /\ TrackerList = {} /\ main' = "down"
        /\ main = "clear"
    BY <1>4 DEF ListVars, LockHeld, ResetThreadPool
  <2>2. /\ \A t \in Targets : (Late(t)' <=> Late(t)) /\ (IsFront(t)' <=> IsFront(t))
        /\ TrackerList' = TrackerList
    BY <2>1 DEF ListVars, Late, IsFront, TrackerList
  <2>3. Owners'
    BY <2>1, <2>2 DEF DeleteInv, Owners, ListVars
  <2>4. ListInv'
    BY <2>1, <2>2, SameDebts
  <2> QED
    BY <2>3, <2>4
<1>5. CASE ClearClosesJob
  <2>1. PICK s \in Targets : CloseJob(s)
    BY <1>5 DEF ClearClosesJob
  <2>2. /\ main = "clear" /\ main' = "clearing"
        /\ UNCHANGED <<spawned, job, targets, refs, held, workerVars>>
    BY <1>5 DEF ClearClosesJob
  <2>3. \A t \in Targets : Late(t)' <=> Late(t)
    <3>1. \A t \in Targets : tracker'[t] = "destroyed" <=> tracker[t] = "destroyed"
      BY <2>1 DEF CloseJob, DeleteInv, Typed, TypeOK
    <3> QED
      BY <2>2, <3>1 DEF Late
  <2> QED
    BY <1>5, <2>1, <2>2, <2>3, CloseSettles, FreeResourcesOwners
<1>6. CASE ClearNotifiesPolicy
  <2>1. PICK s \in Targets : IsFront(s) /\ NotifyPolicy(s)
    BY <1>6 DEF ClearNotifiesPolicy
  <2>2. /\ main = "clearing" /\ main' = "clear"
        /\ UNCHANGED <<spawned, job, job_open, held, workerVars>>
    BY <1>6 DEF ClearNotifiesPolicy
  <2>3. /\ tracker[s] = "closed" /\ OnJobEmpty(job[s])
        /\ tracker' = [tracker EXCEPT ![s] = "freed"]
        /\ tracker \in [Targets -> {"none", "set", "closed", "freed", "destroyed"}]
    BY <2>1 DEF NotifyPolicy, DeleteInv, Typed, TypeOK
  <2>4. \A t \in Targets : /\ tracker'[t] = "set" <=> tracker[t] = "set"
                           /\ tracker'[t] = "none" <=> tracker[t] = "none"
                           /\ tracker'[t] = "closed" <=> t # s /\ tracker[t] = "closed"
                           /\ tracker'[t] = "destroyed" <=> tracker[t] = "destroyed"
    BY <2>3
  <2>5. \A t \in Targets : (Late(t)' <=> Late(t)) /\ ~Late(s)
    BY <2>2, <2>3, <2>4 DEF Late
  <2>6. \A t \in Targets : (tracker'[t] = "closed" \/ Late(t)')
                             <=> t # s /\ (tracker[t] = "closed" \/ Late(t))
    BY <2>4, <2>5
  <2>7. ListInv'
    BY <2>2, <2>3, <2>4, <2>6, NotifySettles DEF ListInv
  <2> QED
    BY <1>6, <2>7, FreeResourcesOwners
<1>7. CASE ClearDestroys
  BY <1>7, DestroySettles, FreeResourcesOwners
<1> QED
  BY <1>1, <1>2, <1>3, <1>4, <1>5, <1>6, <1>7 DEF Caller

LEMMA DeleteWorker ==
  ASSUME DeleteInv, TargetEventsThread
  PROVE  Owners' /\ ListInv'
<1>1. CASE WorkerClosesJob
  <2>1. packet.key \in Targets /\ CloseJob(packet.key)
    BY <1>1, PacketFields DEF WorkerClosesJob, Got, DeleteInv, Typed, TypeOK
  <2>2. UNCHANGED <<main, spawned, job, targets, refs, held, packet>>
    BY <1>1 DEF WorkerClosesJob
  <2>3. /\ worker = "event" /\ tracker[packet.key] = "set"
        /\ tracker' = [tracker EXCEPT ![packet.key] = "closed"]
        /\ tracker \in [Targets -> {"none", "set", "closed", "freed", "destroyed"}]
    BY <1>1, <2>1 DEF WorkerClosesJob, Got, CloseJob, DeleteInv, Typed, TypeOK
  <2>4. \A t \in Targets : ~Late(t)' /\ ~Late(t)
    BY <2>1, <2>2, <2>3 DEF Late
  <2> QED
    BY <1>1, <2>1, <2>2, <2>4, CloseSettles, FreeResourcesOwners
<1>2. CASE WorkerNotifiesPolicy
  <2> DEFINE s == packet.key
  <2>1. s \in Targets /\ NotifyPolicy(s)
    BY <1>2 DEF WorkerNotifiesPolicy, DeleteInv, Typed
  <2>2. /\ worker = "freeing" /\ worker' = "loop"
        /\ UNCHANGED <<main, spawned, job, job_open, held>>
    BY <1>2 DEF WorkerNotifiesPolicy, PacketDone
  <2>3. /\ tracker[s] = "closed" /\ OnJobEmpty(job[s])
        /\ tracker' = [tracker EXCEPT ![s] = "freed"]
        /\ tracker \in [Targets -> {"none", "set", "closed", "freed", "destroyed"}]
    BY <2>1 DEF NotifyPolicy, DeleteInv, Typed, TypeOK
  <2>4. \A t \in Targets : /\ tracker'[t] = "set" <=> tracker[t] = "set"
                           /\ tracker'[t] = "none" <=> tracker[t] = "none"
                           /\ tracker'[t] = "closed" <=> t # s /\ tracker[t] = "closed"
    BY <2>1, <2>3
  <2>5. \A t \in Targets : ~Late(t)' /\ ~Late(t)
    BY <2>2, <2>3 DEF Late
  <2>6. \A t \in Targets : (tracker'[t] = "closed" \/ Late(t)')
                             <=> t # s /\ (tracker[t] = "closed" \/ Late(t))
    BY <2>4, <2>5
  <2> HIDE DEF s
  <2>7. ListInv'
    BY <2>1, <2>2, <2>3, <2>4, <2>6, NotifySettles DEF ListInv
  <2> QED
    BY <1>2, <2>7, FreeResourcesOwners
<1>3. CASE WorkerNotifiesLate
  <2> DEFINE s == packet.key
  <2>1. s \in Targets /\ Late(s) /\ OnJobEmpty(job[s])
    BY <1>3 DEF WorkerNotifiesLate, DeleteInv, Typed, Late
  <2>2. /\ worker = "freeing" /\ worker' = "loop"
        /\ UNCHANGED <<main, spawned, job, job_open, held, tracker>>
    BY <1>3 DEF WorkerNotifiesLate, PacketDone
  <2>3. \A t \in Targets : ~Late(t)' /\ (t # s => ~Late(t))
    BY <2>2 DEF Late
  <2>4. tracker[s] = "destroyed"
    BY <2>1 DEF Late
  <2>5. \A t \in Targets : (tracker'[t] = "closed" \/ Late(t)')
                             <=> t # s /\ (tracker[t] = "closed" \/ Late(t))
    BY <2>2, <2>3, <2>4
  <2> HIDE DEF s
  <2>6. ListInv'
    BY <2>1, <2>2, <2>5, NotifySettles DEF ListInv
  <2> QED
    BY <1>3, <2>6, FreeResourcesOwners
<1>4. CASE ~WorkerClosesJob /\ ~WorkerNotifiesPolicy /\ ~WorkerNotifiesLate
  <2>1. /\ UNCHANGED ListVars /\ UNCHANGED <<main, pool>>
        /\ worker # "freeing" /\ worker' # "freeing"
    BY <1>4 DEF ListVars, Got, TargetEventsThread, WorkerStarts,
       GetQueuedCompletionStatus, LookUpNewProcess, CountNewProcess,
       EraseExitedProcess, CountExitedProcess, ActiveProcessLimit,
       ProcessMemoryLimit, NothingToFree, WorkerQuits, PacketDone
  <2>2. killed \subseteq killed'
    BY <1>4 DEF Got, TargetEventsThread, WorkerStarts,
       GetQueuedCompletionStatus, LookUpNewProcess, CountNewProcess,
       EraseExitedProcess, CountExitedProcess, ActiveProcessLimit,
       ProcessMemoryLimit, NothingToFree, WorkerQuits, PacketDone
  <2>3. Owners' /\ \A t \in Targets : Late(t)' <=> Late(t)
    BY <2>1, SameOwners DEF ListVars
  <2>4. ListInv'
    BY <2>1, <2>2, <2>3, SameDebts
  <2> QED
    BY <2>3, <2>4
<1> QED
  BY <1>1, <1>2, <1>3, <1>4

LEMMA DeleteStep == DeleteInv /\ [Next]_vars => DeleteInv'
<1> SUFFICES ASSUME DeleteInv, [Next]_vars PROVE DeleteInv'
  OBVIOUS
<1>1. Typed'
  BY TypedStep DEF DeleteInv
<1>2. CASE (\E s \in Targets : Kernel(s)) \/ UNCHANGED vars
  <2>1. UNCHANGED ListVars /\ UNCHANGED <<main, pool, killed, workerVars>>
    BY <1>2 DEF ListVars, Kernel, ProcessExits, ChildCreated, ChildRefused,
       MemoryExceeded, vars
  <2>2. Owners' /\ \A t \in Targets : Late(t)' <=> Late(t)
    BY <2>1, SameOwners DEF ListVars
  <2>3. ListInv'
    BY <2>1, <2>2, SameDebts
  <2> QED
    BY <1>1, <2>2, <2>3 DEF DeleteInv, ListInv
<1>3. CASE Caller
  BY <1>1, <1>3, DeleteCaller DEF DeleteInv, ListInv
<1>4. CASE TargetEventsThread
  BY <1>1, <1>4, DeleteWorker DEF DeleteInv, ListInv
<1> QED
  BY <1>2, <1>3, <1>4 DEF Next

(* Whoever deletes a target and however slow the worker is: the processes of *)
(* the target have been told to terminate, or the spawn failed, and the pool *)
(* or the worker is still there (broker_services.cc:462).                    *)
LEMMA DeletionInTime ==
  ASSUME DeleteInv, [Next]_vars,
         NEW s \in Targets, object[s] = "live", object'[s] = "deleted"
  PROVE  /\ s \in killed \/ (main = "create" /\ s = spawned)
         /\ ~(pool = "gone" /\ worker = "done")
<1>1. CASE SpawnCleanup
  <2>1. main = "create" /\ s = spawned
    BY <1>1 DEF SpawnCleanup, DeleteTargets, DeleteInv, Typed, TypeOK
  <2> QED
    BY <2>1 DEF DeleteInv, Owners
<1>2. CASE DropPolicy
  BY <1>2, DropDeletesNothing
<1>3. CASE ClearNotifiesPolicy
  <2>1. PICK t \in Targets : IsFront(t) /\ NotifyPolicy(t)
    BY <1>3 DEF ClearNotifiesPolicy
  <2>2. s \in killed
    BY <2>1, NotifyEffect DEF NotifyPolicy
  <2>3. pool # "gone"
    BY <1>3 DEF ClearNotifiesPolicy, DeleteInv, Owners
  <2> QED
    BY <2>2, <2>3
<1>4. CASE WorkerNotifiesPolicy
  <2>1. packet.key \in Targets /\ NotifyPolicy(packet.key) /\ worker = "freeing"
    BY <1>4 DEF WorkerNotifiesPolicy, DeleteInv, Typed
  <2>2. s \in killed
    BY <2>1, NotifyEffect DEF NotifyPolicy
  <2> QED
    BY <2>1, <2>2
<1>5. CASE WorkerNotifiesLate
  <2>1. packet.key \in Targets /\ Late(packet.key) /\ OnJobEmpty(job[packet.key])
          /\ worker = "freeing"
    BY <1>5 DEF WorkerNotifiesLate, DeleteInv, Typed, Late
  <2>2. s \in killed
    BY <2>1, NotifyEffect
  <2> QED
    BY <2>1, <2>2
<1>6. CASE SpawnTarget
  <2>1. object'[s] = "live"
    BY <1>6 DEF SpawnTarget, DeleteInv, Typed, TypeOK
  <2> QED
    BY <2>1
<1>7. CASE \/ AddTarget \/ TrackJob \/ LeakPolicy \/ WaitForAllTargets
           \/ WaitReturns \/ DestroyBroker \/ WorkerJoined \/ JoinTimesOut
           \/ ClearClosesJob \/ ClearDestroys \/ ResetThreadPool
  BY <1>7 DEF AddTarget, TrackJob, LeakPolicy, WaitForAllTargets, WaitReturns,
     DestroyBroker, WorkerJoined, JoinTimesOut, ClearClosesJob, ClearDestroys,
     ResetThreadPool
<1>8. CASE /\ TargetEventsThread /\ ~WorkerNotifiesPolicy /\ ~WorkerNotifiesLate
  BY <1>8 DEF TargetEventsThread, WorkerStarts, GetQueuedCompletionStatus,
     LookUpNewProcess, CountNewProcess, EraseExitedProcess, CountExitedProcess,
     ActiveProcessLimit, ProcessMemoryLimit, WorkerClosesJob, NothingToFree,
     WorkerQuits
<1>9. CASE (\E t \in Targets : Kernel(t)) \/ UNCHANGED vars
  BY <1>9 DEF Kernel, ProcessExits, ChildCreated, ChildRefused, MemoryExceeded,
     vars
<1> QED
  BY <1>1, <1>2, <1>3, <1>4, <1>5, <1>6, <1>7, <1>8, <1>9 DEF Next, Caller

(* A TargetProcess is deleted only when no process of the target is left or  *)
(* the broker has told them to terminate, and never once the thread pool and *)
(* the worker are gone (target_process.cc:65), however slow the worker is.   *)
THEOREM DeletionRight == Spec => DeletedInTime
<1>1. DeleteInv /\ [Next]_vars =>
        [\A s \in Targets :
           (object[s] = "live" /\ object'[s] = "deleted") =>
             /\ procs[s] = {} \/ s \in killed \/ (main = "create" /\ s = spawned)
             /\ ~(pool = "gone" /\ worker = "done")]_vars
  BY DeletionInTime
<1> QED
  BY <1>1, DeleteInit, DeleteStep, PTL DEF Spec, DeletedInTime

-----------------------------------------------------------------------------
(* The worker's books.  The packets in flight, q, are read with the processes *)
(* alive in the jobs, A, a set of pairs of a target and a process id.  The    *)
(* same id may occur in several packets, of one target or of many.            *)
About(x, p) == x.event \in {"NEW_PROCESS", "EXIT_PROCESS"} /\ x.ovl = p
Exit(x, p) == x.event = "EXIT_PROCESS" /\ x.ovl = p

(* The exit of a process the job refused: the worker counts it in as it gets *)
(* the ACTIVE_PROCESS_LIMIT ahead of it.                                     *)
Refused(q, i) == i > 1 /\ q[i - 1].event = "ACTIVE_PROCESS_LIMIT"

(* A process the worker has counted in and not yet out.                      *)
OpenEnd(q, p) == \E i \in DOMAIN q :
  /\ Exit(q[i], p) /\ ~Refused(q, i)
  /\ \A j \in DOMAIN q : j < i => ~About(q[j], p)
Open(q, A, p) ==
  \/ \E s \in Targets : <<s, p>> \in A /\ \A i \in DOMAIN q : ~About(q[i], p)
  \/ OpenEnd(q, p)

(* The last packet about a process that is alive says that it began.         *)
AliveLast(q, A) == \A s \in Targets, p \in Pids : <<s, p>> \in A =>
  \/ \A i \in DOMAIN q : ~About(q[i], p)
  \/ \E i \in DOMAIN q : /\ q[i] = Packet("NEW_PROCESS", s, p)
                         /\ \A j \in DOMAIN q : i < j => ~About(q[j], p)

(* Between two ends of one process id there is a beginning.                  *)
Alternate(q) == \A i, j \in DOMAIN q : \A p \in Pids :
  (i < j /\ Exit(q[i], p) /\ Exit(q[j], p) /\ ~Refused(q, j)) =>
    \E k \in DOMAIN q : i < k /\ k < j /\ About(q[k], p) /\ ~Exit(q[k], p)

Extended(q, x, y) ==
  /\ Len(q) \in Nat /\ DOMAIN q = 1..Len(q)
  /\ Len(y) = Len(q) + 1 /\ DOMAIN y = 1..(Len(q) + 1)
  /\ \A i \in 1..Len(q) : y[i] = q[i]
  /\ y[Len(q) + 1] = x
Shortened(q, y) ==
  /\ Len(q) \in Nat /\ Len(q) > 0 /\ DOMAIN q = 1..Len(q)
  /\ Len(y) = Len(q) - 1 /\ DOMAIN y = 1..(Len(q) - 1)
  /\ \A i \in 1..(Len(q) - 1) : y[i] = q[i + 1]

LEMMA SequenceSteps ==
  ASSUME NEW q \in Seq(Packets)
  PROVE  /\ \A x \in Packets : Extended(q, x, Append(q, x))
         /\ q # <<>> => Shortened(q, Tail(q))
<1>1. Len(q) \in Nat /\ DOMAIN q = 1..Len(q)
  OBVIOUS
<1>2. \A x \in Packets : Extended(q, x, Append(q, x))
  BY <1>1 DEF Extended
<1>3. q # <<>> => Shortened(q, Tail(q))
  BY <1>1 DEF Shortened
<1> QED
  BY <1>2, <1>3

LEMMA PacketAbout ==
  /\ \A s, p : About(Packet("NEW_PROCESS", s, p), p)
  /\ \A e, s, p, r : About(Packet(e, s, p), r) => r = p /\ e \in {"NEW_PROCESS", "EXIT_PROCESS"}
  /\ \A s, p, r : ~Exit(Packet("NEW_PROCESS", s, p), r)
  /\ \A x, p : Exit(x, p) => About(x, p)
BY DEF About, Exit, Packet

(* A packet about no process.                                                *)
LEMMA OtherPosted ==
  ASSUME NEW q, NEW A, NEW x, NEW y, Extended(q, x, y),
         x.event \notin {"NEW_PROCESS", "EXIT_PROCESS"}
  PROVE  /\ \A r : Open(y, A, r) => Open(q, A, r)
         /\ AliveLast(q, A) => AliveLast(y, A)
         /\ Alternate(q) => Alternate(y)
<1> USE DEF Extended
<1>1. \A r : ~About(x, r) /\ ~Exit(x, r)
  BY DEF About, Exit
<1>2. \A i \in 1..Len(q) : Refused(y, i) <=> Refused(q, i)
  BY DEF Refused
<1>3. ASSUME NEW r, Open(y, A, r) PROVE Open(q, A, r)
  <2>1. CASE OpenEnd(y, r)
    <3>1. PICK i \in DOMAIN y : Exit(y[i], r) /\ ~Refused(y, i)
            /\ \A j \in DOMAIN y : j < i => ~About(y[j], r)
      BY <2>1 DEF OpenEnd
    <3>2. i \in 1..Len(q)
      BY <3>1, <1>1
    <3>3. OpenEnd(q, r)
      BY <3>1, <3>2, <1>2 DEF OpenEnd
    <3> QED
      BY <3>3 DEF Open
  <2>2. CASE \E s \in Targets : <<s, r>> \in A /\ \A i \in DOMAIN y : ~About(y[i], r)
    <3>1. \A i \in DOMAIN y : ~About(y[i], r)
      BY <2>2
    <3>2. \A i \in DOMAIN q : ~About(q[i], r)
      BY <3>1
    <3> QED
      BY <2>2, <3>2 DEF Open
  <2> QED
    BY <1>3, <2>1, <2>2 DEF Open
<1>4. ASSUME AliveLast(q, A) PROVE AliveLast(y, A)
  <2> SUFFICES ASSUME NEW s \in Targets, NEW p \in Pids, <<s, p>> \in A
               PROVE  \/ \A i \in DOMAIN y : ~About(y[i], p)
                      \/ \E i \in DOMAIN y :
                           /\ y[i] = Packet("NEW_PROCESS", s, p)
                           /\ \A j \in DOMAIN y : i < j => ~About(y[j], p)
    BY DEF AliveLast
  <2>1. CASE \A i \in DOMAIN q : ~About(q[i], p)
    BY <2>1, <1>1
  <2>2. CASE \E i \in DOMAIN q : /\ q[i] = Packet("NEW_PROCESS", s, p)
                                 /\ \A j \in DOMAIN q : i < j => ~About(q[j], p)
    BY <2>2, <1>1
  <2> QED
    BY <1>4, <2>1, <2>2 DEF AliveLast
<1>5. ASSUME Alternate(q) PROVE Alternate(y)
  <2> SUFFICES ASSUME NEW i \in DOMAIN y, NEW j \in DOMAIN y, NEW p \in Pids,
                      i < j, Exit(y[i], p), Exit(y[j], p), ~Refused(y, j)
               PROVE  \E k \in DOMAIN y :
                        i < k /\ k < j /\ About(y[k], p) /\ ~Exit(y[k], p)
    BY DEF Alternate
  <2>1. i \in 1..Len(q) /\ j \in 1..Len(q)
    BY <1>1
  <2>2. Exit(q[i], p) /\ Exit(q[j], p) /\ ~Refused(q, j)
    BY <2>1, <1>2
  <2>3. PICK k \in DOMAIN q : i < k /\ k < j /\ About(q[k], p) /\ ~Exit(q[k], p)
    BY <2>1, <2>2, <1>5 DEF Alternate
  <2> QED
    BY <2>3
<1> QED
  BY <1>3, <1>4, <1>5

(* A process that was not alive begins.                                      *)
LEMMA NewPosted ==
  ASSUME NEW q, NEW A, NEW y, NEW B, NEW s \in Targets, NEW p \in Pids,
         Extended(q, Packet("NEW_PROCESS", s, p), y),
         \A t \in Targets : <<t, p>> \notin A,
         \A t \in Targets, r \in Pids :
           <<t, r>> \in B <=> <<t, r>> \in A \/ (t = s /\ r = p)
  PROVE  /\ \A r \in Pids : Open(y, B, r) => Open(q, A, r)
         /\ AliveLast(q, A) => AliveLast(y, B)
         /\ Alternate(q) => Alternate(y)
<1> DEFINE x == Packet("NEW_PROCESS", s, p)
<1>1. /\ About(x, p) /\ \A r : About(x, r) => r = p
      /\ \A r : ~Exit(x, r)
  BY PacketAbout
<1> HIDE DEF x
<1> Extended(q, x, y)
  BY DEF x
<1> USE DEF Extended
<1>2. \A i \in 1..Len(q) : Refused(y, i) <=> Refused(q, i)
  BY DEF Refused
<1>3. ASSUME NEW r \in Pids, Open(y, B, r) PROVE Open(q, A, r)
  <2>1. CASE OpenEnd(y, r)
    <3>1. PICK i \in DOMAIN y : Exit(y[i], r) /\ ~Refused(y, i)
            /\ \A j \in DOMAIN y : j < i => ~About(y[j], r)
      BY <2>1 DEF OpenEnd
    <3>2. i \in 1..Len(q)
      BY <3>1, <1>1
    <3>3. OpenEnd(q, r)
      BY <3>1, <3>2, <1>2 DEF OpenEnd
    <3> QED
      BY <3>3 DEF Open
  <2>2. CASE \E t \in Targets : <<t, r>> \in B /\ \A i \in DOMAIN y : ~About(y[i], r)
    <3>1. PICK t \in Targets : <<t, r>> \in B
      BY <2>2
    <3>2. \A i \in DOMAIN y : ~About(y[i], r)
      BY <2>2
    <3>3. ~About(y[Len(q) + 1], r) /\ \A i \in DOMAIN q : ~About(q[i], r)
      BY <3>2
    <3>4. r # p
      BY <3>3, <1>1
    <3>5. <<t, r>> \in A
      BY <3>1, <3>4
    <3> QED
      BY <3>3, <3>5 DEF Open
  <2> QED
    BY <1>3, <2>1, <2>2 DEF Open
<1>4. ASSUME AliveLast(q, A) PROVE AliveLast(y, B)
  <2> SUFFICES ASSUME NEW t \in Targets, NEW r \in Pids, <<t, r>> \in B
               PROVE  \/ \A i \in DOMAIN y : ~About(y[i], r)
                      \/ \E i \in DOMAIN y :
                           /\ y[i] = Packet("NEW_PROCESS", t, r)
                           /\ \A j \in DOMAIN y : i < j => ~About(y[j], r)
    BY DEF AliveLast
  <2>1. CASE r = p
    <3>1. t = s
      BY <2>1
    <3>2. /\ Len(q) + 1 \in DOMAIN y
          /\ y[Len(q) + 1] = Packet("NEW_PROCESS", t, r)
          /\ \A j \in DOMAIN y : ~(Len(q) + 1 < j)
      BY <2>1, <3>1 DEF x
    <3> QED
      BY <3>2
  <2>2. CASE r # p
    <3>1. <<t, r>> \in A /\ ~About(x, r)
      BY <2>2, <1>1
    <3>2. CASE \A i \in DOMAIN q : ~About(q[i], r)
      BY <3>1, <3>2
    <3>3. CASE \E i \in DOMAIN q : /\ q[i] = Packet("NEW_PROCESS", t, r)
                                   /\ \A j \in DOMAIN q : i < j => ~About(q[j], r)
      BY <3>1, <3>3
    <3> QED
      BY <1>4, <3>1, <3>2, <3>3 DEF AliveLast
  <2> QED
    BY <2>1, <2>2
<1>5. ASSUME Alternate(q) PROVE Alternate(y)
  <2> SUFFICES ASSUME NEW i \in DOMAIN y, NEW j \in DOMAIN y, NEW r \in Pids,
                      i < j, Exit(y[i], r), Exit(y[j], r), ~Refused(y, j)
               PROVE  \E k \in DOMAIN y :
                        i < k /\ k < j /\ About(y[k], r) /\ ~Exit(y[k], r)
    BY DEF Alternate
  <2>1. i \in 1..Len(q) /\ j \in 1..Len(q)
    BY <1>1
  <2>2. Exit(q[i], r) /\ Exit(q[j], r) /\ ~Refused(q, j)
    BY <2>1, <1>2
  <2>3. PICK k \in DOMAIN q : i < k /\ k < j /\ About(q[k], r) /\ ~Exit(q[k], r)
    BY <2>1, <2>2, <1>5 DEF Alternate
  <2> QED
    BY <2>3
<1> QED
  BY <1>3, <1>4, <1>5

(* A process that was alive ends.                                            *)
LEMMA ExitPosted ==
  ASSUME NEW q, NEW A, NEW y, NEW B, NEW s \in Targets, NEW p \in Pids,
         Extended(q, Packet("EXIT_PROCESS", s, p), y),
         <<s, p>> \in A, \A t \in Targets : t # s => <<t, p>> \notin A,
         \A t \in Targets, r \in Pids :
           <<t, r>> \in B <=> <<t, r>> \in A /\ ~(t = s /\ r = p)
  PROVE  /\ \A r \in Pids : Open(y, B, r) => Open(q, A, r)
         /\ AliveLast(q, A) => AliveLast(y, B)
         /\ AliveLast(q, A) /\ Alternate(q) => Alternate(y)
<1> DEFINE x == Packet("EXIT_PROCESS", s, p)
<1>1. About(x, p) /\ \A r : About(x, r) => r = p
  BY DEF About, Packet
<1> HIDE DEF x
<1> Extended(q, x, y)
  BY DEF x
<1> USE DEF Extended
<1>2. \A i \in 1..Len(q) : Refused(y, i) <=> Refused(q, i)
  BY DEF Refused
<1>3. ASSUME NEW r \in Pids, Open(y, B, r) PROVE Open(q, A, r)
  <2>1. CASE OpenEnd(y, r)
    <3>1. PICK i \in DOMAIN y : Exit(y[i], r) /\ ~Refused(y, i)
            /\ \A j \in DOMAIN y : j < i => ~About(y[j], r)
      BY <2>1 DEF OpenEnd
    <3>2. CASE i \in 1..Len(q)
      <4>1. OpenEnd(q, r)
        BY <3>1, <3>2, <1>2 DEF OpenEnd
      <4> QED
        BY <4>1 DEF Open
    <3>3. CASE i = Len(q) + 1
      <4>1. r = p
        BY <3>1, <3>3, <1>1, PacketAbout
      <4>2. \A j \in DOMAIN q : ~About(q[j], r)
        BY <3>1, <3>3
      <4> QED
        BY <4>1, <4>2 DEF Open
    <3> QED
      BY <3>2, <3>3
  <2>2. CASE \E t \in Targets : <<t, r>> \in B /\ \A i \in DOMAIN y : ~About(y[i], r)
    <3>1. PICK t \in Targets : <<t, r>> \in B
      BY <2>2
    <3>2. \A i \in DOMAIN y : ~About(y[i], r)
      BY <2>2
    <3>3. \A i \in DOMAIN q : ~About(q[i], r)
      BY <3>2
    <3> QED
      BY <3>1, <3>3 DEF Open
  <2> QED
    BY <1>3, <2>1, <2>2 DEF Open
<1>4. ASSUME AliveLast(q, A) PROVE AliveLast(y, B)
  <2> SUFFICES ASSUME NEW t \in Targets, NEW r \in Pids, <<t, r>> \in B
               PROVE  \/ \A i \in DOMAIN y : ~About(y[i], r)
                      \/ \E i \in DOMAIN y :
                           /\ y[i] = Packet("NEW_PROCESS", t, r)
                           /\ \A j \in DOMAIN y : i < j => ~About(y[j], r)
    BY DEF AliveLast
  <2>1. r # p
    OBVIOUS
  <2>2. <<t, r>> \in A /\ ~About(x, r)
    BY <2>1, <1>1
  <2>3. CASE \A i \in DOMAIN q : ~About(q[i], r)
    BY <2>2, <2>3
  <2>4. CASE \E i \in DOMAIN q : /\ q[i] = Packet("NEW_PROCESS", t, r)
                                 /\ \A j \in DOMAIN q : i < j => ~About(q[j], r)
    BY <2>2, <2>4
  <2> QED
    BY <1>4, <2>2, <2>3, <2>4 DEF AliveLast
<1>5. ASSUME AliveLast(q, A), Alternate(q) PROVE Alternate(y)
  <2> SUFFICES ASSUME NEW i \in DOMAIN y, NEW j \in DOMAIN y, NEW r \in Pids,
                      i < j, Exit(y[i], r), Exit(y[j], r), ~Refused(y, j)
               PROVE  \E k \in DOMAIN y :
                        i < k /\ k < j /\ About(y[k], r) /\ ~Exit(y[k], r)
    BY DEF Alternate
  <2>1. CASE j \in 1..Len(q)
    <3>1. Exit(q[i], r) /\ Exit(q[j], r) /\ ~Refused(q, j) /\ i \in DOMAIN q
      BY <2>1, <1>2
    <3>2. PICK k \in DOMAIN q : i < k /\ k < j /\ About(q[k], r) /\ ~Exit(q[k], r)
      BY <2>1, <3>1, <1>5 DEF Alternate
    <3> QED
      BY <3>2
  <2>2. CASE j = Len(q) + 1
    <3>1. r = p /\ i \in 1..Len(q) /\ Exit(q[i], r) /\ About(q[i], r)
      BY <2>2, <1>1, PacketAbout
    <3>2. PICK k \in DOMAIN q : /\ q[k] = Packet("NEW_PROCESS", s, p)
                                /\ \A m \in DOMAIN q : k < m => ~About(q[m], p)
      BY <3>1, <1>5 DEF AliveLast
    <3>3. About(q[k], p) /\ ~Exit(q[k], p)
      BY <3>2, PacketAbout
    <3>4. ~(k < i) /\ k # i
      BY <3>1, <3>2, <3>3
    <3> QED
      BY <2>2, <3>1, <3>3, <3>4
  <2> QED
    BY <2>1, <2>2
<1> QED
  BY <1>3, <1>4, <1>5

(* A process is refused that was not alive.                                  *)
LEMMA RefusedPosted ==
  ASSUME NEW q, NEW A, NEW y, NEW s \in Targets, NEW p \in Pids,
         Extended(q, Packet("EXIT_PROCESS", s, p), y),
         Len(q) > 0, q[Len(q)].event = "ACTIVE_PROCESS_LIMIT",
         \A t \in Targets : <<t, p>> \notin A
  PROVE  /\ \A r \in Pids : Open(y, A, r) => Open(q, A, r)
         /\ AliveLast(q, A) => AliveLast(y, A)
         /\ Alternate(q) => Alternate(y)
<1> DEFINE x == Packet("EXIT_PROCESS", s, p)
<1>1. About(x, p) /\ \A r : About(x, r) => r = p
  BY DEF About, Packet
<1> HIDE DEF x
<1> Extended(q, x, y)
  BY DEF x
<1> USE DEF Extended
<1>2. \A i \in 1..Len(q) : Refused(y, i) <=> Refused(q, i)
  BY DEF Refused
<1>6. Refused(y, Len(q) + 1)
  <2>1. Len(q) \in 1..Len(q) /\ Len(q) + 1 > 1 /\ (Len(q) + 1) - 1 = Len(q)
    OBVIOUS
  <2>2. y[Len(q)] = q[Len(q)]
    BY <2>1
  <2> QED
    BY <2>1, <2>2 DEF Refused
<1>3. ASSUME NEW r \in Pids, Open(y, A, r) PROVE Open(q, A, r)
  <2>1. CASE OpenEnd(y, r)
    <3>1. PICK i \in DOMAIN y : Exit(y[i], r) /\ ~Refused(y, i)
            /\ \A j \in DOMAIN y : j < i => ~About(y[j], r)
      BY <2>1 DEF OpenEnd
    <3>2. i \in 1..Len(q)
      BY <3>1, <1>6
    <3>3. OpenEnd(q, r)
      BY <3>1, <3>2, <1>2 DEF OpenEnd
    <3> QED
      BY <3>3 DEF Open
  <2>2. CASE \E t \in Targets : <<t, r>> \in A /\ \A i \in DOMAIN y : ~About(y[i], r)
    <3>1. \A i \in DOMAIN y : ~About(y[i], r)
      BY <2>2
    <3>2. \A i \in DOMAIN q : ~About(q[i], r)
      BY <3>1
    <3> QED
      BY <2>2, <3>2 DEF Open
  <2> QED
    BY <1>3, <2>1, <2>2 DEF Open
<1>4. ASSUME AliveLast(q, A) PROVE AliveLast(y, A)
  <2> SUFFICES ASSUME NEW t \in Targets, NEW r \in Pids, <<t, r>> \in A
               PROVE  \/ \A i \in DOMAIN y : ~About(y[i], r)
                      \/ \E i \in DOMAIN y :
                           /\ y[i] = Packet("NEW_PROCESS", t, r)
                           /\ \A j \in DOMAIN y : i < j => ~About(y[j], r)
    BY DEF AliveLast
  <2>1. r # p
    OBVIOUS
  <2>2. ~About(x, r)
    BY <2>1, <1>1
  <2>3. CASE \A i \in DOMAIN q : ~About(q[i], r)
    BY <2>2, <2>3
  <2>4. CASE \E i \in DOMAIN q : /\ q[i] = Packet("NEW_PROCESS", t, r)
                                 /\ \A j \in DOMAIN q : i < j => ~About(q[j], r)
    BY <2>2, <2>4
  <2> QED
    BY <1>4, <2>3, <2>4 DEF AliveLast
<1>5. ASSUME Alternate(q) PROVE Alternate(y)
  <2> SUFFICES ASSUME NEW i \in DOMAIN y, NEW j \in DOMAIN y, NEW r \in Pids,
                      i < j, Exit(y[i], r), Exit(y[j], r), ~Refused(y, j)
               PROVE  \E k \in DOMAIN y :
                        i < k /\ k < j /\ About(y[k], r) /\ ~Exit(y[k], r)
    BY DEF Alternate
  <2>1. i \in 1..Len(q) /\ j \in 1..Len(q)
    BY <1>6
  <2>2. Exit(q[i], r) /\ Exit(q[j], r) /\ ~Refused(q, j)
    BY <2>1, <1>2
  <2>3. PICK k \in DOMAIN q : i < k /\ k < j /\ About(q[k], r) /\ ~Exit(q[k], r)
    BY <2>1, <2>2, <1>5 DEF Alternate
  <2> QED
    BY <2>3
<1> QED
  BY <1>3, <1>4, <1>5

(* The worker is done with the first packet.                                 *)
LEMMA PacketTaken ==
  ASSUME NEW q, NEW A, NEW y, Shortened(q, y), AliveLast(q, A), Alternate(q)
  PROVE  /\ AliveLast(y, A) /\ Alternate(y)
         /\ \A r \in Pids : Open(y, A, r) =>
              \/ Open(q, A, r) /\ ~Exit(q[1], r)
              \/ q[1].event = "NEW_PROCESS" /\ q[1].ovl = r
              \/ q[1].event = "ACTIVE_PROCESS_LIMIT" /\ q[2].ovl = r
         /\ \A r \in Pids : Exit(q[1], r) => Open(q, A, r)
<1> USE DEF Shortened
<1>1. /\ 1 \in DOMAIN q
      /\ \A i \in DOMAIN y : i + 1 \in DOMAIN q /\ y[i] = q[i + 1]
      /\ \A i \in DOMAIN q : i # 1 => i - 1 \in DOMAIN y /\ y[i - 1] = q[i]
  OBVIOUS
<1>2. \A i \in DOMAIN y : i # 1 => (Refused(y, i) <=> Refused(q, i + 1))
  <2> SUFFICES ASSUME NEW i \in DOMAIN y, i # 1
               PROVE  Refused(y, i) <=> Refused(q, i + 1)
    OBVIOUS
  <2>1. i > 1 /\ i + 1 > 1 /\ (i + 1) - 1 = i /\ i - 1 \in DOMAIN y /\ (i - 1) + 1 = i
    OBVIOUS
  <2>2. y[i - 1] = q[i]
    BY <2>1, <1>1
  <2> QED
    BY <2>1, <2>2 DEF Refused
<1>3. ~Refused(q, 1) /\ ~Refused(y, 1)
  BY DEF Refused
<1>4. \A r : Exit(q[1], r) => OpenEnd(q, r)
  BY <1>1, <1>3 DEF OpenEnd
<1>5. AliveLast(y, A)
  <2> SUFFICES ASSUME NEW t \in Targets, NEW r \in Pids, <<t, r>> \in A
               PROVE  \/ \A i \in DOMAIN y : ~About(y[i], r)
                      \/ \E i \in DOMAIN y :
                           /\ y[i] = Packet("NEW_PROCESS", t, r)
                           /\ \A j \in DOMAIN y : i < j => ~About(y[j], r)
    BY DEF AliveLast
  <2>1. CASE \A i \in DOMAIN q : ~About(q[i], r)
    BY <2>1, <1>1
  <2>2. ASSUME NEW i \in DOMAIN q, q[i] = Packet("NEW_PROCESS", t, r),
               \A j \in DOMAIN q : i < j => ~About(q[j], r)
        PROVE  \/ \A k \in DOMAIN y : ~About(y[k], r)
               \/ \E k \in DOMAIN y :
                    /\ y[k] = Packet("NEW_PROCESS", t, r)
                    /\ \A j \in DOMAIN y : k < j => ~About(y[j], r)
    <3>1. CASE i = 1
      <4>1. \A k \in DOMAIN y : i < k + 1
        BY <3>1
      <4>2. \A k \in DOMAIN y : ~About(y[k], r)
        BY <2>2, <4>1, <1>1
      <4> QED
        BY <4>2
    <3>2. CASE i # 1
      <4>1. i - 1 \in DOMAIN y /\ y[i - 1] = Packet("NEW_PROCESS", t, r)
        BY <2>2, <3>2, <1>1
      <4>2. \A j \in DOMAIN y : i - 1 < j => i < j + 1
        OBVIOUS
      <4>3. \A j \in DOMAIN y : i - 1 < j => ~About(y[j], r)
        BY <2>2, <4>2, <1>1
      <4> QED
        BY <4>1, <4>3
    <3> QED
      BY <3>1, <3>2
  <2> QED
    BY <2>1, <2>2 DEF AliveLast
<1>6. Alternate(y)
  <2> SUFFICES ASSUME NEW i \in DOMAIN y, NEW j \in DOMAIN y, NEW r \in Pids,
                      i < j, Exit(y[i], r), Exit(y[j], r), ~Refused(y, j)
               PROVE  \E k \in DOMAIN y :
                        i < k /\ k < j /\ About(y[k], r) /\ ~Exit(y[k], r)
    BY DEF Alternate
  <2>1. /\ i + 1 \in DOMAIN q /\ j + 1 \in DOMAIN q /\ i + 1 < j + 1
        /\ Exit(q[i + 1], r) /\ Exit(q[j + 1], r)
    BY <1>1
  <2>2. ~Refused(q, j + 1)
    <3>1. j # 1
      OBVIOUS
    <3> QED
      BY <3>1, <1>2
  <2>3. PICK k \in DOMAIN q : /\ i + 1 < k /\ k < j + 1
                              /\ About(q[k], r) /\ ~Exit(q[k], r)
    BY <2>1, <2>2 DEF Alternate
  <2>4. k # 1 /\ i < k - 1 /\ k - 1 < j
    BY <2>3
  <2> QED
    BY <2>3, <2>4, <1>1
<1>7. ASSUME NEW r \in Pids, Open(y, A, r)
      PROVE  \/ Open(q, A, r)
             \/ q[1].event = "NEW_PROCESS" /\ q[1].ovl = r
             \/ q[1].event = "ACTIVE_PROCESS_LIMIT" /\ q[2].ovl = r
  <2>1. CASE About(q[1], r)
    <3>1. Exit(q[1], r) \/ (q[1].event = "NEW_PROCESS" /\ q[1].ovl = r)
      BY <2>1 DEF About, Exit
    <3> QED
      BY <3>1, <1>4 DEF Open
  <2>2. CASE ~About(q[1], r)
    <3>1. ASSUME NEW t \in Targets, <<t, r>> \in A, \A i \in DOMAIN y : ~About(y[i], r)
          PROVE  Open(q, A, r)
      <4>1. \A i \in DOMAIN q : ~About(q[i], r)
        BY <2>2, <3>1, <1>1
      <4> QED
        BY <3>1, <4>1 DEF Open
    <3>2. ASSUME NEW i \in DOMAIN y, Exit(y[i], r), ~Refused(y, i),
                 \A j \in DOMAIN y : j < i => ~About(y[j], r)
          PROVE  \/ Open(q, A, r)
                 \/ q[1].event = "ACTIVE_PROCESS_LIMIT" /\ q[2].ovl = r
      <4>1. i + 1 \in DOMAIN q /\ Exit(q[i + 1], r)
        BY <3>2, <1>1
      <4>2. ASSUME NEW j \in DOMAIN q, j < i + 1 PROVE ~About(q[j], r)
        <5>1. j # 1 => j - 1 < i /\ j - 1 \in DOMAIN y /\ y[j - 1] = q[j]
          BY <4>2, <1>1
        <5> QED
          BY <5>1, <3>2, <2>2
      <4>3. CASE ~Refused(q, i + 1)
        <5>1. OpenEnd(q, r)
          BY <4>1, <4>2, <4>3 DEF OpenEnd
        <5> QED
          BY <5>1 DEF Open
      <4>4. CASE Refused(q, i + 1)
        <5>1. i = 1
          BY <4>4, <3>2, <1>2
        <5>2. q[1].event = "ACTIVE_PROCESS_LIMIT"
          BY <4>4, <5>1 DEF Refused
        <5>3. q[2].ovl = r
          BY <4>1, <5>1 DEF Exit
        <5> QED
          BY <5>2, <5>3
      <4> QED
        BY <4>3, <4>4
    <3> QED
      BY <1>7, <3>1, <3>2 DEF Open, OpenEnd
  <2> QED
    BY <2>1, <2>2
<1>8. ASSUME NEW r \in Pids, Open(y, A, r) PROVE ~Exit(q[1], r)
  <2> SUFFICES ASSUME Exit(q[1], r) PROVE FALSE
    OBVIOUS
  <2>0. About(q[1], r) /\ q[1].event = "EXIT_PROCESS"
    BY PacketAbout DEF Exit
  <2>1. ASSUME NEW t \in Targets, <<t, r>> \in A, \A i \in DOMAIN y : ~About(y[i], r)
        PROVE  FALSE
    <3>1. PICK i \in DOMAIN q : q[i] = Packet("NEW_PROCESS", t, r)
      BY <2>0, <2>1, <1>1 DEF AliveLast
    <3>2. i # 1 /\ About(q[i], r)
      BY <3>1, PacketAbout
    <3> QED
      BY <3>2, <2>1, <1>1
  <2>2. ASSUME NEW i \in DOMAIN y, Exit(y[i], r), ~Refused(y, i),
               \A j \in DOMAIN y : j < i => ~About(y[j], r)
        PROVE  FALSE
    <3>1. i + 1 \in DOMAIN q /\ Exit(q[i + 1], r) /\ 1 < i + 1
      BY <2>2, <1>1
    <3>2. ~Refused(q, i + 1)
      <4>1. CASE i = 1
        BY <4>1, <2>0 DEF Refused
      <4>2. CASE i # 1
        BY <4>2, <2>2, <1>2
      <4> QED
        BY <4>1, <4>2
    <3>3. PICK k \in DOMAIN q : 1 < k /\ k < i + 1 /\ About(q[k], r)
      BY <3>1, <3>2, <1>1 DEF Alternate
    <3>4. k # 1 /\ k - 1 < i
      BY <3>3
    <3> QED
      BY <3>3, <3>4, <2>2, <1>1
  <2> QED
    BY <1>8, <2>1, <2>2 DEF Open, OpenEnd
<1> QED
  BY <1>4, <1>5, <1>6, <1>7, <1>8 DEF Open

(* When a job refused a process its target's main process, m[s], had begun   *)
(* before and ends after: the worker counts the refused one in while it has  *)
(* another one counted.                                                      *)
EndsLater(q, i, p) == \E j \in DOMAIN q :
  /\ i < j /\ Exit(q[j], p) /\ ~Refused(q, j)
  /\ \A k \in DOMAIN q : i < k /\ k < j => ~About(q[k], p)
Limit(x) == x.event = "ACTIVE_PROCESS_LIMIT"
LimitOpen(q, A, m) == \A i \in DOMAIN q : Limit(q[i]) =>
  /\ i + 1 \in DOMAIN q /\ q[i + 1].event = "EXIT_PROCESS"
  /\ \A j \in DOMAIN q : i < j => q[j] # Packet("NEW_PROCESS", q[i].key, m[q[i].key])
  /\ <<q[i].key, m[q[i].key]>> \in A \/ EndsLater(q, i, m[q[i].key])

LEMMA StillEnds ==
  ASSUME NEW q, NEW x, NEW y, Extended(q, x, y), NEW i \in DOMAIN q, NEW p,
         EndsLater(q, i, p)
  PROVE  EndsLater(y, i, p)
<1> USE DEF Extended
<1>1. PICK j \in DOMAIN q :
        /\ i < j /\ Exit(q[j], p) /\ ~Refused(q, j)
        /\ \A k \in DOMAIN q : i < k /\ k < j => ~About(q[k], p)
  BY DEF EndsLater
<1>2. j \in DOMAIN y /\ Exit(y[j], p) /\ ~Refused(y, j)
  BY <1>1 DEF Refused
<1>3. \A k \in DOMAIN y : i < k /\ k < j => ~About(y[k], p)
  BY <1>1
<1> QED
  BY <1>1, <1>2, <1>3 DEF EndsLater

LEMMA LimitPosted ==
  ASSUME NEW q, NEW A, NEW m, NEW x, NEW y, NEW B, Extended(q, x, y),
         LimitOpen(q, A, m), ~Limit(x),
         \A i \in DOMAIN q : Limit(q[i]) =>
           /\ x # Packet("NEW_PROCESS", q[i].key, m[q[i].key])
           /\ <<q[i].key, m[q[i].key]>> \in A =>
                \/ <<q[i].key, m[q[i].key]>> \in B
                \/ EndsLater(y, i, m[q[i].key])
  PROVE  LimitOpen(y, B, m)
<1> SUFFICES ASSUME NEW i \in DOMAIN y, Limit(y[i])
             PROVE  /\ i + 1 \in DOMAIN y /\ y[i + 1].event = "EXIT_PROCESS"
                    /\ \A j \in DOMAIN y : i < j =>
                         y[j] # Packet("NEW_PROCESS", y[i].key, m[y[i].key])
                    /\ \/ <<y[i].key, m[y[i].key]>> \in B
                       \/ EndsLater(y, i, m[y[i].key])
  BY DEF LimitOpen
<1> USE DEF Extended
<1>1. i \in DOMAIN q /\ y[i] = q[i] /\ Limit(q[i])
  OBVIOUS
<1> DEFINE s == q[i].key
<1>2. /\ i + 1 \in DOMAIN q /\ q[i + 1].event = "EXIT_PROCESS"
      /\ \A j \in DOMAIN q : i < j => q[j] # Packet("NEW_PROCESS", s, m[s])
      /\ <<s, m[s]>> \in A \/ EndsLater(q, i, m[s])
  BY <1>1 DEF LimitOpen
<1>3. /\ x # Packet("NEW_PROCESS", s, m[s])
      /\ <<s, m[s]>> \in A => <<s, m[s]>> \in B \/ EndsLater(y, i, m[s])
  BY <1>1
<1>4. EndsLater(q, i, m[s]) => EndsLater(y, i, m[s])
  BY <1>1, StillEnds
<1>5. y[i].key = s
  BY <1>1
<1> HIDE DEF s
<1>6. \A j \in DOMAIN y : i < j => y[j] # Packet("NEW_PROCESS", s, m[s])
  BY <1>2, <1>3
<1>7. <<s, m[s]>> \in B \/ EndsLater(y, i, m[s])
  BY <1>2, <1>3, <1>4
<1>8. i + 1 \in DOMAIN y /\ y[i + 1].event = "EXIT_PROCESS"
  BY <1>2
<1> QED
  BY <1>5, <1>6, <1>7, <1>8

(* The main process of a target that was refused one ends.                   *)
LEMMA EndFollows ==
  ASSUME NEW q, NEW A, NEW m, NEW y, NEW s \in Targets, NEW p \in Pids,
         Extended(q, Packet("EXIT_PROCESS", s, p), y), AliveLast(q, A),
         LimitOpen(q, A, m), <<s, p>> \in A,
         NEW i \in DOMAIN q, Limit(q[i]), q[i].key = s, m[s] = p
  PROVE  EndsLater(y, i, p)
<1> USE DEF Extended
<1> DEFINE j == Len(q) + 1
<1>1. j \in DOMAIN y /\ i < j /\ Exit(y[j], p)
  BY DEF Exit, Packet
<1>2. ~Refused(y, j)
  <2>1. ~Limit(q[Len(q)])
    <3>1. Len(q) + 1 \notin DOMAIN q
      OBVIOUS
    <3>2. Len(q) \in DOMAIN q
      OBVIOUS
    <3> QED
      BY <3>1, <3>2 DEF LimitOpen
  <2>2. j - 1 = Len(q) /\ y[Len(q)] = q[Len(q)]
    OBVIOUS
  <2> QED
    BY <2>1, <2>2 DEF Refused, Limit
<1>3. ASSUME NEW k \in DOMAIN q, i < k PROVE ~About(q[k], p)
  <2>1. CASE \A n \in DOMAIN q : ~About(q[n], p)
    BY <2>1
  <2>2. CASE \E n \in DOMAIN q : /\ q[n] = Packet("NEW_PROCESS", s, p)
                                 /\ \A l \in DOMAIN q : n < l => ~About(q[l], p)
    <3>1. PICK n \in DOMAIN q : /\ q[n] = Packet("NEW_PROCESS", s, p)
                                /\ \A l \in DOMAIN q : n < l => ~About(q[l], p)
      BY <2>2
    <3>2. ~(i < n)
      BY <3>1 DEF LimitOpen
    <3>3. n < k
      BY <1>3, <3>2
    <3> QED
      BY <3>1, <3>3
  <2> QED
    BY <2>1, <2>2 DEF AliveLast
<1>4. \A k \in DOMAIN y : i < k /\ k < j => ~About(y[k], p)
  BY <1>3
<1> QED
  BY <1>1, <1>2, <1>4 DEF EndsLater

(* A job refuses a process while the target's main process is alive.         *)
LEMMA LimitRefused ==
  ASSUME NEW q, NEW A, NEW m, NEW y, NEW z, NEW s, NEW p,
         Extended(q, Packet("ACTIVE_PROCESS_LIMIT", s, NoPid), y),
         Extended(y, Packet("EXIT_PROCESS", s, p), z),
         LimitOpen(q, A, m), <<s, m[s]>> \in A
  PROVE  LimitOpen(z, A, m)
<1> USE DEF Extended
<1> DEFINE l == Packet("ACTIVE_PROCESS_LIMIT", s, NoPid)
           x == Packet("EXIT_PROCESS", s, p)
<1>0. /\ Limit(l) /\ ~Limit(x) /\ l.key = s /\ x.event = "EXIT_PROCESS"
      /\ \A t, r : l # Packet("NEW_PROCESS", t, r) /\ x # Packet("NEW_PROCESS", t, r)
  BY DEF Limit, Packet
<1> SUFFICES ASSUME NEW i \in DOMAIN z, Limit(z[i])
             PROVE  /\ i + 1 \in DOMAIN z /\ z[i + 1].event = "EXIT_PROCESS"
                    /\ \A j \in DOMAIN z : i < j =>
                         z[j] # Packet("NEW_PROCESS", z[i].key, m[z[i].key])
                    /\ \/ <<z[i].key, m[z[i].key]>> \in A
                       \/ EndsLater(z, i, m[z[i].key])
  BY DEF LimitOpen
<1> HIDE DEF l, x
<1>1. /\ Extended(q, l, y) /\ Extended(y, x, z)
  BY DEF l, x
<1>2. /\ Len(y) = Len(q) + 1 /\ Len(z) = Len(q) + 2
      /\ z[Len(q) + 1] = l /\ z[Len(q) + 2] = x
      /\ DOMAIN z = 1..(Len(q) + 2)
      /\ \A j \in DOMAIN q : z[j] = q[j] /\ j \in DOMAIN z
  BY <1>1
<1>3. CASE i \in DOMAIN q
  <2> DEFINE t == q[i].key
  <2>1. z[i] = q[i] /\ Limit(q[i])
    BY <1>2, <1>3
  <2>2. /\ i + 1 \in DOMAIN q /\ q[i + 1].event = "EXIT_PROCESS"
        /\ \A j \in DOMAIN q : i < j => q[j] # Packet("NEW_PROCESS", t, m[t])
        /\ <<t, m[t]>> \in A \/ EndsLater(q, i, m[t])
    BY <1>3, <2>1 DEF LimitOpen
  <2>3. EndsLater(q, i, m[t]) => EndsLater(z, i, m[t])
    <3>1. EndsLater(q, i, m[t]) => EndsLater(y, i, m[t])
      BY <1>1, <1>3, StillEnds
    <3>2. i \in DOMAIN y
      BY <1>3
    <3> QED
      BY <1>1, <3>1, <3>2, StillEnds
  <2> HIDE DEF t
  <2>4. \A j \in DOMAIN z : i < j => z[j] # Packet("NEW_PROCESS", t, m[t])
    <3> SUFFICES ASSUME NEW j \in DOMAIN z, i < j
                 PROVE  z[j] # Packet("NEW_PROCESS", t, m[t])
      OBVIOUS
    <3>1. j \in DOMAIN q \/ j = Len(q) + 1 \/ j = Len(q) + 2
      BY <1>2
    <3> QED
      BY <3>1, <1>0, <1>2, <2>2
  <2>5. z[i].key = t
    BY <2>1 DEF t
  <2>6. i + 1 \in DOMAIN z /\ z[i + 1].event = "EXIT_PROCESS"
    BY <1>2, <2>2
  <2> QED
    BY <2>2, <2>3, <2>4, <2>5, <2>6
<1>4. CASE i = Len(q) + 1
  <2>1. z[i].key = s /\ i + 1 = Len(q) + 2
    BY <1>0, <1>2, <1>4
  <2>2. \A j \in DOMAIN z : i < j => j = Len(q) + 2
    BY <1>2, <1>4
  <2>3. i + 1 \in DOMAIN z /\ z[i + 1].event = "EXIT_PROCESS"
    BY <1>0, <1>2, <2>1
  <2>4. \A j \in DOMAIN z : i < j => z[j] # Packet("NEW_PROCESS", s, m[s])
    BY <1>0, <1>2, <2>2
  <2> QED
    BY <2>1, <2>3, <2>4
<1>5. i # Len(q) + 2
  BY <1>0, <1>2
<1> QED
  BY <1>2, <1>3, <1>4, <1>5

LEMMA LimitTaken ==
  ASSUME NEW q, NEW A, NEW m, NEW y, Shortened(q, y), LimitOpen(q, A, m)
  PROVE  LimitOpen(y, A, m)
<1> SUFFICES ASSUME NEW i \in DOMAIN y, Limit(y[i])
             PROVE  /\ i + 1 \in DOMAIN y /\ y[i + 1].event = "EXIT_PROCESS"
                    /\ \A j \in DOMAIN y : i < j =>
                         y[j] # Packet("NEW_PROCESS", y[i].key, m[y[i].key])
                    /\ \/ <<y[i].key, m[y[i].key]>> \in A
                       \/ EndsLater(y, i, m[y[i].key])
  BY DEF LimitOpen
<1> USE DEF Shortened
<1>1. /\ \A k \in DOMAIN y : k + 1 \in DOMAIN q /\ y[k] = q[k + 1]
      /\ \A k \in DOMAIN q : k # 1 => k - 1 \in DOMAIN y /\ y[k - 1] = q[k]
  OBVIOUS
<1> DEFINE s == y[i].key
           n == i + 1
<1>2. n \in DOMAIN q /\ q[n] = y[i] /\ n # 1
  BY <1>1
<1>3. /\ n + 1 \in DOMAIN q /\ q[n + 1].event = "EXIT_PROCESS"
      /\ \A j \in DOMAIN q : n < j => q[j] # Packet("NEW_PROCESS", s, m[s])
      /\ <<s, m[s]>> \in A \/ EndsLater(q, n, m[s])
  BY <1>2 DEF LimitOpen
<1>4. i + 1 \in DOMAIN y /\ y[i + 1].event = "EXIT_PROCESS"
  <2>1. n + 1 # 1 /\ (n + 1) - 1 = i + 1
    OBVIOUS
  <2> QED
    BY <1>1, <1>3, <2>1
<1>5. \A j \in DOMAIN y : i < j => y[j] # Packet("NEW_PROCESS", s, m[s])
  <2>1. \A j \in DOMAIN y : i < j => n < j + 1
    OBVIOUS
  <2> QED
    BY <1>1, <1>3, <2>1
<1>6. ASSUME EndsLater(q, n, m[s]) PROVE EndsLater(y, i, m[s])
  <2> HIDE DEF s
  <2>1. PICK j \in DOMAIN q :
          /\ n < j /\ Exit(q[j], m[s]) /\ ~Refused(q, j)
          /\ \A k \in DOMAIN q : n < k /\ k < j => ~About(q[k], m[s])
    BY <1>6 DEF EndsLater
  <2>2. j # 1 /\ i < j - 1 /\ j - 1 \in DOMAIN y /\ Exit(y[j - 1], m[s])
    BY <2>1, <1>1
  <2>3. ~Refused(y, j - 1)
    <3>1. (j - 1) - 1 \in DOMAIN y /\ ((j - 1) - 1) + 1 = j - 1 /\ j > 1
      BY <2>1, <2>2
    <3>2. y[(j - 1) - 1] = q[j - 1]
      BY <1>1, <3>1
    <3> QED
      BY <2>1, <3>1, <3>2 DEF Refused
  <2>4. \A k \in DOMAIN y : i < k /\ k < j - 1 => ~About(y[k], m[s])
    <3>1. \A k \in DOMAIN y : i < k /\ k < j - 1 => n < k + 1 /\ k + 1 < j
      OBVIOUS
    <3> QED
      BY <1>1, <2>1, <3>1
  <2> QED
    BY <2>2, <2>3, <2>4 DEF EndsLater
<1> QED
  BY <1>3, <1>4, <1>5, <1>6

(* As the worker gets to an ACTIVE_PROCESS_LIMIT it has a process counted.   *)
LEMMA LimitMeansOpen ==
  ASSUME NEW q \in Seq(Packets), NEW A, NEW m, AliveLast(q, A), LimitOpen(q, A, m),
         q # <<>>, Limit(q[1]), q[1].key \in Targets, m[q[1].key] \in Pids
  PROVE  Open(q, A, m[q[1].key])
<1> DEFINE s == q[1].key
           p == m[s]
<1>0. 1 \in DOMAIN q /\ DOMAIN q = 1..Len(q) /\ Len(q) \in Nat
  OBVIOUS
<1>1. /\ \A j \in DOMAIN q : 1 < j => q[j] # Packet("NEW_PROCESS", s, p)
      /\ <<s, p>> \in A \/ EndsLater(q, 1, p)
  BY <1>0 DEF LimitOpen
<1>2. ~About(q[1], p)
  BY DEF Limit, About
<1> HIDE DEF s, p
<1> s \in Targets /\ p \in Pids
  BY DEF s, p
<1>3. CASE <<s, p>> \in A
  <2>1. ASSUME NEW i \in DOMAIN q, q[i] = Packet("NEW_PROCESS", s, p)
        PROVE  FALSE
    <3>1. i = 1
      BY <1>0, <1>1, <2>1
    <3> QED
      BY <1>2, <2>1, <3>1, PacketAbout
  <2>2. \A i \in DOMAIN q : ~About(q[i], p)
    BY <1>3, <2>1 DEF AliveLast
  <2> QED
    BY <1>3, <2>2 DEF Open, s, p
<1>4. CASE EndsLater(q, 1, p)
  <2>1. PICK j \in DOMAIN q :
          /\ 1 < j /\ Exit(q[j], p) /\ ~Refused(q, j)
          /\ \A k \in DOMAIN q : 1 < k /\ k < j => ~About(q[k], p)
    BY <1>4 DEF EndsLater
  <2>2. \A k \in DOMAIN q : k < j => ~About(q[k], p)
    BY <1>0, <1>2, <2>1
  <2>3. OpenEnd(q, p)
    BY <2>1, <2>2 DEF OpenEnd
  <2> QED
    BY <2>3 DEF Open, s, p
<1> QED
  BY <1>1, <1>3, <1>4

(* The broker's state behind the packets: processes are in one job only, and *)
(* a job that admits one process has that of its target.                     *)
Apart ==
  /\ \A s, t \in Targets : s # t => procs[s] \intersect procs[t] = {}
  /\ \A s \in Targets : s > spawned => procs[s] = {}
  /\ \A s \in Targets : s <= spawned => pid[s] \in Pids
  /\ \A s \in Targets : level[s] = "limited" => procs[s] \subseteq {pid[s]}
  /\ LockHeld => procs[spawned] = {pid[spawned]}

AtHand ==
  /\ worker \in {"start", "loop", "done"} => packet = NoPacket
  /\ worker = "counted" => packet.event = "NEW_PROCESS"
  /\ worker = "erased" => packet.event = "EXIT_PROCESS"
  /\ worker = "freeing" => packet.event = "ACTIVE_PROCESS_ZERO"

LEMMA AtHandStep ==
  ASSUME Typed, AtHand, [Next]_vars
  PROVE  AtHand'
<1>1. CASE TargetEventsThread
  <2>1. CASE GetQueuedCompletionStatus
    BY <2>1 DEF GetQueuedCompletionStatus, AtHand
  <2>2. CASE LookUpNewProcess \/ EraseExitedProcess \/ WorkerClosesJob
    BY <2>2 DEF LookUpNewProcess, EraseExitedProcess, WorkerClosesJob, Got, AtHand
  <2>3. CASE \/ CountNewProcess \/ CountExitedProcess \/ ActiveProcessLimit
             \/ ProcessMemoryLimit \/ WorkerNotifiesPolicy \/ WorkerNotifiesLate
             \/ NothingToFree
    BY <2>3 DEF CountNewProcess, CountExitedProcess, ActiveProcessLimit,
       ProcessMemoryLimit, WorkerNotifiesPolicy, WorkerNotifiesLate,
       NothingToFree, PacketDone, AtHand
  <2>4. CASE WorkerStarts \/ WorkerQuits
    BY <2>4 DEF WorkerStarts, WorkerQuits, AtHand
  <2> QED
    BY <1>1, <2>1, <2>2, <2>3, <2>4 DEF TargetEventsThread
<1>2. CASE Caller \/ (\E s \in Targets : Kernel(s)) \/ UNCHANGED vars
  <2>1. UNCHANGED <<worker, packet>>
    BY <1>2 DEF Caller, SpawnTarget, SpawnCleanup, AddTarget, TrackJob, LeakPolicy,
       WaitForAllTargets, WaitReturns, DropPolicy, DestroyBroker, WorkerJoined,
       JoinTimesOut, ClearClosesJob, ClearNotifiesPolicy, ClearDestroys,
       ResetThreadPool, Kernel, ProcessExits, ChildCreated, ChildRefused,
       MemoryExceeded, vars
  <2> QED
    BY <2>1 DEF AtHand
<1> QED
  BY <1>1, <1>2 DEF Next

LEMMA FreePid ==
  ASSUME NEW p \in FreePids
  PROVE  p \in Pids /\ (\A t \in Targets : p \notin procs[t])
         /\ \A t \in Targets : object[t] = "live" => p # pid[t]
<1> DEFINE U == UNION {procs[s] : s \in Targets}
           L == {pid[s] : s \in {t \in Targets : object[t] = "live"}}
<1>0. FreePids = Pids \ (U \union L)
  BY DEF FreePids
<1>1. p \in Pids /\ p \notin U /\ p \notin L
  <2> HIDE DEF U, L
  <2> QED
    BY <1>0
<1>2. ASSUME NEW t \in Targets PROVE p \notin procs[t]
  <2>1. procs[t] \in {procs[s] : s \in Targets}
    OBVIOUS
  <2> QED
    BY <1>1, <2>1
<1>3. ASSUME NEW t \in Targets, object[t] = "live" PROVE p # pid[t]
  <2>1. t \in {u \in Targets : object[u] = "live"}
    BY <1>3
  <2>2. pid[t] \in {pid[s] : s \in {u \in Targets : object[u] = "live"}}
    BY <2>1
  <2> QED
    BY <1>1, <2>2
<1> QED
  BY <1>1, <1>2, <1>3

LEMMA ApartStep ==
  ASSUME Typed, OpenJobs, Apart, [Next]_vars
  PROVE  Apart'
<1> /\ TypeOK /\ spawned \in Nat
    /\ procs \in [Targets -> SUBSET Pids]
    /\ pid \in [Targets -> Pids \union {NoPid}]
    /\ level \in [Targets -> JobLevels]
  BY DEF Typed, TypeOK
<1>1. CASE SpawnTarget
  <2> DEFINE n == spawned + 1
  <2>1. /\ n \in Targets /\ main' = "create" /\ spawned' = n /\ spawned < n
        /\ \A s \in Targets : s \in Int
    BY <1>1, BoundsAssumption DEF SpawnTarget, TypeOK, Targets
  <2>2. PICK l \in Levels, p \in FreePids :
          /\ level' = [level EXCEPT ![n] = l]
          /\ pid' = [pid EXCEPT ![n] = p]
          /\ procs' = [procs EXCEPT ![n] = {p}]
    BY <1>1 DEF SpawnTarget
  <2>3. p \in Pids /\ \A t \in Targets : p \notin procs[t]
    BY FreePid
  <2>4. /\ procs'[n] = {p} /\ pid'[n] = p
        /\ \A t \in Targets : t # n =>
             procs'[t] = procs[t] /\ pid'[t] = pid[t] /\ level'[t] = level[t]
    BY <2>1, <2>2
  <2>5. \A s \in Targets : (s <= n => s = n \/ s <= spawned) /\ (s > n => s > spawned)
    BY <2>1
  <2> HIDE DEF n
  <2>6. \A s, t \in Targets : s # t => procs'[s] \intersect procs'[t] = {}
    BY <2>3, <2>4 DEF Apart
  <2>7. /\ \A s \in Targets : s > n => procs'[s] = {}
        /\ \A s \in Targets : s <= n => pid'[s] \in Pids
    BY <2>1, <2>3, <2>4, <2>5 DEF Apart
  <2>8. \A s \in Targets : level'[s] = "limited" => procs'[s] \subseteq {pid'[s]}
    BY <2>4 DEF Apart
  <2> QED
    BY <2>1, <2>4, <2>6, <2>7, <2>8 DEF Apart
<1>2. ASSUME NEW s \in Targets, ProcessExits(s) PROVE Apart'
  <2>1. PICK p \in procs[s] : procs' = [procs EXCEPT ![s] = @ \ {p}]
    BY <1>2 DEF ProcessExits
  <2>2. UNCHANGED <<main, spawned, pid, level>> /\ ~InSpawn(s)
    BY <1>2 DEF ProcessExits
  <2>3. /\ \A t \in Targets : procs'[t] \subseteq procs[t]
        /\ \A t \in Targets : t # s => procs'[t] = procs[t]
    BY <2>1
  <2>4. LockHeld' => procs'[spawned'] = {pid'[spawned']}
    BY <2>2, <2>3 DEF LockHeld, InSpawn, Apart, Typed
  <2> QED
    BY <2>2, <2>3, <2>4 DEF Apart
<1>3. ASSUME NEW s \in Targets, ChildCreated(s) PROVE Apart'
  <2>1. PICK p \in FreePids : procs' = [procs EXCEPT ![s] = @ \union {p}]
    BY <1>3 DEF ChildCreated
  <2>2. /\ UNCHANGED <<main, spawned, pid, level>> /\ level[s] = "unlimited"
        /\ procs[s] # {}
    BY <1>3 DEF ChildCreated, MayCreate
  <2>3. /\ \A t \in Targets : t # s => procs'[t] = procs[t]
        /\ procs'[s] = procs[s] \union {p}
        /\ \A t \in Targets : p \notin procs[t]
    BY <2>1, FreePid
  <2>4. \A u, t \in Targets : u # t => procs'[u] \intersect procs'[t] = {}
    BY <2>3 DEF Apart
  <2>5. \A t \in Targets : t > spawned => procs'[t] = {}
    BY <2>2, <2>3 DEF Apart
  <2>6. \A t \in Targets : level[t] = "limited" => procs'[t] \subseteq {pid[t]}
    BY <2>2, <2>3 DEF Apart
  <2>7. LockHeld => s # spawned
    <3>1. tracker[s] # "none"
      BY <1>3 DEF ChildCreated, MayCreate, Associated
    <3> QED
      BY <3>1 DEF OpenJobs
  <2> QED
    BY <2>2, <2>3, <2>4, <2>5, <2>6, <2>7 DEF Apart, LockHeld, Typed
<1>4. CASE UNCHANGED <<procs, spawned, pid, level>> /\ (LockHeld' => LockHeld)
  BY <1>4 DEF Apart
<1>5. CASE Caller /\ ~SpawnTarget
  <2>1. UNCHANGED <<procs, spawned, pid, level>> /\ (LockHeld' => LockHeld)
    BY <1>5 DEF Caller, LockHeld, SpawnCleanup, AddTarget, TrackJob, LeakPolicy,
       WaitForAllTargets, WaitReturns, DropPolicy, DestroyBroker, WorkerJoined,
       JoinTimesOut, ClearClosesJob, ClearNotifiesPolicy, ClearDestroys,
       ResetThreadPool
  <2> QED
    BY <2>1, <1>4
<1>6. CASE TargetEventsThread \/ UNCHANGED vars
  <2>1. UNCHANGED <<procs, spawned, pid, level, main>>
    BY <1>6 DEF TargetEventsThread, WorkerStarts, GetQueuedCompletionStatus,
       LookUpNewProcess, CountNewProcess, EraseExitedProcess, CountExitedProcess,
       ActiveProcessLimit, ProcessMemoryLimit, WorkerClosesJob, WorkerNotifiesPolicy,
       WorkerNotifiesLate, NothingToFree, WorkerQuits, vars
  <2> QED
    BY <2>1, <1>4 DEF LockHeld
<1>7. ASSUME NEW s \in Targets, ChildRefused(s) \/ MemoryExceeded(s) PROVE Apart'
  <2>1. UNCHANGED <<procs, spawned, pid, level, main>>
    BY <1>7 DEF ChildRefused, MemoryExceeded
  <2> QED
    BY <2>1, <1>4 DEF LockHeld
<1> QED
  BY <1>1, <1>2, <1>3, <1>5, <1>6, <1>7 DEF Next, Kernel

(* What a step does to the packets in flight and the processes in the jobs.  *)
Steady == InFlight' = InFlight /\ InJobs' = InJobs
Begins(s, p) ==
  /\ tracker'[s] # "none" /\ (level[s] = "limited" => ~Associated(s))
  /\ \A t \in Targets : <<t, p>> \notin InJobs
  /\ InJobs' = InJobs \union {<<s, p>>}
  /\ InFlight' = Append(InFlight, Packet("NEW_PROCESS", s, p))
Ends(s, p) ==
  /\ <<s, p>> \in InJobs /\ \A t \in Targets : t # s => <<t, p>> \notin InJobs
  /\ InJobs' = InJobs \ {<<s, p>>}
  /\ \/ InFlight' = Append(InFlight, Packet("EXIT_PROCESS", s, p))
     \/ /\ procs'[s] = {}
        /\ InFlight' = Append(Append(InFlight, Packet("EXIT_PROCESS", s, p)),
                              Packet("ACTIVE_PROCESS_ZERO", s, NoPid))
Refuses(s, p) ==
  /\ level[s] = "limited" /\ <<s, pid[s]>> \in InJobs
  /\ \A t \in Targets : <<t, p>> \notin InJobs
  /\ InJobs' = InJobs
  /\ InFlight' = Append(Append(InFlight, Packet("ACTIVE_PROCESS_LIMIT", s, NoPid)),
                        Packet("EXIT_PROCESS", s, p))
Posts(x) ==
  /\ x.event \in {"PROCESS_MEMORY_LIMIT", "QUIT"}
  /\ InJobs' = InJobs /\ InFlight' = Append(InFlight, x)
Takes ==
  /\ InFlight # <<>> /\ InFlight' = Tail(InFlight) /\ InJobs' = InJobs

LEMMA InJobsPairs ==
  \A s, p : <<s, p>> \in InJobs <=>
    s \in Targets /\ p \in Pids /\ tracker[s] # "none" /\ p \in procs[s]
BY DEF InJobs, Associated

LEMMA SameJobs ==
  ASSUME \A s \in Targets :
           /\ tracker'[s] = "none" <=> tracker[s] = "none"
           /\ tracker[s] # "none" => procs'[s] = procs[s]
  PROVE  InJobs' = InJobs
<1>1. ASSUME NEW sp \in Targets \X Pids
      PROVE  (tracker'[sp[1]] # "none" /\ sp[2] \in procs'[sp[1]])
               <=> (tracker[sp[1]] # "none" /\ sp[2] \in procs[sp[1]])
  BY <1>1
<1> QED
  BY <1>1 DEF InJobs, Associated

LEMMA Flight ==
  ASSUME TypeOK
  PROVE  /\ InFlight \in Seq(Packets)
         /\ packet = NoPacket => InFlight = port
         /\ packet # NoPacket =>
              InFlight # <<>> /\ InFlight[1] = packet /\ Tail(InFlight) = port
<1>1. port \in Seq(Packets) /\ packet \in Packets
  BY DEF TypeOK
<1>2. CASE packet = NoPacket
  BY <1>1, <1>2 DEF InFlight
<1>3. CASE packet # NoPacket
  <2>1. InFlight = <<packet>> \o port /\ <<packet>> \in Seq(Packets)
    BY <1>1, <1>3 DEF InFlight
  <2>2. Len(<<packet>>) = 1 /\ <<packet>>[1] = packet
    OBVIOUS
  <2> DEFINE h == <<packet>>
  <2>3. /\ h \in Seq(Packets) /\ Len(h) = 1 /\ h[1] = packet /\ InFlight = h \o port
    BY <2>1, <2>2
  <2> HIDE DEF h
  <2>9. /\ h \o port \in Seq(Packets) /\ Len(h \o port) = Len(h) + Len(port)
        /\ \A i \in 1..(Len(h) + Len(port)) :
             (h \o port)[i] = IF i <= Len(h) THEN h[i] ELSE port[i - Len(h)]
    BY <1>1, <2>3, ConcatProperties
  <2>4. /\ InFlight \in Seq(Packets) /\ Len(InFlight) = 1 + Len(port)
        /\ \A i \in 1..(1 + Len(port)) :
             InFlight[i] = IF i <= 1 THEN h[i] ELSE port[i - 1]
        /\ Len(port) \in Nat
    BY <1>1, <2>3, <2>9
  <2>5. InFlight[1] = packet /\ InFlight # <<>>
    BY <2>3, <2>4
  <2>6. /\ Tail(InFlight) \in Seq(Packets) /\ Len(Tail(InFlight)) = Len(port)
        /\ \A i \in 1..Len(port) : Tail(InFlight)[i] = InFlight[i + 1]
    BY <2>4, <2>5, HeadTailProperties
  <2>7. \A i \in 1..Len(port) : Tail(InFlight)[i] = port[i]
    <3>1. \A i \in 1..Len(port) : i + 1 \in 1..(1 + Len(port)) /\ ~(i + 1 <= 1) /\ (i + 1) - 1 = i
      BY <2>4
    <3> QED
      BY <2>4, <2>6, <3>1
  <2>8. Tail(InFlight) = port
    BY <1>1, <2>6, <2>7, SeqEqual
  <2> QED
    BY <1>3, <2>4, <2>5, <2>8
<1> QED
  BY <1>2, <1>3

LEMMA ConcatAppend ==
  ASSUME NEW q \in Seq(Packets), NEW a \in Packets, NEW b \in Packets
  PROVE  /\ q \o <<a>> = Append(q, a)
         /\ q \o <<a, b>> = Append(Append(q, a), b)
<1>1. q \o <<a>> = Append(q, a)
  OBVIOUS
<1> DEFINE x == <<a>>
           y == <<b>>
<1>2. x \in Seq(Packets) /\ y \in Seq(Packets) /\ x \o y = <<a, b>>
  BY TwoPackets
<1>3. (q \o x) \o y = q \o (x \o y)
  <2>1. x \in Seq(Packets) /\ y \in Seq(Packets)
    BY <1>2
  <2> HIDE DEF x, y
  <2> QED
    BY <2>1, ConcatAssociative
<1>4. Append(q, a) \in Seq(Packets)
  OBVIOUS
<1>5. \A r \in Seq(Packets) : r \o y = Append(r, b)
  OBVIOUS
<1> QED
  BY <1>1, <1>2, <1>3, <1>4, <1>5

LEMMA FlightPosted ==
  ASSUME TypeOK, NEW ps \in Seq(Packets), Post(ps), packet' = packet
  PROVE  InFlight' = InFlight \o ps
<1>1. port \in Seq(Packets) /\ port' = port \o ps /\ packet \in Packets
  BY DEF TypeOK, Post
<1>2. CASE packet = NoPacket
  BY <1>1, <1>2 DEF InFlight
<1>3. CASE packet # NoPacket
  <2> DEFINE h == <<packet>>
  <2>1. InFlight = h \o port /\ InFlight' = h \o port'
    BY <1>3 DEF InFlight
  <2>2. h \in Seq(Packets)
    BY <1>1
  <2> HIDE DEF h
  <2>3. (h \o port) \o ps = h \o (port \o ps)
    BY <1>1, <2>2, ConcatAssociative
  <2> QED
    BY <1>1, <2>1, <2>3
<1> QED
  BY <1>2, <1>3

(* A packet handled, also THREAD_CTRL_QUIT, which is handled as it is taken. *)
LEMMA FlightTaken ==
  ASSUME TypeOK, packet # NoPacket, packet' = NoPacket, port' = port,
         InJobs' = InJobs
  PROVE  Takes /\ InFlight[1] = packet
<1>1. InFlight # <<>> /\ InFlight[1] = packet /\ Tail(InFlight) = port
  BY Flight
<1>2. InFlight' = port
  BY DEF InFlight
<1> QED
  BY <1>1, <1>2 DEF Takes

LEMMA FlightGot ==
  ASSUME TypeOK, packet = NoPacket, port # <<>>, packet' = Head(port),
         port' = Tail(port), InJobs' = InJobs
  PROVE  Steady \/ (Takes /\ InFlight[1] = NoPacket)
<1>1. port \in Seq(Packets) /\ InFlight = port
  BY Flight DEF TypeOK
<1>2. Head(port) = port[1] /\ Head(port) \in Packets
  BY <1>1
<1>3. CASE Head(port) = NoPacket
  BY <1>1, <1>2, <1>3 DEF Takes, InFlight
<1>4. CASE Head(port) # NoPacket
  <2>1. InFlight' = <<Head(port)>> \o Tail(port)
    BY <1>4 DEF InFlight
  <2>2. <<Head(port)>> \o Tail(port) = port
    <3> DEFINE h == <<Head(port)>>
    <3>1. h \in Seq(Packets) /\ Len(h) = 1 /\ h[1] = port[1]
      BY <1>2
    <3>2. /\ Tail(port) \in Seq(Packets) /\ Len(Tail(port)) = Len(port) - 1
          /\ \A i \in 1..Len(Tail(port)) : Tail(port)[i] = port[i + 1]
      BY <1>1, HeadTailProperties
    <3> HIDE DEF h
    <3> DEFINE tl == Tail(port)
    <3>3. tl \in Seq(Packets) /\ Len(tl) = Len(port) - 1
          /\ \A i \in 1..Len(tl) : tl[i] = port[i + 1]
      BY <3>2
    <3> HIDE DEF tl
    <3>4. Len(port) \in Nat /\ Len(tl) \in Nat
      BY <1>1, <3>3
    <3>8. /\ h \o tl \in Seq(Packets) /\ Len(h \o tl) = Len(h) + Len(tl)
          /\ \A i \in 1..(Len(h) + Len(tl)) :
               (h \o tl)[i] = IF i <= Len(h) THEN h[i] ELSE tl[i - Len(h)]
      <4>1. h \in Seq(Packets) /\ tl \in Seq(Packets)
        BY <3>1, <3>3
      <4> QED
        BY <4>1, ConcatProperties, Zenon
    <3>5. /\ h \o tl \in Seq(Packets) /\ Len(h \o tl) = 1 + Len(tl)
          /\ \A i \in 1..(1 + Len(tl)) :
               (h \o tl)[i] = IF i <= 1 THEN h[i] ELSE tl[i - 1]
      BY <3>1, <3>8
    <3>6. Len(h \o tl) = Len(port)
      BY <3>3, <3>4, <3>5
    <3>7. \A i \in 1..Len(port) : (h \o tl)[i] = port[i]
      <4> SUFFICES ASSUME NEW i \in 1..Len(port) PROVE (h \o tl)[i] = port[i]
        OBVIOUS
      <4>1. i \in 1..(1 + Len(tl))
        BY <3>3, <3>4
      <4>2. CASE i = 1
        BY <4>1, <4>2, <3>1, <3>5
      <4>3. CASE i # 1
        <5>1. i - 1 \in 1..Len(tl) /\ (i - 1) + 1 = i /\ ~(i <= 1)
          BY <4>1, <4>3, <3>4
        <5> QED
          BY <4>1, <5>1, <3>3, <3>5
      <4> QED
        BY <4>2, <4>3
    <3> QED
      BY <1>1, <3>5, <3>6, <3>7, SeqEqual DEF h, tl
  <2>3. InFlight' = InFlight
    BY <1>1, <2>1, <2>2, Zenon
  <2> QED
    BY <2>3 DEF Steady
<1> QED
  BY <1>3, <1>4

(* What the packets in flight say of the processes, and of which targets.    *)
Keys == \A i \in DOMAIN InFlight :
  /\ InFlight[i].event # "QUIT" => Associated(InFlight[i].key)
  /\ Limit(InFlight[i]) => level[InFlight[i].key] = "limited"

FlightInv ==
  /\ Keys
  /\ AliveLast(InFlight, InJobs) /\ Alternate(InFlight)
  /\ LimitOpen(InFlight, InJobs, pid)

FlightNext ==
  /\ \A i \in DOMAIN InFlight' :
       /\ InFlight'[i].event # "QUIT" => tracker'[InFlight'[i].key] # "none"
       /\ Limit(InFlight'[i]) => level'[InFlight'[i].key] = "limited"
  /\ AliveLast(InFlight', InJobs') /\ Alternate(InFlight')
  /\ LimitOpen(InFlight', InJobs', pid')

LEMMA FlightPrimed == FlightNext => FlightInv'
<1> SUFFICES ASSUME FlightNext PROVE FlightInv'
  OBVIOUS
<1> USE DEF FlightNext
<1>1. Keys'
  BY DEF Keys, Associated, Limit
<1>2. AliveLast(InFlight, InJobs)'
  BY DEF AliveLast, About, Packet
<1>3. Alternate(InFlight)'
  BY DEF Alternate, About, Exit, Refused
<1>4. LimitOpen(InFlight, InJobs, pid)'
  BY DEF LimitOpen, Limit, EndsLater, Exit, About, Refused, Packet
<1> QED
  BY <1>1, <1>2, <1>3, <1>4 DEF FlightInv

(* A target with a tracker keeps its numbers.                                *)
Settled == \A s \in Targets : Associated(s) =>
  tracker'[s] # "none" /\ level'[s] = level[s] /\ pid'[s] = pid[s]

LEMMA KeyPosted ==
  ASSUME NEW q \in Seq(Packets), NEW x, NEW y, Extended(q, x, y), Settled,
         \A i \in DOMAIN q : /\ q[i].event # "QUIT" => Associated(q[i].key)
                             /\ Limit(q[i]) => level[q[i].key] = "limited",
         x.event # "QUIT" => tracker'[x.key] # "none",
         Limit(x) => level'[x.key] = "limited"
  PROVE  \A i \in DOMAIN y : /\ y[i].event # "QUIT" => tracker'[y[i].key] # "none"
                             /\ Limit(y[i]) => level'[y[i].key] = "limited"
<1> SUFFICES ASSUME NEW i \in DOMAIN y
             PROVE  /\ y[i].event # "QUIT" => tracker'[y[i].key] # "none"
                    /\ Limit(y[i]) => level'[y[i].key] = "limited"
  OBVIOUS
<1>1. CASE i \in DOMAIN q
  <2>1. y[i] = q[i] /\ q[i] \in Packets
    BY <1>1 DEF Extended
  <2>2. Limit(q[i]) => q[i].event # "QUIT"
    BY DEF Limit
  <2>3. q[i].event # "QUIT" => q[i].key \in Targets
    BY <2>1, PacketFields
  <2> QED
    BY <1>1, <2>1, <2>2, <2>3 DEF Settled, Associated
<1>2. CASE i \notin DOMAIN q
  <2>1. y[i] = x
    BY <1>2 DEF Extended
  <2> QED
    BY <2>1
<1> QED
  BY <1>1, <1>2

LEMMA SamePids ==
  ASSUME NEW q \in Seq(Packets), NEW A, LimitOpen(q, A, pid), Settled,
         \A i \in DOMAIN q : Limit(q[i]) => Associated(q[i].key)
  PROVE  LimitOpen(q, A, pid')
<1>1. ASSUME NEW i \in DOMAIN q, Limit(q[i]) PROVE pid'[q[i].key] = pid[q[i].key]
  <2>1. q[i] \in Packets /\ q[i].event # "QUIT"
    BY <1>1 DEF Limit
  <2> QED
    BY <1>1, <2>1, PacketFields DEF Settled
<1> QED
  BY <1>1 DEF LimitOpen

LEMMA BeginsQueue ==
  ASSUME TypeOK, FlightInv, Settled, NEW s \in Targets, NEW p \in Pids, Begins(s, p)
  PROVE  FlightNext
         /\ \A r \in Pids : Open(InFlight', InJobs', r) => Open(InFlight, InJobs, r)
<1> DEFINE q == InFlight
           A == InJobs
           y == InFlight'
           B == InJobs'
           x == Packet("NEW_PROCESS", s, p)
<1>1. /\ q \in Seq(Packets) /\ x \in Packets
      /\ x.event = "NEW_PROCESS" /\ x.key = s
  BY Flight, PacketType, PacketFields DEF Events
<1>2. /\ y = Append(q, x) /\ B = A \union {<<s, p>>}
      /\ \A t \in Targets : <<t, p>> \notin A
      /\ tracker'[s] # "none" /\ (level[s] = "limited" => ~Associated(s))
  BY DEF Begins, Associated
<1>3. Extended(q, x, y)
  BY <1>1, <1>2, SequenceSteps
<1>4. \A t \in Targets, r \in Pids :
        <<t, r>> \in B <=> <<t, r>> \in A \/ (t = s /\ r = p)
  BY <1>2
<1>5. /\ AliveLast(q, A) /\ Alternate(q) /\ LimitOpen(q, A, pid)
      /\ \A i \in DOMAIN q : /\ q[i].event # "QUIT" => Associated(q[i].key)
                             /\ Limit(q[i]) => level[q[i].key] = "limited"
  BY DEF FlightInv, Keys
<1> HIDE DEF q, A, y, B
<1>6. /\ AliveLast(y, B) /\ Alternate(y)
      /\ \A r \in Pids : Open(y, B, r) => Open(q, A, r)
  <2>1. \A t \in Targets : <<t, p>> \notin A
    BY <1>2
  <2>2. AliveLast(q, A) /\ Alternate(q)
    BY <1>5
  <2>3. Extended(q, Packet("NEW_PROCESS", s, p), y)
    BY <1>3
  <2> HIDE DEF x
  <2> QED
    BY <2>1, <2>2, <2>3, <1>4, NewPosted
<1> HIDE DEF x
<1>7. \A i \in DOMAIN y : /\ y[i].event # "QUIT" => tracker'[y[i].key] # "none"
                          /\ Limit(y[i]) => level'[y[i].key] = "limited"
  <2>1. ~Limit(x) /\ tracker'[x.key] # "none"
    BY <1>1, <1>2 DEF Limit
  <2>2. /\ q \in Seq(Packets)
        /\ \A i \in DOMAIN q : /\ q[i].event # "QUIT" => Associated(q[i].key)
                               /\ Limit(q[i]) => level[q[i].key] = "limited"
    BY <1>1, <1>5
  <2> QED
    BY <2>1, <2>2, <1>3, KeyPosted
<1>8. LimitOpen(y, B, pid')
  <2>1. \A i \in DOMAIN q : Limit(q[i]) => Associated(q[i].key)
    BY <1>5 DEF Limit
  <2>2. LimitOpen(q, A, pid')
    BY <1>1, <1>5, <2>1, SamePids
  <2>3. \A i \in DOMAIN q : Limit(q[i]) => x # Packet("NEW_PROCESS", q[i].key, pid'[q[i].key])
    <3>1. \A t, r : x = Packet("NEW_PROCESS", t, r) => t = s
      BY DEF x, Packet
    <3>2. \A i \in DOMAIN q : Limit(q[i]) => q[i].key # s
      BY <1>2, <1>5, <2>1
    <3> QED
      BY <3>1, <3>2
  <2>4. ~Limit(x) /\ \A sp : sp \in A => sp \in B
    BY <1>1, <1>2 DEF Limit
  <2> QED
    BY <1>3, <2>2, <2>3, <2>4, LimitPosted
<1> QED
  BY <1>6, <1>7, <1>8 DEF q, A, y, B, FlightNext

LEMMA EndsQueue ==
  ASSUME TypeOK, FlightInv, Settled, NEW s \in Targets, NEW p \in Pids, Ends(s, p)
  PROVE  FlightNext
         /\ \A r \in Pids : Open(InFlight', InJobs', r) => Open(InFlight, InJobs, r)
<1> DEFINE q == InFlight
           A == InJobs
           B == InJobs'
           x == Packet("EXIT_PROCESS", s, p)
           z == Packet("ACTIVE_PROCESS_ZERO", s, NoPid)
           y == Append(q, x)
<1>1. /\ q \in Seq(Packets) /\ x \in Packets /\ z \in Packets /\ y \in Seq(Packets)
      /\ x.event = "EXIT_PROCESS" /\ x.key = s
      /\ z.event = "ACTIVE_PROCESS_ZERO" /\ z.key = s
  BY Flight, PacketType, PacketFields DEF Events
<1>2. /\ B = A \ {<<s, p>>} /\ <<s, p>> \in A
      /\ \A t \in Targets : t # s => <<t, p>> \notin A
      /\ InFlight' \in {y, Append(y, z)}
  BY DEF Ends
<1>3. Extended(q, x, y) /\ Extended(y, z, Append(y, z))
  BY <1>1, SequenceSteps
<1>4. \A t \in Targets, r \in Pids :
        <<t, r>> \in B <=> <<t, r>> \in A /\ ~(t = s /\ r = p)
  BY <1>2
<1>5. /\ AliveLast(q, A) /\ Alternate(q) /\ LimitOpen(q, A, pid)
      /\ \A i \in DOMAIN q : /\ q[i].event # "QUIT" => Associated(q[i].key)
                             /\ Limit(q[i]) => level[q[i].key] = "limited"
  BY DEF FlightInv, Keys
<1>9. tracker'[s] # "none"
  <2>1. Associated(s)
    BY InJobsPairs DEF Ends, Associated
  <2> QED
    BY <2>1 DEF Settled
<1> HIDE DEF q, A, B, y
<1>6. /\ AliveLast(y, B) /\ Alternate(y)
      /\ \A r \in Pids : Open(y, B, r) => Open(q, A, r)
  <2>1. <<s, p>> \in A /\ \A t \in Targets : t # s => <<t, p>> \notin A
    BY <1>2
  <2> QED
    BY <2>1, <1>3, <1>4, <1>5, ExitPosted
<1>8. LimitOpen(y, B, pid')
  <2>1. \A i \in DOMAIN q : Limit(q[i]) => Associated(q[i].key)
    BY <1>5 DEF Limit
  <2>2. LimitOpen(q, A, pid')
    BY <1>1, <1>5, <2>1, SamePids
  <2>3. /\ \A t, r : x # Packet("NEW_PROCESS", t, r)
        /\ ~Limit(x)
    BY DEF Packet, Limit
  <2>4. ASSUME NEW i \in DOMAIN q, Limit(q[i]),
               <<q[i].key, pid'[q[i].key]>> \in A
        PROVE  \/ <<q[i].key, pid'[q[i].key]>> \in B
               \/ EndsLater(y, i, pid'[q[i].key])
    <3>1. CASE <<q[i].key, pid'[q[i].key]>> = <<s, p>>
      <4>1. q[i].key = s /\ pid'[s] = p
        BY <3>1
      <4>2. EndsLater(y, i, p)
        BY <1>2, <1>3, <1>5, <2>2, <2>4, <4>1, EndFollows
      <4> QED
        BY <4>1, <4>2
    <3>2. CASE <<q[i].key, pid'[q[i].key]>> # <<s, p>>
      BY <1>2, <2>4, <3>2
    <3> QED
      BY <3>1, <3>2
  <2> HIDE DEF x
  <2> QED
    BY <1>3, <2>2, <2>3, <2>4, LimitPosted
<1> HIDE DEF x, z
<1>7. \A i \in DOMAIN y : /\ y[i].event # "QUIT" => tracker'[y[i].key] # "none"
                          /\ Limit(y[i]) => level'[y[i].key] = "limited"
  <2>1. ~Limit(x)
    BY <1>1 DEF Limit
  <2> QED
    BY <1>1, <1>3, <1>5, <1>9, <2>1, KeyPosted
<1>10. CASE InFlight' = y
  BY <1>6, <1>7, <1>8, <1>10 DEF q, A, B, FlightNext
<1>11. CASE InFlight' = Append(y, z)
  <2> DEFINE w == Append(y, z)
  <2> Extended(y, z, w)
    BY <1>3
  <2> HIDE DEF w
  <2>1. /\ AliveLast(w, B) /\ Alternate(w)
        /\ \A r \in Pids : Open(w, B, r) => Open(y, B, r)
    BY <1>1, <1>6, OtherPosted
  <2>2. LimitOpen(w, B, pid')
    <3>1. ~Limit(z) /\ \A t, r : z # Packet("NEW_PROCESS", t, r)
      BY <1>1, PacketFields DEF Limit
    <3> QED
      BY <1>8, <3>1, LimitPosted
  <2>3. \A i \in DOMAIN w : /\ w[i].event # "QUIT" => tracker'[w[i].key] # "none"
                            /\ Limit(w[i]) => level'[w[i].key] = "limited"
    <3>1. \A i \in DOMAIN w : i \notin DOMAIN y => w[i] = z
      BY DEF Extended
    <3>2. \A i \in DOMAIN y : w[i] = y[i]
      BY DEF Extended
    <3> QED
      BY <1>1, <1>7, <1>9, <3>1, <3>2 DEF Limit
  <2> QED
    BY <1>6, <1>11, <2>1, <2>2, <2>3 DEF q, A, B, FlightNext, w
<1> QED
  BY <1>2, <1>10, <1>11

LEMMA RefusesQueue ==
  ASSUME TypeOK, FlightInv, Settled, NEW s \in Targets, NEW p \in Pids, Refuses(s, p)
  PROVE  FlightNext
         /\ \A r \in Pids : Open(InFlight', InJobs', r) => Open(InFlight, InJobs, r)
<1> DEFINE q == InFlight
           A == InJobs
           x == Packet("ACTIVE_PROCESS_LIMIT", s, NoPid)
           z == Packet("EXIT_PROCESS", s, p)
           y == Append(q, x)
           w == Append(y, z)
<1>1. /\ q \in Seq(Packets) /\ x \in Packets /\ z \in Packets /\ y \in Seq(Packets)
      /\ x.event = "ACTIVE_PROCESS_LIMIT" /\ x.key = s
      /\ z.event = "EXIT_PROCESS" /\ z.key = s
  BY Flight, PacketType, PacketFields DEF Events
<1>2. /\ InJobs' = A /\ <<s, pid[s]>> \in A /\ level[s] = "limited"
      /\ \A t \in Targets : <<t, p>> \notin A
      /\ InFlight' = w
  BY DEF Refuses
<1>3. Extended(q, x, y) /\ Extended(y, z, w)
  BY <1>1, SequenceSteps
<1>4. /\ Associated(s) /\ tracker'[s] # "none" /\ level'[s] = "limited"
      /\ pid'[s] = pid[s]
  <2>1. Associated(s)
    BY <1>2, InJobsPairs DEF Associated
  <2> QED
    BY <2>1, <1>2 DEF Settled
<1>5. /\ AliveLast(q, A) /\ Alternate(q) /\ LimitOpen(q, A, pid)
      /\ \A i \in DOMAIN q : /\ q[i].event # "QUIT" => Associated(q[i].key)
                             /\ Limit(q[i]) => level[q[i].key] = "limited"
  BY DEF FlightInv, Keys
<1> HIDE DEF q, A, y, w
<1>6. /\ AliveLast(y, A) /\ Alternate(y)
      /\ \A r \in Pids : Open(y, A, r) => Open(q, A, r)
  <2>1. AliveLast(q, A) /\ Alternate(q) /\ Extended(q, x, y)
          /\ x.event \notin {"NEW_PROCESS", "EXIT_PROCESS"}
    BY <1>1, <1>3, <1>5
  <2> HIDE DEF x
  <2> QED
    BY <2>1, OtherPosted
<1>7. /\ AliveLast(w, A) /\ Alternate(w)
      /\ \A r \in Pids : Open(w, A, r) => Open(y, A, r)
  <2>1. Extended(y, Packet("EXIT_PROCESS", s, p), w) /\ AliveLast(y, A) /\ Alternate(y)
    BY <1>3, <1>6
  <2>2. Len(y) > 0 /\ y[Len(y)].event = "ACTIVE_PROCESS_LIMIT"
    BY <1>1, <1>3 DEF Extended
  <2>3. \A t \in Targets : <<t, p>> \notin A
    BY <1>2
  <2> HIDE DEF z, x
  <2> QED
    BY <2>1, <2>2, <2>3, RefusedPosted
<1>8. LimitOpen(w, A, pid')
  <2>1. \A i \in DOMAIN q : Limit(q[i]) => Associated(q[i].key)
    BY <1>5 DEF Limit
  <2>2. LimitOpen(q, A, pid')
    BY <1>1, <1>5, <2>1, SamePids
  <2>3. <<s, pid'[s]>> \in A
    BY <1>2, <1>4
  <2> QED
    BY <1>3, <2>2, <2>3, LimitRefused
<1> HIDE DEF x, z
<1>9. \A i \in DOMAIN y : /\ y[i].event # "QUIT" => tracker'[y[i].key] # "none"
                          /\ Limit(y[i]) => level'[y[i].key] = "limited"
  <2>1. tracker'[x.key] # "none" /\ level'[x.key] = "limited"
    BY <1>1, <1>4
  <2>2. /\ q \in Seq(Packets)
        /\ \A i \in DOMAIN q : /\ q[i].event # "QUIT" => Associated(q[i].key)
                               /\ Limit(q[i]) => level[q[i].key] = "limited"
    BY <1>1, <1>5
  <2> QED
    BY <2>1, <2>2, <1>3, KeyPosted
<1>10. \A i \in DOMAIN w : /\ w[i].event # "QUIT" => tracker'[w[i].key] # "none"
                           /\ Limit(w[i]) => level'[w[i].key] = "limited"
  <2>1. \A i \in DOMAIN w : i \notin DOMAIN y => w[i] = z
    BY <1>3 DEF Extended
  <2>2. \A i \in DOMAIN y : w[i] = y[i]
    BY <1>3 DEF Extended
  <2>3. ~Limit(z) /\ tracker'[z.key] # "none"
    BY <1>1, <1>4 DEF Limit
  <2> QED
    BY <1>9, <2>1, <2>2, <2>3
<1> QED
  BY <1>2, <1>6, <1>7, <1>8, <1>10 DEF FlightNext, q, A

LEMMA PostsQueue ==
  ASSUME TypeOK, FlightInv, Settled, NEW x \in Packets, Posts(x),
         x.event # "QUIT" => tracker'[x.key] # "none"
  PROVE  FlightNext
         /\ \A r \in Pids : Open(InFlight', InJobs', r) => Open(InFlight, InJobs, r)
<1> DEFINE q == InFlight
           A == InJobs
           y == Append(q, x)
<1>1. q \in Seq(Packets) /\ x.event \in {"PROCESS_MEMORY_LIMIT", "QUIT"}
  BY Flight DEF Posts
<1>2. InJobs' = A /\ InFlight' = y
  BY DEF Posts
<1>3. Extended(q, x, y)
  BY <1>1, SequenceSteps
<1>5. /\ AliveLast(q, A) /\ Alternate(q) /\ LimitOpen(q, A, pid)
      /\ \A i \in DOMAIN q : /\ q[i].event # "QUIT" => Associated(q[i].key)
                             /\ Limit(q[i]) => level[q[i].key] = "limited"
  BY DEF FlightInv, Keys
<1> HIDE DEF q, A, y
<1>6. /\ AliveLast(y, A) /\ Alternate(y)
      /\ \A r \in Pids : Open(y, A, r) => Open(q, A, r)
  BY <1>1, <1>3, <1>5, OtherPosted
<1>7. ~Limit(x) /\ \A t, r : x # Packet("NEW_PROCESS", t, r)
  BY <1>1, PacketFields DEF Limit
<1>8. LimitOpen(y, A, pid')
  <2>1. \A i \in DOMAIN q : Limit(q[i]) => Associated(q[i].key)
    BY <1>5 DEF Limit
  <2>2. LimitOpen(q, A, pid')
    BY <1>1, <1>5, <2>1, SamePids
  <2> QED
    BY <1>3, <1>7, <2>2, LimitPosted
<1>9. \A i \in DOMAIN y : /\ y[i].event # "QUIT" => tracker'[y[i].key] # "none"
                          /\ Limit(y[i]) => level'[y[i].key] = "limited"
  <2>1. /\ q \in Seq(Packets)
        /\ \A i \in DOMAIN q : /\ q[i].event # "QUIT" => Associated(q[i].key)
                               /\ Limit(q[i]) => level[q[i].key] = "limited"
    BY <1>1, <1>5
  <2> QED
    BY <2>1, <1>3, <1>7, KeyPosted
<1> QED
  BY <1>2, <1>6, <1>8, <1>9 DEF FlightNext, q, A

LEMMA SteadyQueue ==
  ASSUME TypeOK, FlightInv, Settled, Steady
  PROVE  FlightNext
         /\ \A r \in Pids : Open(InFlight', InJobs', r) => Open(InFlight, InJobs, r)
<1> DEFINE q == InFlight
           A == InJobs
<1>1. q \in Seq(Packets) /\ InFlight' = q /\ InJobs' = A
  BY Flight DEF Steady
<1>5. /\ AliveLast(q, A) /\ Alternate(q) /\ LimitOpen(q, A, pid)
      /\ \A i \in DOMAIN q : /\ q[i].event # "QUIT" => Associated(q[i].key)
                             /\ Limit(q[i]) => level[q[i].key] = "limited"
  BY DEF FlightInv, Keys
<1> HIDE DEF q, A
<1>2. \A i \in DOMAIN q : Limit(q[i]) => Associated(q[i].key)
  BY <1>5 DEF Limit
<1>3. LimitOpen(q, A, pid')
  BY <1>1, <1>2, <1>5, SamePids
<1>4. \A i \in DOMAIN q : /\ q[i].event # "QUIT" => tracker'[q[i].key] # "none"
                          /\ Limit(q[i]) => level'[q[i].key] = "limited"
  <2> SUFFICES ASSUME NEW i \in DOMAIN q
               PROVE  /\ q[i].event # "QUIT" => tracker'[q[i].key] # "none"
                      /\ Limit(q[i]) => level'[q[i].key] = "limited"
    OBVIOUS
  <2>1. q[i].event # "QUIT" => q[i].key \in Targets
    BY <1>1, PacketFields
  <2> QED
    BY <2>1, <1>5 DEF Settled, Limit
<1> QED
  BY <1>1, <1>3, <1>4, <1>5 DEF FlightNext, q, A

LEMMA TakesQueue ==
  ASSUME TypeOK, FlightInv, Settled, Takes,
         \A s \in Targets : Associated(s) => pid[s] \in Pids
  PROVE  /\ FlightNext
         /\ InFlight[1] \in Packets
         /\ \A r \in Pids : Open(InFlight', InJobs', r) =>
              \/ Open(InFlight, InJobs, r) /\ ~Exit(InFlight[1], r)
              \/ InFlight[1].event = "NEW_PROCESS" /\ InFlight[1].ovl = r
              \/ InFlight[1].event = "ACTIVE_PROCESS_LIMIT" /\ InFlight[2].ovl = r
         /\ \A r \in Pids : Exit(InFlight[1], r) => Open(InFlight, InJobs, r)
         /\ Limit(InFlight[1]) => \E r \in Pids : Open(InFlight, InJobs, r)
<1> DEFINE q == InFlight
           A == InJobs
           y == Tail(q)
<1>1. q \in Seq(Packets) /\ q # <<>> /\ InFlight' = y /\ InJobs' = A
  BY Flight DEF Takes
<1>3. Shortened(q, y) /\ q[1] \in Packets
  BY <1>1, SequenceSteps
<1>5. /\ AliveLast(q, A) /\ Alternate(q) /\ LimitOpen(q, A, pid)
      /\ \A i \in DOMAIN q : /\ q[i].event # "QUIT" => Associated(q[i].key)
                             /\ Limit(q[i]) => level[q[i].key] = "limited"
  BY DEF FlightInv, Keys
<1> HIDE DEF q, A, y
<1>6. /\ AliveLast(y, A) /\ Alternate(y)
      /\ \A r \in Pids : Open(y, A, r) =>
           \/ Open(q, A, r) /\ ~Exit(q[1], r)
           \/ q[1].event = "NEW_PROCESS" /\ q[1].ovl = r
           \/ q[1].event = "ACTIVE_PROCESS_LIMIT" /\ q[2].ovl = r
      /\ \A r \in Pids : Exit(q[1], r) => Open(q, A, r)
  BY <1>3, <1>5, PacketTaken
<1>2. \A i \in DOMAIN q : Limit(q[i]) => Associated(q[i].key)
  BY <1>5 DEF Limit
<1>7. LimitOpen(y, A, pid')
  <2>1. LimitOpen(q, A, pid')
    BY <1>1, <1>2, <1>5, SamePids
  <2> QED
    BY <1>3, <2>1, LimitTaken
<1>4. \A i \in DOMAIN y : /\ y[i].event # "QUIT" => tracker'[y[i].key] # "none"
                          /\ Limit(y[i]) => level'[y[i].key] = "limited"
  <2> SUFFICES ASSUME NEW i \in DOMAIN y
               PROVE  /\ y[i].event # "QUIT" => tracker'[y[i].key] # "none"
                      /\ Limit(y[i]) => level'[y[i].key] = "limited"
    OBVIOUS
  <2>1. i + 1 \in DOMAIN q /\ y[i] = q[i + 1]
    BY <1>3 DEF Shortened
  <2>2. q[i + 1].event # "QUIT" => q[i + 1].key \in Targets
    BY <1>1, <2>1, PacketFields
  <2>3. /\ q[i + 1].event # "QUIT" => Associated(q[i + 1].key)
        /\ Limit(q[i + 1]) => level[q[i + 1].key] = "limited"
    BY <1>5, <2>1
  <2> QED
    BY <2>1, <2>2, <2>3 DEF Settled, Limit
<1>8. Limit(q[1]) => \E r \in Pids : Open(q, A, r)
  <2> SUFFICES ASSUME Limit(q[1]) PROVE \E r \in Pids : Open(q, A, r)
    OBVIOUS
  <2>1. 1 \in DOMAIN q /\ q[1].event # "QUIT"
    BY <1>3 DEF Shortened, Limit
  <2>2. q[1].key \in Targets /\ Associated(q[1].key)
    BY <1>2, <1>3, <2>1, PacketFields
  <2>3. pid[q[1].key] \in Pids
    BY <2>2
  <2> QED
    BY <1>1, <1>5, <2>2, <2>3, LimitMeansOpen
<1> QED
  BY <1>1, <1>3, <1>4, <1>6, <1>7, <1>8 DEF FlightNext, q, A

LEMMA SettledStep ==
  ASSUME Typed, OpenJobs, [Next]_vars
  PROVE  /\ Settled
         /\ ~SpawnTarget => UNCHANGED <<level, pid>>
         /\ \A s \in Targets : tracker[s] = "none" /\ tracker'[s] # "none" =>
              TrackJob /\ s = spawned
<1> /\ tracker \in [Targets -> {"none", "set", "closed", "freed", "destroyed"}]
    /\ level \in [Targets -> JobLevels] /\ spawned \in Nat
    /\ pid \in [Targets -> Pids \union {NoPid}]
    /\ worker = "freeing" => packet.key \in Targets
  BY DEF Typed, TypeOK
<1>1. CASE SpawnTarget
  <2>1. PICK l, p : /\ level' = [level EXCEPT ![spawned + 1] = l]
                    /\ pid' = [pid EXCEPT ![spawned + 1] = p]
    BY <1>1 DEF SpawnTarget
  <2>2. tracker' = tracker
    BY <1>1 DEF SpawnTarget
  <2>3. \A s \in Targets : Associated(s) => s # spawned + 1
    <3>1. \A s \in Targets : s \in Int /\ (s > spawned => tracker[s] = "none")
      BY DEF OpenJobs, Targets
    <3>2. \A s \in Targets : s = spawned + 1 => s > spawned
      OBVIOUS
    <3> QED
      BY <3>1, <3>2 DEF Associated
  <2> QED
    BY <1>1, <2>1, <2>2, <2>3 DEF Settled, Associated
<1>2. CASE TrackJob
  <2>1. /\ tracker' = [tracker EXCEPT ![spawned] = "set"] /\ UNCHANGED <<level, pid>>
        /\ spawned \in Targets
    BY <1>2 DEF TrackJob, Typed, LockHeld
  <2> QED
    BY <1>2, <2>1 DEF Settled, Associated
<1>3. ASSUME NEW s, \/ CloseJob(s) \/ NotifyPolicy(s)
                    \/ tracker[s] # "none" /\ tracker' = [tracker EXCEPT ![s] = "destroyed"],
             UNCHANGED <<level, pid>>
      PROVE  /\ Settled
             /\ \A t \in Targets : tracker[t] = "none" => tracker'[t] = "none"
  <2>1. /\ tracker[s] # "none"
        /\ \E x \in {"closed", "freed", "destroyed"} : tracker' = [tracker EXCEPT ![s] = x]
    BY <1>3 DEF CloseJob, NotifyPolicy
  <2> QED
    BY <1>3, <2>1 DEF Settled, Associated
<1>4. CASE ClearClosesJob \/ ClearNotifiesPolicy \/ ClearDestroys
  <2>1. \E s \in Targets : \/ CloseJob(s) \/ NotifyPolicy(s)
          \/ (IsFront(s) /\ tracker' = [tracker EXCEPT ![s] = "destroyed"])
    <3>1. CASE ClearClosesJob
      BY <3>1 DEF ClearClosesJob
    <3>2. CASE ClearNotifiesPolicy
      BY <3>2 DEF ClearNotifiesPolicy
    <3>3. CASE ClearDestroys
      BY <3>3 DEF ClearDestroys
    <3> QED
      BY <1>4, <3>1, <3>2, <3>3
  <2>4. PICK s \in Targets : \/ CloseJob(s) \/ NotifyPolicy(s)
          \/ (IsFront(s) /\ tracker' = [tracker EXCEPT ![s] = "destroyed"])
    BY <2>1
  <2>2. IsFront(s) => tracker[s] # "none"
    BY DEF IsFront, TrackerList
  <2>3. UNCHANGED <<level, pid>>
    BY <1>4 DEF ClearClosesJob, ClearNotifiesPolicy, ClearDestroys
  <2> QED
    BY <1>3, <2>4, <2>2, <2>3
<1>5. CASE WorkerClosesJob \/ WorkerNotifiesPolicy
  <2>1. CloseJob(packet.key) \/ NotifyPolicy(packet.key)
    BY <1>5 DEF WorkerClosesJob, WorkerNotifiesPolicy
  <2>2. UNCHANGED <<level, pid>>
    BY <1>5 DEF WorkerClosesJob, WorkerNotifiesPolicy
  <2> QED
    BY <1>3, <2>1, <2>2
<1>6. CASE UNCHANGED <<tracker, level, pid>>
  BY <1>6 DEF Settled, Associated
<1>7. CASE \/ SpawnCleanup \/ AddTarget \/ LeakPolicy
           \/ WaitForAllTargets \/ WaitReturns \/ DropPolicy \/ DestroyBroker
           \/ WorkerJoined \/ JoinTimesOut \/ ResetThreadPool
  BY <1>6, <1>7 DEF SpawnCleanup, AddTarget, LeakPolicy,
     WaitForAllTargets, WaitReturns, DropPolicy, DestroyBroker, WorkerJoined,
     JoinTimesOut, ResetThreadPool
<1>8. CASE TargetEventsThread /\ ~WorkerClosesJob /\ ~WorkerNotifiesPolicy
  BY <1>6, <1>8 DEF TargetEventsThread, WorkerStarts, GetQueuedCompletionStatus,
     LookUpNewProcess, CountNewProcess, EraseExitedProcess, CountExitedProcess,
     ActiveProcessLimit, ProcessMemoryLimit, WorkerNotifiesLate, NothingToFree,
     WorkerQuits
<1>9. CASE (\E s \in Targets : Kernel(s)) \/ UNCHANGED vars
  BY <1>6, <1>9 DEF Kernel, ProcessExits, ChildCreated, ChildRefused,
     MemoryExceeded, vars
<1> QED
  BY <1>1, <1>2, <1>4, <1>5, <1>7, <1>8, <1>9 DEF Next, Caller

(* The steps that leave the packets in flight and the jobs alone.            *)
LEMMA SteadyCaller ==
  ASSUME Typed, OpenJobs, Apart, [Next]_vars, Caller, ~TrackJob, ~DestroyBroker
  PROVE  Steady
<1>1. UNCHANGED <<port, packet>>
  BY DEF Caller, SpawnTarget, SpawnCleanup, AddTarget, LeakPolicy,
     WaitForAllTargets, WaitReturns, DropPolicy, WorkerJoined, JoinTimesOut,
     ClearClosesJob, ClearNotifiesPolicy, ClearDestroys, ResetThreadPool
<1>2. InFlight' = InFlight
  BY <1>1 DEF InFlight
<1>3. \A s \in Targets : (tracker'[s] = "none" <=> tracker[s] = "none")
  BY SettledStep DEF Settled, Associated
<1>4. CASE SpawnTarget
  <2>1. PICK p \in FreePids : procs' = [procs EXCEPT ![spawned + 1] = {p}]
    BY <1>4 DEF SpawnTarget
  <2>2. \A s \in Targets : tracker[s] # "none" => s # spawned + 1
    <3>1. \A s \in Targets : s \in Int /\ (s > spawned => tracker[s] = "none")
      BY DEF OpenJobs, Targets
    <3>2. spawned \in Int
      BY DEF Typed, TypeOK
    <3>3. \A s \in Targets : s = spawned + 1 => s > spawned
      BY <3>2
    <3> QED
      BY <3>1, <3>3
  <2>3. \A s \in Targets : tracker[s] # "none" => procs'[s] = procs[s]
    BY <2>1, <2>2 DEF Typed, TypeOK
  <2> QED
    BY <1>2, <1>3, <2>3, SameJobs DEF Steady
<1>5. CASE ~SpawnTarget
  <2>1. procs' = procs
    BY <1>5 DEF Caller, SpawnCleanup, AddTarget, LeakPolicy,
       WaitForAllTargets, WaitReturns, DropPolicy, WorkerJoined, JoinTimesOut,
       ClearClosesJob, ClearNotifiesPolicy, ClearDestroys, ResetThreadPool
  <2> QED
    BY <1>2, <1>3, <2>1, SameJobs DEF Steady
<1> QED
  BY <1>4, <1>5

LEMMA SameJobsStep ==
  ASSUME Typed, OpenJobs, [Next]_vars, ~TrackJob, procs' = procs
  PROVE  InJobs' = InJobs
<1>1. \A s \in Targets : (tracker'[s] = "none" <=> tracker[s] = "none")
  BY SettledStep DEF Settled, Associated
<1> QED
  BY <1>1, SameJobs

LEMMA TrackEffect ==
  ASSUME Typed, OpenJobs, Apart, TrackJob
  PROVE  pid[spawned] \in Pids /\ spawned \in Targets /\ Begins(spawned, pid[spawned])
<1> DEFINE s == spawned
           p == pid[spawned]
<1>1. /\ s \in Targets /\ p \in Pids /\ tracker[s] = "none" /\ procs[s] = {p}
      /\ UNCHANGED <<procs, packet>> /\ TypeOK
      /\ tracker \in [Targets -> {"none", "set", "closed", "freed", "destroyed"}]
      /\ tracker' = [tracker EXCEPT ![s] = "set"]
      /\ Post(<<Packet("NEW_PROCESS", s, p)>>)
  BY DEF TrackJob, LockHeld, Typed, TypeOK, OpenJobs, Apart
<1>2. Packet("NEW_PROCESS", s, p) \in Packets /\ InFlight \in Seq(Packets)
  BY <1>1, PacketType, Flight DEF Events
<1> HIDE DEF s, p
<1>3. InFlight' = Append(InFlight, Packet("NEW_PROCESS", s, p))
  <2> DEFINE x == Packet("NEW_PROCESS", s, p)
  <2>1. x \in Packets /\ <<x>> \in Seq(Packets)
    BY <1>2
  <2>2. Post(<<x>>)
    BY <1>1
  <2> HIDE DEF x
  <2>3. InFlight' = InFlight \o <<x>>
    BY <1>1, <2>1, <2>2, FlightPosted
  <2>4. InFlight \o <<x>> = Append(InFlight, x)
    BY <1>2, <2>1, ConcatAppend
  <2> QED
    BY <2>3, <2>4 DEF x
<1>4. \A t \in Targets : <<t, p>> \notin InJobs
  <2> SUFFICES ASSUME NEW t \in Targets, <<t, p>> \in InJobs PROVE FALSE
    OBVIOUS
  <2>1. tracker[t] # "none" /\ p \in procs[t]
    BY InJobsPairs
  <2>2. t # s /\ p \in procs[s]
    BY <1>1, <2>1
  <2> QED
    BY <1>1, <2>1, <2>2 DEF Apart
<1>5. InJobs' = InJobs \union {<<s, p>>}
  <2>1. InJobs' = {sp \in Targets \X Pids : tracker'[sp[1]] # "none" /\ sp[2] \in procs'[sp[1]]}
    BY DEF InJobs, Associated
  <2>2. InJobs = {sp \in Targets \X Pids : tracker[sp[1]] # "none" /\ sp[2] \in procs[sp[1]]}
    BY DEF InJobs, Associated
  <2>3. \A sp \in Targets \X Pids :
          (tracker'[sp[1]] # "none" /\ sp[2] \in procs'[sp[1]]) <=>
          (tracker[sp[1]] # "none" /\ sp[2] \in procs[sp[1]]) \/ sp = <<s, p>>
    BY <1>1
  <2>4. <<s, p>> \in Targets \X Pids
    BY <1>1
  <2> QED
    BY <2>1, <2>2, <2>3, <2>4
<1> QED
  BY <1>1, <1>3, <1>4, <1>5 DEF Begins, Associated, s, p

LEMMA ExitEffect ==
  ASSUME Typed, OpenJobs, Apart, NEW s \in Targets, ProcessExits(s)
  PROVE  Steady \/ \E p \in Pids : Ends(s, p)
<1>1. PICK p \in procs[s] :
        /\ procs' = [procs EXCEPT ![s] = @ \ {p}]
        /\ IF ~Associated(s) THEN UNCHANGED port
           ELSE Post(<<Packet("EXIT_PROCESS", s, p)>> \o
                     (IF procs[s] = {p}
                      THEN <<Packet("ACTIVE_PROCESS_ZERO", s, NoPid)>> ELSE <<>>))
        /\ UNCHANGED <<tracker, packet>>
  BY DEF ProcessExits
<1>2. /\ TypeOK /\ p \in Pids /\ procs \in [Targets -> SUBSET Pids]
      /\ procs'[s] = procs[s] \ {p}
      /\ \A t \in Targets : t # s => procs'[t] = procs[t]
  BY <1>1 DEF Typed, TypeOK
<1>3. CASE ~Associated(s)
  <2>1. InFlight' = InFlight
    BY <1>1, <1>3 DEF InFlight
  <2>2. \A t \in Targets : tracker[t] # "none" => procs'[t] = procs[t]
    BY <1>2, <1>3 DEF Associated
  <2>3. InJobs' = InJobs
    BY <1>1, <2>2, SameJobs
  <2> QED
    BY <2>1, <2>3 DEF Steady
<1>4. CASE Associated(s)
  <2> DEFINE x == Packet("EXIT_PROCESS", s, p)
             z == Packet("ACTIVE_PROCESS_ZERO", s, NoPid)
  <2>1. x \in Packets /\ z \in Packets /\ InFlight \in Seq(Packets)
    BY <1>2, PacketType, Flight DEF Events
  <2>2. <<s, p>> \in InJobs
    BY <1>1, <1>2, <1>4, InJobsPairs DEF Associated
  <2>3. \A t \in Targets : t # s => <<t, p>> \notin InJobs
    BY <1>1, InJobsPairs DEF Apart
  <2>4. InJobs' = InJobs \ {<<s, p>>}
    <3>1. InJobs' = {sp \in Targets \X Pids : tracker'[sp[1]] # "none" /\ sp[2] \in procs'[sp[1]]}
      BY DEF InJobs, Associated
    <3>2. InJobs = {sp \in Targets \X Pids : tracker[sp[1]] # "none" /\ sp[2] \in procs[sp[1]]}
      BY DEF InJobs, Associated
    <3>3. \A sp \in Targets \X Pids :
            (tracker'[sp[1]] # "none" /\ sp[2] \in procs'[sp[1]]) <=>
            (tracker[sp[1]] # "none" /\ sp[2] \in procs[sp[1]]) /\ sp # <<s, p>>
      BY <1>1, <1>2
    <3> QED
      BY <3>1, <3>2, <3>3
  <2>5. CASE procs[s] = {p}
    <3>1. Post(<<x>> \o <<z>>) /\ procs'[s] = {}
      BY <1>1, <1>2, <1>4, <2>5
    <3> HIDE DEF x, z
    <3>2. <<x>> \o <<z>> = <<x, z>> /\ <<x, z>> \in Seq(Packets)
      BY <2>1, TwoPackets
    <3> DEFINE ps == <<x, z>>
    <3>3. Post(ps) /\ ps \in Seq(Packets)
      BY <3>1, <3>2
    <3> HIDE DEF ps
    <3>4. InFlight' = InFlight \o ps
      BY <1>1, <1>2, <3>3, FlightPosted
    <3>5. InFlight \o ps = Append(Append(InFlight, x), z)
      BY <2>1, ConcatAppend DEF ps
    <3> QED
      BY <1>2, <2>2, <2>3, <2>4, <3>1, <3>4, <3>5 DEF Ends, x, z
  <2>6. CASE procs[s] # {p}
    <3>1. Post(<<x>> \o <<>>)
      BY <1>1, <1>4, <2>6
    <3> HIDE DEF x, z
    <3> DEFINE ps == <<x>>
    <3>2. ps \in Seq(Packets)
      BY <2>1
    <3>3. Post(ps)
      <4>1. ps \o <<>> = ps
        <5> HIDE DEF ps
        <5> QED
          BY <3>2, ConcatEmptySeq
      <4> QED
        BY <3>1, <4>1
    <3> HIDE DEF ps
    <3>4. InFlight' = InFlight \o ps
      BY <1>1, <1>2, <3>2, <3>3, FlightPosted
    <3>5. InFlight \o ps = Append(InFlight, x)
      BY <2>1, ConcatAppend DEF ps
    <3> QED
      BY <1>2, <2>2, <2>3, <2>4, <3>4, <3>5 DEF Ends, x, z
  <2> QED
    BY <2>5, <2>6
<1> QED
  BY <1>3, <1>4

LEMMA ChildEffect ==
  ASSUME Typed, OpenJobs, Apart, NEW s \in Targets, ChildCreated(s)
  PROVE  \E p \in Pids : Begins(s, p)
<1>1. PICK p \in FreePids :
        /\ procs' = [procs EXCEPT ![s] = @ \union {p}]
        /\ Post(<<Packet("NEW_PROCESS", s, p)>>)
  BY DEF ChildCreated
<1>2. /\ p \in Pids /\ \A t \in Targets : p \notin procs[t]
  BY FreePid
<1>3. /\ TypeOK /\ Associated(s) /\ level[s] # "limited" /\ UNCHANGED <<tracker, packet>>
      /\ procs \in [Targets -> SUBSET Pids]
      /\ procs'[s] = procs[s] \union {p}
      /\ \A t \in Targets : t # s => procs'[t] = procs[t]
  BY <1>1 DEF ChildCreated, MayCreate, Typed, TypeOK
<1> DEFINE x == Packet("NEW_PROCESS", s, p)
<1>4. x \in Packets /\ <<x>> \in Seq(Packets) /\ InFlight \in Seq(Packets)
  BY <1>2, <1>3, PacketType, Flight DEF Events
<1>5. Post(<<x>>)
  BY <1>1
<1>6. InJobs' = InJobs \union {<<s, p>>}
  <2>1. InJobs' = {sp \in Targets \X Pids : tracker'[sp[1]] # "none" /\ sp[2] \in procs'[sp[1]]}
    BY DEF InJobs, Associated
  <2>2. InJobs = {sp \in Targets \X Pids : tracker[sp[1]] # "none" /\ sp[2] \in procs[sp[1]]}
    BY DEF InJobs, Associated
  <2>3. \A sp \in Targets \X Pids :
          (tracker'[sp[1]] # "none" /\ sp[2] \in procs'[sp[1]]) <=>
          (tracker[sp[1]] # "none" /\ sp[2] \in procs[sp[1]]) \/ sp = <<s, p>>
    BY <1>3 DEF Associated
  <2>4. <<s, p>> \in Targets \X Pids
    BY <1>2
  <2> QED
    BY <2>1, <2>2, <2>3, <2>4
<1>7. \A t \in Targets : <<t, p>> \notin InJobs
  BY <1>2, InJobsPairs
<1> HIDE DEF x
<1>8. InFlight' = Append(InFlight, x)
  <2>1. InFlight' = InFlight \o <<x>>
    BY <1>3, <1>4, <1>5, FlightPosted
  <2> QED
    BY <1>4, <2>1, ConcatAppend
<1> QED
  BY <1>2, <1>3, <1>6, <1>7, <1>8 DEF Begins, Associated, x

LEMMA RefusedEffect ==
  ASSUME Typed, OpenJobs, Apart, NEW s \in Targets, ChildRefused(s), InJobs' = InJobs
  PROVE  \E p \in Pids : Refuses(s, p)
<1>1. PICK p \in FreePids : Post(<<Packet("ACTIVE_PROCESS_LIMIT", s, NoPid),
                                   Packet("EXIT_PROCESS", s, p)>>)
  BY DEF ChildRefused
<1>2. /\ p \in Pids /\ \A t \in Targets : p \notin procs[t]
  BY FreePid
<1>3. /\ TypeOK /\ Associated(s) /\ level[s] = "limited" /\ packet' = packet
      /\ procs[s] # {} /\ procs[s] \in SUBSET Pids
  BY DEF ChildRefused, MayCreate, Typed, TypeOK
<1>4. procs[s] \subseteq {pid[s]}
  BY <1>3 DEF Apart
<1>5. <<s, pid[s]>> \in InJobs
  BY <1>3, <1>4, InJobsPairs DEF Associated
<1>6. \A t \in Targets : <<t, p>> \notin InJobs
  BY <1>2, InJobsPairs
<1> DEFINE x == Packet("ACTIVE_PROCESS_LIMIT", s, NoPid)
           z == Packet("EXIT_PROCESS", s, p)
           ps == <<x, z>>
<1>7. x \in Packets /\ z \in Packets /\ InFlight \in Seq(Packets)
  BY <1>2, <1>3, PacketType, Flight DEF Events
<1> HIDE DEF x, z
<1>8. ps \in Seq(Packets)
  BY <1>7
<1>9. Post(ps)
  BY <1>1 DEF x, z
<1> HIDE DEF ps
<1>10. InFlight' = InFlight \o ps
  BY <1>3, <1>8, <1>9, FlightPosted
<1>11. InFlight \o ps = Append(Append(InFlight, x), z)
  BY <1>7, ConcatAppend DEF ps
<1> QED
  BY <1>2, <1>3, <1>5, <1>6, <1>10, <1>11 DEF Refuses, x, z

LEMMA PostEffect ==
  ASSUME TypeOK, NEW x \in Packets, Post(<<x>>), packet' = packet, InJobs' = InJobs,
         x.event \in {"PROCESS_MEMORY_LIMIT", "QUIT"}
  PROVE  Posts(x)
<1>1. <<x>> \in Seq(Packets) /\ InFlight \in Seq(Packets)
  BY Flight
<1>2. InFlight' = InFlight \o <<x>>
  BY <1>1, FlightPosted
<1> QED
  BY <1>1, <1>2, ConcatAppend DEF Posts

(* The worker's steps that leave the packet in flight, and those that are    *)
(* done with it.                                                             *)
WorkerKeeps == WorkerStarts \/ LookUpNewProcess \/ EraseExitedProcess
               \/ WorkerClosesJob \/ WorkerQuits
WorkerEnds == CountNewProcess \/ CountExitedProcess \/ ActiveProcessLimit
              \/ ProcessMemoryLimit \/ WorkerNotifiesPolicy \/ WorkerNotifiesLate
              \/ NothingToFree

LEMMA WorkerEffect ==
  ASSUME Typed, OpenJobs, AtHand, [Next]_vars, TargetEventsThread
  PROVE  /\ WorkerKeeps => Steady
         /\ WorkerEnds => Takes /\ InFlight[1] = packet
         /\ GetQueuedCompletionStatus =>
              Steady \/ (Takes /\ InFlight[1] = NoPacket)
<1>0. TypeOK /\ packet \in Packets
  BY DEF Typed, TypeOK
<1>1. procs' = procs /\ main' = main
  BY DEF TargetEventsThread, WorkerStarts, GetQueuedCompletionStatus,
     LookUpNewProcess, CountNewProcess, EraseExitedProcess, CountExitedProcess,
     ActiveProcessLimit, ProcessMemoryLimit, WorkerClosesJob, WorkerNotifiesPolicy,
     WorkerNotifiesLate, NothingToFree, WorkerQuits
<1>2. InJobs' = InJobs
  <2>1. ~TrackJob
    BY <1>1 DEF TrackJob
  <2> QED
    BY <1>1, <2>1, SameJobsStep
<1>3. \A x \in Packets : x.event = "QUIT" => x = NoPacket
  BY DEF Packets, Events
<1>4. ASSUME WorkerKeeps PROVE Steady
  <2>1. UNCHANGED <<port, packet>>
    <3>1. CASE WorkerQuits
      <4>1. packet = NoPacket
        BY <1>0, <1>3, <3>1 DEF WorkerQuits, Got, AtHand
      <4> QED
        BY <3>1, <4>1 DEF WorkerQuits
    <3>2. CASE WorkerStarts \/ LookUpNewProcess \/ EraseExitedProcess \/ WorkerClosesJob
      BY <3>2 DEF WorkerStarts, LookUpNewProcess, EraseExitedProcess, WorkerClosesJob
    <3> QED
      BY <1>4, <3>1, <3>2 DEF WorkerKeeps
  <2> QED
    BY <1>2, <2>1 DEF Steady, InFlight
<1>5. ASSUME WorkerEnds PROVE Takes /\ InFlight[1] = packet
  <2>1. port' = port /\ packet' = NoPacket
    BY <1>5 DEF WorkerEnds, PacketDone, CountNewProcess, CountExitedProcess,
       ActiveProcessLimit, ProcessMemoryLimit, WorkerNotifiesPolicy,
       WorkerNotifiesLate, NothingToFree
  <2>2. packet # NoPacket
    BY <1>5 DEF WorkerEnds, Got, NoPacket, AtHand, CountNewProcess,
       CountExitedProcess, ActiveProcessLimit, ProcessMemoryLimit,
       WorkerNotifiesPolicy, WorkerNotifiesLate, NothingToFree
  <2> QED
    BY <1>0, <1>2, <2>1, <2>2, FlightTaken
<1>6. ASSUME GetQueuedCompletionStatus
      PROVE  Steady \/ (Takes /\ InFlight[1] = NoPacket)
  <2>1. /\ packet = NoPacket /\ port # <<>> /\ packet' = Head(port)
        /\ port' = Tail(port)
    BY <1>6 DEF GetQueuedCompletionStatus, AtHand
  <2> QED
    BY <1>0, <1>2, <2>1, FlightGot
<1> QED
  BY <1>4, <1>5, <1>6

(* What a step does to the packets in flight and to the processes.           *)
PacketHandled == WorkerEnds /\ TargetEventsThread
Effect ==
  \/ Steady
  \/ Takes /\ InFlight[1] = NoPacket
  \/ \E s \in Targets, p \in Pids : Begins(s, p) \/ Ends(s, p) \/ Refuses(s, p)
  \/ \E x \in Packets :
       Posts(x) /\ (x.event # "QUIT" => tracker'[x.key] # "none")

LEMMA Effects ==
  ASSUME Typed, OpenJobs, Apart, AtHand, [Next]_vars
  PROVE  /\ PacketHandled => Takes /\ InFlight[1] = packet
         /\ ~PacketHandled => Effect
<1>0. TypeOK
  BY DEF Typed
<1>2. Steady => Effect
  BY DEF Effect
<1>3. ASSUME NEW s \in Targets, NEW p \in Pids, Begins(s, p) \/ Ends(s, p) \/ Refuses(s, p)
      PROVE  Effect
  BY <1>3 DEF Effect
<1>4. ASSUME NEW x \in Packets, Posts(x), x.event # "QUIT" => tracker'[x.key] # "none"
      PROVE  Effect
  BY <1>4 DEF Effect
<1>5. CASE Caller
  <2>1. ASSUME TrackJob PROVE Effect
    BY <1>3, <2>1, TrackEffect
  <2>2. ASSUME DestroyBroker PROVE Effect
    <3>1. InJobs' = InJobs
      <4>1. procs' = procs /\ ~TrackJob
        BY <2>2 DEF DestroyBroker, TrackJob
      <4> QED
        BY <4>1, SameJobsStep
    <3>2. /\ Post(<<NoPacket>>) /\ packet' = packet /\ NoPacket \in Packets
          /\ NoPacket.event = "QUIT"
      BY <2>2, PacketType, PacketFields DEF DestroyBroker
    <3>3. Posts(NoPacket)
      BY <1>0, <3>1, <3>2, PostEffect
    <3> QED
      BY <1>4, <3>2, <3>3
  <2>3. ASSUME ~TrackJob, ~DestroyBroker PROVE Effect
    BY <1>0, <1>2, <1>5, <2>3, SteadyCaller
  <2>4. Effect
    BY <2>1, <2>2, <2>3
  <2>5. worker' = worker
    BY <1>5 DEF Caller, SpawnTarget, SpawnCleanup, AddTarget, TrackJob, LeakPolicy,
       WaitForAllTargets, WaitReturns, DropPolicy, DestroyBroker, WorkerJoined,
       JoinTimesOut, ClearClosesJob, ClearNotifiesPolicy, ClearDestroys,
       ResetThreadPool
  <2>6. ~WorkerEnds
    BY <2>5 DEF WorkerEnds, PacketDone, Got, CountNewProcess, CountExitedProcess,
       ActiveProcessLimit, ProcessMemoryLimit, WorkerNotifiesPolicy,
       WorkerNotifiesLate, NothingToFree
  <2> QED
    BY <2>4, <2>6 DEF PacketHandled
<1>6. ASSUME NEW s \in Targets, Kernel(s)
      PROVE  Effect /\ ~WorkerEnds
  <2>1. /\ worker' = worker /\ main' = main /\ tracker' = tracker /\ packet' = packet
    BY <1>6 DEF Kernel, ProcessExits, ChildCreated, ChildRefused, MemoryExceeded
  <2>2. ~WorkerEnds
    BY <2>1 DEF WorkerEnds, PacketDone, Got, CountNewProcess, CountExitedProcess,
       ActiveProcessLimit, ProcessMemoryLimit, WorkerNotifiesPolicy,
       WorkerNotifiesLate, NothingToFree
  <2>3. procs' = procs => InJobs' = InJobs
    <3>1. ~TrackJob
      BY <2>1 DEF TrackJob
    <3> QED
      BY <3>1, SameJobsStep
  <2>4. CASE ProcessExits(s)
    <3>1. Steady \/ \E p \in Pids : Ends(s, p)
      BY <2>4, ExitEffect
    <3> QED
      BY <1>2, <1>3, <2>2, <3>1
  <2>5. CASE ChildCreated(s)
    BY <1>3, <2>2, <2>5, ChildEffect
  <2>6. CASE ChildRefused(s)
    <3>1. procs' = procs
      BY <2>6 DEF ChildRefused
    <3> QED
      BY <1>3, <2>2, <2>3, <2>6, <3>1, RefusedEffect
  <2>7. CASE MemoryExceeded(s)
    <3>1. PICK p \in procs[s] : Post(<<Packet("PROCESS_MEMORY_LIMIT", s, p)>>)
      BY <2>7 DEF MemoryExceeded
    <3>2. procs' = procs /\ p \in Pids /\ Associated(s)
      BY <2>7, <3>1 DEF MemoryExceeded, Typed, TypeOK
    <3> DEFINE x == Packet("PROCESS_MEMORY_LIMIT", s, p)
    <3>3. x \in Packets /\ x.event = "PROCESS_MEMORY_LIMIT" /\ x.key = s /\ Post(<<x>>)
      BY <3>1, <3>2, PacketType, PacketFields DEF Events
    <3> HIDE DEF x
    <3>4. Posts(x)
      BY <1>0, <2>1, <2>3, <3>2, <3>3, PostEffect
    <3>5. tracker'[x.key] # "none"
      BY <2>1, <3>2, <3>3 DEF Associated
    <3> QED
      BY <1>4, <2>2, <3>3, <3>4, <3>5
  <2> QED
    BY <1>6, <2>4, <2>5, <2>6, <2>7 DEF Kernel
<1>7. CASE TargetEventsThread
  <2>1. ASSUME GetQueuedCompletionStatus PROVE Effect
    BY <1>7, <2>1, WorkerEffect DEF Effect
  <2>2. ASSUME WorkerKeeps PROVE Effect
    BY <1>2, <1>7, <2>2, WorkerEffect
  <2>3. PacketHandled => Takes /\ InFlight[1] = packet
    BY WorkerEffect DEF PacketHandled
  <2>4. ~PacketHandled => GetQueuedCompletionStatus \/ WorkerKeeps
    BY <1>7 DEF TargetEventsThread, WorkerEnds, WorkerKeeps, PacketHandled
  <2> QED
    BY <2>1, <2>2, <2>3, <2>4
<1>8. CASE UNCHANGED vars
  <2>1. UNCHANGED <<port, packet, procs, tracker, worker>>
    BY <1>8 DEF vars
  <2>2. Steady
    BY <2>1, SameJobs DEF Steady, InFlight
  <2>3. ~WorkerEnds
    BY <2>1 DEF WorkerEnds, PacketDone, Got, CountNewProcess, CountExitedProcess,
       ActiveProcessLimit, ProcessMemoryLimit, WorkerNotifiesPolicy,
       WorkerNotifiesLate, NothingToFree
  <2> QED
    BY <1>2, <2>2, <2>3 DEF PacketHandled
<1> QED
  BY <1>5, <1>6, <1>7, <1>8 DEF Next, PacketHandled

OpenKept == \A r \in Pids : Open(InFlight', InJobs', r) => Open(InFlight, InJobs, r)
MainPids == \A s \in Targets : Associated(s) => pid[s] \in Pids

LEMMA AssociatedPid ==
  ASSUME Typed, OpenJobs, Apart
  PROVE  MainPids
<1> SUFFICES ASSUME NEW s \in Targets, Associated(s) PROVE pid[s] \in Pids
  BY DEF MainPids
<1>1. ~(s > spawned)
  BY DEF OpenJobs, Associated
<1>2. s \in Int /\ spawned \in Int
  BY DEF Targets, Typed, TypeOK
<1>3. s <= spawned
  BY <1>1, <1>2
<1> QED
  BY <1>3 DEF Apart

LEMMA FlightStep ==
  ASSUME Typed, OpenJobs, Apart, AtHand, FlightInv, [Next]_vars
  PROVE  FlightNext /\ (~PacketHandled => OpenKept)
<1>0. TypeOK /\ Settled
  BY SettledStep DEF Typed
<1>1. \A s \in Targets : Associated(s) => pid[s] \in Pids
  BY AssociatedPid DEF MainPids
<1>2. CASE PacketHandled
  <2>1. Takes
    BY <1>2, Effects
  <2> QED
    BY <1>0, <1>1, <1>2, <2>1, TakesQueue
<1>3. CASE ~PacketHandled
  <2>1. CASE Steady
    BY <1>0, <2>1, SteadyQueue DEF OpenKept
  <2>2. CASE Takes /\ InFlight[1] = NoPacket
    <3>1. InFlight[1].event \notin {"NEW_PROCESS", "ACTIVE_PROCESS_LIMIT"}
      BY <2>2, PacketFields
    <3> QED
      BY <1>0, <1>1, <2>2, <3>1, TakesQueue DEF OpenKept
  <2>3. ASSUME NEW s \in Targets, NEW p \in Pids,
               Begins(s, p) \/ Ends(s, p) \/ Refuses(s, p)
        PROVE  FlightNext /\ OpenKept
    BY <1>0, <2>3, BeginsQueue, EndsQueue, RefusesQueue DEF OpenKept
  <2>4. ASSUME NEW x \in Packets, Posts(x), x.event # "QUIT" => tracker'[x.key] # "none"
        PROVE  FlightNext /\ OpenKept
    BY <1>0, <2>4, PostsQueue DEF OpenKept
  <2> QED
    BY <1>3, <2>1, <2>2, <2>3, <2>4, Effects DEF Effect
<1> QED
  BY <1>2, <1>3

(* How many packets of a kind are in flight.                                 *)
Count(q, e) == Cardinality({i \in DOMAIN q : q[i].event = e})

LEMMA CountAppended ==
  ASSUME NEW q, NEW x, NEW y, Extended(q, x, y), NEW e
  PROVE  /\ Count(q, e) \in Nat
         /\ Count(y, e) = Count(q, e) + (IF x.event = e THEN 1 ELSE 0)
<1> DEFINE S == {i \in DOMAIN q : q[i].event = e}
           T == {i \in DOMAIN y : y[i].event = e}
           n == Len(q) + 1
<1> USE DEF Extended
<1>1. IsFiniteSet(S) /\ Cardinality(S) \in Nat
  <2>1. IsFiniteSet(1..Len(q))
    BY FS_Interval
  <2>2. S \in SUBSET (1..Len(q))
    OBVIOUS
  <2> HIDE DEF S
  <2> QED
    BY <2>1, <2>2, FS_Subset, FS_CardinalityType
<1>2. n \notin S
  OBVIOUS
<1>3. CASE x.event = e
  <2>1. T = S \union {n}
    BY <1>3
  <2> HIDE DEF S, T, n
  <2>2. Cardinality(T) = Cardinality(S) + 1
    BY <1>1, <1>2, <2>1, FS_AddElement
  <2> QED
    BY <1>1, <1>3, <2>2 DEF Count, S, T
<1>4. CASE x.event # e
  <2>1. T = S
    BY <1>4
  <2> HIDE DEF S, T, n
  <2>2. Cardinality(T) = Cardinality(S)
    BY <2>1
  <2> QED
    BY <1>1, <1>4, <2>2 DEF Count, S, T
<1> QED
  BY <1>3, <1>4

LEMMA CountTaken ==
  ASSUME NEW q, NEW y, Shortened(q, y), NEW e
  PROVE  /\ Count(y, e) \in Nat
         /\ Count(q, e) = Count(y, e) + (IF q[1].event = e THEN 1 ELSE 0)
<1> DEFINE S == {i \in DOMAIN y : y[i].event = e}
           R == {i \in DOMAIN q : i # 1 /\ q[i].event = e}
           T == {i \in DOMAIN q : q[i].event = e}
           f == [i \in S |-> i + 1]
<1> USE DEF Shortened
<1>1. IsFiniteSet(S) /\ Cardinality(S) \in Nat
  <2>1. IsFiniteSet(1..(Len(q) - 1))
    BY FS_Interval
  <2>2. S \in SUBSET (1..(Len(q) - 1))
    OBVIOUS
  <2> HIDE DEF S
  <2> QED
    BY <2>1, <2>2, FS_Subset, FS_CardinalityType
<1>2. Cardinality(R) = Cardinality(S) /\ IsFiniteSet(R)
  <2>1. f \in [S -> R]
    OBVIOUS
  <2>2. \A a, b \in S : f[a] = f[b] => a = b
    OBVIOUS
  <2>3. \A r \in R : \E a \in S : f[a] = r
    <3> SUFFICES ASSUME NEW r \in R PROVE \E a \in S : f[a] = r
      OBVIOUS
    <3>1. r - 1 \in 1..(Len(q) - 1) /\ (r - 1) + 1 = r
      OBVIOUS
    <3>2. y[r - 1] = q[r]
      BY <3>1
    <3>3. r - 1 \in S
      BY <3>1, <3>2
    <3> QED
      BY <3>1, <3>3
  <2> HIDE DEF f, S, R
  <2>4. f \in Bijection(S, R)
    BY <2>1, <2>2, <2>3 DEF Bijection, Injection, Surjection, IsInjective
  <2>5. ExistsBijection(S, R)
    BY <2>4 DEF ExistsBijection
  <2> QED
    BY <1>1, <2>5, FS_Bijection
<1>3. CASE q[1].event = e
  <2>1. T = R \union {1} /\ 1 \notin R
    BY <1>3
  <2> HIDE DEF S, R, T
  <2>2. Cardinality(T) = Cardinality(R) + 1
    BY <1>2, <2>1, FS_AddElement
  <2> QED
    BY <1>1, <1>2, <1>3, <2>2 DEF Count, S, T
<1>4. CASE q[1].event # e
  <2>1. T = R
    BY <1>4
  <2> HIDE DEF S, R, T
  <2>2. Cardinality(T) = Cardinality(R)
    BY <2>1
  <2> QED
    BY <1>1, <1>2, <1>4, <2>2 DEF Count, S, T
<1> QED
  BY <1>3, <1>4

(* The numbers of processes and of packets agree.                            *)
LEMMA JobsFinite ==
  ASSUME TypeOK
  PROVE  IsFiniteSet(InJobs) /\ Cardinality(InJobs) \in Nat
<1>1. IsFiniteSet(Targets) /\ IsFiniteSet(Pids)
  BY BoundsAssumption, PidsAssumption, FS_Interval DEF Targets
<1>2. IsFiniteSet(Targets \X Pids)
  BY <1>1, FS_Product
<1>3. InJobs \subseteq Targets \X Pids
  BY DEF InJobs
<1> QED
  BY <1>2, <1>3, FS_Subset, FS_CardinalityType

Agree(n, q, A) ==
  n + Count(q, "NEW_PROCESS") + Count(q, "ACTIVE_PROCESS_LIMIT")
    = Cardinality(A) + Count(q, "EXIT_PROCESS")

LEMMA AgreeAppended ==
  ASSUME NEW q \in Seq(Packets), NEW x \in Packets, NEW n \in Int,
         NEW A, NEW B, Cardinality(A) \in Int, Cardinality(B) \in Int,
         Agree(n, q, A)
  PROVE  /\ x.event = "NEW_PROCESS" /\ Cardinality(B) = Cardinality(A) + 1
              => Agree(n, Append(q, x), B)
         /\ x.event = "EXIT_PROCESS" /\ Cardinality(B) = Cardinality(A) - 1
              => Agree(n, Append(q, x), B)
         /\ x.event \notin {"NEW_PROCESS", "EXIT_PROCESS", "ACTIVE_PROCESS_LIMIT"}
            /\ B = A => Agree(n, Append(q, x), B)
<1> DEFINE y == Append(q, x)
<1>1. Extended(q, x, y)
  BY SequenceSteps
<1> HIDE DEF y
<1>2. /\ Count(q, "NEW_PROCESS") \in Nat
      /\ Count(y, "NEW_PROCESS") = Count(q, "NEW_PROCESS")
           + (IF x.event = "NEW_PROCESS" THEN 1 ELSE 0)
  BY <1>1, CountAppended
<1>3. /\ Count(q, "ACTIVE_PROCESS_LIMIT") \in Nat
      /\ Count(y, "ACTIVE_PROCESS_LIMIT") = Count(q, "ACTIVE_PROCESS_LIMIT")
           + (IF x.event = "ACTIVE_PROCESS_LIMIT" THEN 1 ELSE 0)
  BY <1>1, CountAppended
<1>4. /\ Count(q, "EXIT_PROCESS") \in Nat
      /\ Count(y, "EXIT_PROCESS") = Count(q, "EXIT_PROCESS")
           + (IF x.event = "EXIT_PROCESS" THEN 1 ELSE 0)
  BY <1>1, CountAppended
<1>5. CASE x.event = "NEW_PROCESS" /\ Cardinality(B) = Cardinality(A) + 1
  <2>1. /\ Count(y, "NEW_PROCESS") = Count(q, "NEW_PROCESS") + 1
        /\ Count(y, "ACTIVE_PROCESS_LIMIT") = Count(q, "ACTIVE_PROCESS_LIMIT")
        /\ Count(y, "EXIT_PROCESS") = Count(q, "EXIT_PROCESS")
    BY <1>2, <1>3, <1>4, <1>5
  <2> DEFINE made == Count(q, "NEW_PROCESS")
             refused == Count(q, "ACTIVE_PROCESS_LIMIT")
             ended == Count(q, "EXIT_PROCESS")
             size == Cardinality(A)
  <2>3. /\ made \in Nat /\ refused \in Nat /\ ended \in Nat /\ size \in Int
        /\ n + made + refused = size + ended
    BY <1>2, <1>3, <1>4 DEF Agree
  <2>4. /\ Count(y, "NEW_PROCESS") = made + 1 /\ Count(y, "ACTIVE_PROCESS_LIMIT") = refused
        /\ Count(y, "EXIT_PROCESS") = ended /\ Cardinality(B) = size + 1
    BY <1>5, <2>1
  <2> HIDE DEF made, refused, ended, size
  <2>5. n + (made + 1) + refused = (size + 1) + ended
    BY <2>3
  <2>2. Agree(n, y, B)
    BY <2>4, <2>5 DEF Agree
  <2> QED
    BY <1>5, <2>2 DEF y
<1>6. CASE x.event = "EXIT_PROCESS" /\ Cardinality(B) = Cardinality(A) - 1
  BY <1>2, <1>3, <1>4, <1>6 DEF Agree, y
<1>7. CASE /\ x.event \notin {"NEW_PROCESS", "EXIT_PROCESS", "ACTIVE_PROCESS_LIMIT"}
           /\ B = A
  BY <1>2, <1>3, <1>4, <1>7 DEF Agree, y
<1> QED
  BY <1>5, <1>6, <1>7 DEF y

(* A refused process is counted in and out by two packets in a row.          *)
LEMMA AgreeRefused ==
  ASSUME NEW q \in Seq(Packets), NEW x \in Packets, NEW z \in Packets, NEW n \in Int,
         NEW A, Cardinality(A) \in Int, Agree(n, q, A),
         x.event = "ACTIVE_PROCESS_LIMIT", z.event = "EXIT_PROCESS"
  PROVE  Agree(n, Append(Append(q, x), z), A)
<1> DEFINE y == Append(q, x)
           w == Append(y, z)
<1>1. y \in Seq(Packets)
  OBVIOUS
<1>2. Extended(q, x, y) /\ Extended(y, z, w)
  BY <1>1, SequenceSteps
<1> HIDE DEF y, w
<1>3. /\ Count(q, "NEW_PROCESS") \in Nat
      /\ Count(w, "NEW_PROCESS") = Count(q, "NEW_PROCESS")
  BY <1>2, CountAppended
<1>4. /\ Count(q, "ACTIVE_PROCESS_LIMIT") \in Nat
      /\ Count(w, "ACTIVE_PROCESS_LIMIT") = Count(q, "ACTIVE_PROCESS_LIMIT") + 1
  BY <1>2, CountAppended
<1>5. /\ Count(q, "EXIT_PROCESS") \in Nat
      /\ Count(w, "EXIT_PROCESS") = Count(q, "EXIT_PROCESS") + 1
  BY <1>2, CountAppended
<1> QED
  BY <1>3, <1>4, <1>5 DEF Agree, w, y

LEMMA AgreeTaken ==
  ASSUME NEW q \in Seq(Packets), q # <<>>, NEW n \in Int, NEW m \in Int,
         NEW A, Cardinality(A) \in Int, Agree(n, q, A),
         m = n + (CASE q[1].event \in {"NEW_PROCESS", "ACTIVE_PROCESS_LIMIT"} -> 1
                    [] q[1].event = "EXIT_PROCESS" -> 0 - 1
                    [] OTHER -> 0)
  PROVE  Agree(m, Tail(q), A)
<1> DEFINE y == Tail(q)
<1>1. Shortened(q, y)
  BY SequenceSteps
<1> HIDE DEF y
<1>2. /\ Count(y, "NEW_PROCESS") \in Nat
      /\ Count(q, "NEW_PROCESS") = Count(y, "NEW_PROCESS")
           + (IF q[1].event = "NEW_PROCESS" THEN 1 ELSE 0)
  BY <1>1, CountTaken
<1>3. /\ Count(y, "ACTIVE_PROCESS_LIMIT") \in Nat
      /\ Count(q, "ACTIVE_PROCESS_LIMIT") = Count(y, "ACTIVE_PROCESS_LIMIT")
           + (IF q[1].event = "ACTIVE_PROCESS_LIMIT" THEN 1 ELSE 0)
  BY <1>1, CountTaken
<1>4. /\ Count(y, "EXIT_PROCESS") \in Nat
      /\ Count(q, "EXIT_PROCESS") = Count(y, "EXIT_PROCESS")
           + (IF q[1].event = "EXIT_PROCESS" THEN 1 ELSE 0)
  BY <1>1, CountTaken
<1>5. CASE q[1].event = "NEW_PROCESS"
  BY <1>2, <1>3, <1>4, <1>5 DEF Agree, y
<1>6. CASE q[1].event = "ACTIVE_PROCESS_LIMIT"
  BY <1>2, <1>3, <1>4, <1>6 DEF Agree, y
<1>7. CASE q[1].event = "EXIT_PROCESS"
  <2>1. /\ Count(q, "NEW_PROCESS") = Count(y, "NEW_PROCESS")
        /\ Count(q, "ACTIVE_PROCESS_LIMIT") = Count(y, "ACTIVE_PROCESS_LIMIT")
        /\ Count(q, "EXIT_PROCESS") = Count(y, "EXIT_PROCESS") + 1
    BY <1>2, <1>3, <1>4, <1>7
  <2>2. m = n - 1
    BY <1>7
  <2>3. /\ Count(y, "NEW_PROCESS") \in Nat /\ Count(y, "EXIT_PROCESS") \in Nat
        /\ Count(y, "ACTIVE_PROCESS_LIMIT") \in Nat
    BY <1>2, <1>3, <1>4
  <2>4. n + Count(y, "NEW_PROCESS") + Count(y, "ACTIVE_PROCESS_LIMIT")
          = Cardinality(A) + Count(y, "EXIT_PROCESS") + 1
    BY <2>1, <2>3 DEF Agree
  <2>5. m + Count(y, "NEW_PROCESS") + Count(y, "ACTIVE_PROCESS_LIMIT")
          = Cardinality(A) + Count(y, "EXIT_PROCESS")
    BY <2>2, <2>3, <2>4
  <2>6. Agree(m, y, A)
    BY <2>5 DEF Agree
  <2> QED
    BY <2>6 DEF y
<1>8. CASE q[1].event \notin {"NEW_PROCESS", "ACTIVE_PROCESS_LIMIT", "EXIT_PROCESS"}
  BY <1>2, <1>3, <1>4, <1>8 DEF Agree, y
<1> QED
  BY <1>5, <1>6, <1>7, <1>8

(* How target_counter follows the packets the worker is done with.           *)
OtherStep == Caller \/ (\E s \in Targets : Kernel(s)) \/ UNCHANGED vars
Worth(x) == CASE x.event \in {"NEW_PROCESS", "ACTIVE_PROCESS_LIMIT"} -> 1
              [] x.event = "EXIT_PROCESS" -> 0 - 1
              [] OTHER -> 0

LEMMA OthersLeaveWorker ==
  ASSUME OtherStep
  PROVE  /\ UNCHANGED <<worker, packet, known, counters>>
         /\ ids \subseteq ids'
         /\ ~WorkerEnds
<1>1. UNCHANGED <<worker, packet, known, counters>>
  BY DEF OtherStep, Caller, SpawnTarget, SpawnCleanup, AddTarget, TrackJob,
     LeakPolicy, WaitForAllTargets, WaitReturns, DropPolicy, DestroyBroker,
     WorkerJoined, JoinTimesOut, ClearClosesJob, ClearNotifiesPolicy,
     ClearDestroys, ResetThreadPool, Kernel, ProcessExits, ChildCreated,
     ChildRefused, MemoryExceeded, vars
<1>2. ids \subseteq ids'
  BY DEF OtherStep, Caller, SpawnTarget, SpawnCleanup, AddTarget, TrackJob,
     LeakPolicy, WaitForAllTargets, WaitReturns, DropPolicy, DestroyBroker,
     WorkerJoined, JoinTimesOut, ClearClosesJob, ClearNotifiesPolicy,
     ClearDestroys, ResetThreadPool, Kernel, ProcessExits, ChildCreated,
     ChildRefused, MemoryExceeded, vars
<1>3. ~WorkerEnds
  BY <1>1 DEF WorkerEnds, PacketDone, Got, CountNewProcess, CountExitedProcess,
     ActiveProcessLimit, ProcessMemoryLimit, WorkerNotifiesPolicy,
     WorkerNotifiesLate, NothingToFree
<1> QED
  BY <1>1, <1>2, <1>3

LEMMA CounterSteps ==
  ASSUME Typed, AtHand, [Next]_vars
  PROVE  /\ ~PacketHandled => target_counter' = target_counter
         /\ PacketHandled => target_counter' = target_counter + Worth(packet)
<1>0. target_counter \in Int
  BY DEF Typed, TypeOK
<1>1. CASE OtherStep
  BY <1>1, OthersLeaveWorker DEF PacketHandled
<1>2. CASE TargetEventsThread /\ WorkerEnds
  <2>1. CASE CountNewProcess
    <3>1. Worth(packet) = 1 /\ target_counter' = target_counter + 1
      BY <2>1 DEF CountNewProcess, AtHand, Worth
    <3> QED
      BY <1>2, <3>1 DEF PacketHandled
  <2>2. CASE CountExitedProcess
    <3>1. Worth(packet) = 0 - 1
      BY <2>2 DEF CountExitedProcess, AtHand, Worth
    <3>2. target_counter' = target_counter - 1
      BY <2>2 DEF CountExitedProcess
    <3> QED
      BY <1>0, <1>2, <3>1, <3>2 DEF PacketHandled
  <2>3. CASE ActiveProcessLimit
    <3>1. Worth(packet) = 1 /\ target_counter' = target_counter + 1
      BY <2>3 DEF ActiveProcessLimit, Got, Worth
    <3> QED
      BY <1>2, <3>1 DEF PacketHandled
  <2>4. CASE \/ ProcessMemoryLimit \/ WorkerNotifiesPolicy \/ WorkerNotifiesLate
             \/ NothingToFree
    <3>1. packet.event \notin {"NEW_PROCESS", "ACTIVE_PROCESS_LIMIT", "EXIT_PROCESS"}
      BY <2>4 DEF ProcessMemoryLimit, WorkerNotifiesPolicy, WorkerNotifiesLate,
         NothingToFree, Got, AtHand
    <3>2. Worth(packet) = 0 /\ target_counter' = target_counter
      BY <2>4, <3>1 DEF Worth, ProcessMemoryLimit, WorkerNotifiesPolicy,
         WorkerNotifiesLate, NothingToFree
    <3> QED
      BY <1>0, <1>2, <3>2 DEF PacketHandled
  <2> QED
    BY <1>2, <2>1, <2>2, <2>3, <2>4 DEF WorkerEnds, PacketHandled
<1>3. CASE TargetEventsThread /\ ~WorkerEnds
  BY <1>3 DEF TargetEventsThread, WorkerEnds, PacketHandled, WorkerStarts,
     GetQueuedCompletionStatus, LookUpNewProcess, EraseExitedProcess,
     WorkerClosesJob, WorkerQuits
<1> QED
  BY <1>1, <1>2, <1>3 DEF Next, OtherStep

LEMMA CountsMean == CountsAgree <=> Agree(target_counter, InFlight, InJobs)
BY DEF CountsAgree, Agree, Pending, Count

LEMMA CountsMeanNext ==
  Agree(target_counter', InFlight', InJobs') => CountsAgree'
BY DEF CountsAgree, Agree, Pending, Count

LEMMA CountsStep ==
  ASSUME Typed, OpenJobs, Apart, AtHand, CountsAgree, [Next]_vars
  PROVE  CountsAgree'
<1>0. /\ TypeOK /\ target_counter \in Int /\ TypeOK'
      /\ target_counter' \in Int
      /\ InFlight \in Seq(Packets)
      /\ IsFiniteSet(InJobs) /\ Cardinality(InJobs) \in Nat
      /\ Agree(target_counter, InFlight, InJobs)
  BY TypedStep, JobsFinite, Flight, CountsMean DEF Typed, TypeOK
<1>1. CASE PacketHandled
  <2>1. InFlight # <<>> /\ InFlight' = Tail(InFlight) /\ InJobs' = InJobs
        /\ InFlight[1] = packet
    BY <1>1, Effects DEF Takes
  <2>2. target_counter' = target_counter + Worth(InFlight[1])
    BY <1>1, <2>1, CounterSteps
  <2>3. Agree(target_counter', Tail(InFlight), InJobs)
    BY <1>0, <2>1, <2>2, AgreeTaken DEF Worth
  <2> QED
    BY <2>1, <2>3, CountsMeanNext
<1>2. CASE ~PacketHandled
  <2>0. target_counter' = target_counter /\ Effect
    BY <1>2, CounterSteps, Effects
  <2>1. CASE Steady
    BY <1>0, <2>0, <2>1, CountsMeanNext DEF Steady
  <2>2. CASE Takes /\ InFlight[1] = NoPacket
    <3>1. InFlight[1].event = "QUIT"
      BY <2>2, PacketFields
    <3>2. target_counter' = target_counter + Worth(InFlight[1])
      BY <1>0, <2>0, <3>1 DEF Worth
    <3>3. Agree(target_counter', Tail(InFlight), InJobs)
      BY <1>0, <2>2, <3>2, AgreeTaken DEF Worth, Takes
    <3> QED
      BY <2>2, <3>3, CountsMeanNext DEF Takes
  <2>3. ASSUME NEW s \in Targets, NEW p \in Pids, Begins(s, p)
        PROVE  CountsAgree'
    <3> DEFINE x == Packet("NEW_PROCESS", s, p)
    <3>1. x \in Packets /\ x.event = "NEW_PROCESS"
      BY PacketType, PacketFields DEF Events
    <3>2. InFlight' = Append(InFlight, x)
      BY <2>3 DEF Begins
    <3>3. /\ Cardinality(InJobs') = Cardinality(InJobs) + 1
          /\ Cardinality(InJobs') \in Int
      <4>1. <<s, p>> \notin InJobs /\ InJobs' = InJobs \union {<<s, p>>}
        BY <2>3 DEF Begins
      <4>2. Cardinality(InJobs') = Cardinality(InJobs) + 1
        BY <1>0, <4>1, FS_AddElement
      <4> QED
        BY <1>0, <4>2
    <3> HIDE DEF x
    <3>4. Agree(target_counter, Append(InFlight, x), InJobs')
      BY <1>0, <3>1, <3>3, AgreeAppended
    <3> QED
      BY <2>0, <3>2, <3>4, CountsMeanNext
  <2>4. ASSUME NEW s \in Targets, NEW p \in Pids, Ends(s, p)
        PROVE  CountsAgree'
    <3> DEFINE x == Packet("EXIT_PROCESS", s, p)
               z == Packet("ACTIVE_PROCESS_ZERO", s, NoPid)
    <3>1. /\ x \in Packets /\ x.event = "EXIT_PROCESS"
          /\ z \in Packets /\ z.event = "ACTIVE_PROCESS_ZERO"
      BY PacketType, PacketFields DEF Events
    <3>2. InFlight' \in {Append(InFlight, x), Append(Append(InFlight, x), z)}
      BY <2>4 DEF Ends
    <3>3. /\ Cardinality(InJobs') = Cardinality(InJobs) - 1
          /\ Cardinality(InJobs') \in Int
      <4>1. <<s, p>> \in InJobs /\ InJobs' = InJobs \ {<<s, p>>}
        BY <2>4 DEF Ends
      <4>2. Cardinality(InJobs') = Cardinality(InJobs) - 1
        BY <1>0, <4>1, FS_RemoveElement
      <4> QED
        BY <1>0, <4>2
    <3> HIDE DEF x, z
    <3>4. Agree(target_counter, Append(InFlight, x), InJobs')
      BY <1>0, <3>1, <3>3, AgreeAppended
    <3>5. Agree(target_counter, Append(Append(InFlight, x), z), InJobs')
      <4>1. Append(InFlight, x) \in Seq(Packets)
        BY <1>0, <3>1
      <4>2. z.event \notin {"NEW_PROCESS", "EXIT_PROCESS", "ACTIVE_PROCESS_LIMIT"}
        BY <3>1
      <4> QED
        BY <1>0, <3>1, <3>3, <3>4, <4>1, <4>2, AgreeAppended
    <3> QED
      BY <2>0, <3>2, <3>4, <3>5, CountsMeanNext
  <2>5. ASSUME NEW s \in Targets, NEW p \in Pids, Refuses(s, p)
        PROVE  CountsAgree'
    <3> DEFINE x == Packet("ACTIVE_PROCESS_LIMIT", s, NoPid)
               z == Packet("EXIT_PROCESS", s, p)
    <3>1. /\ x \in Packets /\ x.event = "ACTIVE_PROCESS_LIMIT"
          /\ z \in Packets /\ z.event = "EXIT_PROCESS"
      BY PacketType, PacketFields DEF Events
    <3>2. InFlight' = Append(Append(InFlight, x), z) /\ InJobs' = InJobs
      BY <2>5 DEF Refuses
    <3> HIDE DEF x, z
    <3>3. Agree(target_counter, Append(Append(InFlight, x), z), InJobs)
      BY <1>0, <3>1, AgreeRefused
    <3> QED
      BY <2>0, <3>2, <3>3, CountsMeanNext
  <2>6. ASSUME NEW x \in Packets, Posts(x)
        PROVE  CountsAgree'
    <3>1. /\ x.event \notin {"NEW_PROCESS", "EXIT_PROCESS", "ACTIVE_PROCESS_LIMIT"}
          /\ InFlight' = Append(InFlight, x) /\ InJobs' = InJobs
      BY <2>6 DEF Posts
    <3>2. Agree(target_counter, Append(InFlight, x), InJobs)
      BY <1>0, <3>1, AgreeAppended
    <3> QED
      BY <2>0, <3>1, <3>2, CountsMeanNext
  <2> QED
    BY <2>0, <2>1, <2>2, <2>3, <2>4, <2>5, <2>6 DEF Effect
<1> QED
  BY <1>1, <1>2

(* An EXIT_PROCESS packet names a process.                                   *)
NamedIn(q) == \A i \in DOMAIN q : q[i].event = "EXIT_PROCESS" => q[i].ovl \in Pids
Named == NamedIn(InFlight)

LEMMA NamedAppended ==
  ASSUME NEW q \in Seq(Packets), NEW x \in Packets, NamedIn(q),
         x.event = "EXIT_PROCESS" => x.ovl \in Pids
  PROVE  NamedIn(Append(q, x)) /\ Append(q, x) \in Seq(Packets)
<1> DEFINE y == Append(q, x)
<1>1. Extended(q, x, y) /\ y \in Seq(Packets)
  BY SequenceSteps
<1> HIDE DEF y
<1>2. NamedIn(y)
  <2> SUFFICES ASSUME NEW i \in DOMAIN y, y[i].event = "EXIT_PROCESS"
               PROVE  y[i].ovl \in Pids
    BY DEF NamedIn
  <2>1. CASE i \in DOMAIN q
    BY <1>1, <2>1 DEF Extended, NamedIn
  <2>2. CASE i \notin DOMAIN q
    BY <1>1, <2>2 DEF Extended
  <2> QED
    BY <2>1, <2>2
<1> QED
  BY <1>1, <1>2 DEF y

LEMMA NamedStep ==
  ASSUME Typed, OpenJobs, Apart, AtHand, Named, [Next]_vars
  PROVE  Named'
<1>0. TypeOK /\ InFlight \in Seq(Packets) /\ NamedIn(InFlight)
  BY Flight DEF Typed, Named
<1>1. \A e, s, p : Packet(e, s, p).ovl = p
  BY DEF Packet
<1>2. ASSUME Takes PROVE NamedIn(InFlight')
  <2>1. Shortened(InFlight, InFlight')
    BY <1>0, <1>2, SequenceSteps DEF Takes
  <2> QED
    BY <1>0, <2>1 DEF NamedIn, Shortened
<1>3. CASE PacketHandled
  BY <1>2, <1>3, Effects DEF Named
<1>4. CASE ~PacketHandled
  <2>1. CASE Steady
    BY <1>0, <2>1 DEF Steady, Named
  <2>2. ASSUME NEW s \in Targets, NEW p \in Pids, Begins(s, p)
        PROVE  NamedIn(InFlight')
    <3>1. /\ Packet("NEW_PROCESS", s, p) \in Packets
          /\ Packet("NEW_PROCESS", s, p).event = "NEW_PROCESS"
      BY PacketType, PacketFields DEF Events
    <3> QED
      BY <1>0, <2>2, <3>1, NamedAppended DEF Begins
  <2>3. ASSUME NEW s \in Targets, NEW p \in Pids, Ends(s, p)
        PROVE  NamedIn(InFlight')
    <3> DEFINE x == Packet("EXIT_PROCESS", s, p)
               z == Packet("ACTIVE_PROCESS_ZERO", s, NoPid)
    <3>1. /\ x \in Packets /\ x.ovl \in Pids
          /\ z \in Packets /\ z.event = "ACTIVE_PROCESS_ZERO"
      BY <1>1, PacketType, PacketFields DEF Events
    <3>2. InFlight' \in {Append(InFlight, x), Append(Append(InFlight, x), z)}
      BY <2>3 DEF Ends
    <3> HIDE DEF x, z
    <3>3. NamedIn(Append(InFlight, x)) /\ Append(InFlight, x) \in Seq(Packets)
      BY <1>0, <3>1, NamedAppended
    <3>4. NamedIn(Append(Append(InFlight, x), z))
      BY <3>1, <3>3, NamedAppended
    <3> QED
      BY <3>2, <3>3, <3>4
  <2>4. ASSUME NEW s \in Targets, NEW p \in Pids, Refuses(s, p)
        PROVE  NamedIn(InFlight')
    <3> DEFINE x == Packet("ACTIVE_PROCESS_LIMIT", s, NoPid)
               z == Packet("EXIT_PROCESS", s, p)
    <3>1. /\ x \in Packets /\ x.event = "ACTIVE_PROCESS_LIMIT"
          /\ z \in Packets /\ z.ovl \in Pids
      BY <1>1, PacketType, PacketFields DEF Events
    <3>2. InFlight' = Append(Append(InFlight, x), z)
      BY <2>4 DEF Refuses
    <3> HIDE DEF x, z
    <3>3. NamedIn(Append(InFlight, x)) /\ Append(InFlight, x) \in Seq(Packets)
      BY <1>0, <3>1, NamedAppended
    <3>4. NamedIn(Append(Append(InFlight, x), z))
      BY <3>1, <3>3, NamedAppended
    <3> QED
      BY <3>2, <3>4
  <2>5. ASSUME NEW x \in Packets, Posts(x) PROVE NamedIn(InFlight')
    BY <1>0, <2>5, NamedAppended DEF Posts
  <2> QED
    BY <1>2, <1>4, <2>1, <2>2, <2>3, <2>4, <2>5, Effects DEF Effect, Named
<1> QED
  BY <1>3, <1>4

(* target_counter covers every process that has been counted in and not out. *)
Counted == {p \in Pids : Open(InFlight, InJobs, p)}
CountedNext == {p \in Pids : Open(InFlight', InJobs', p)}
CounterOK == target_counter >= Cardinality(Counted)

LEMMA PidSets == \A S \in SUBSET Pids : IsFiniteSet(S) /\ Cardinality(S) \in Nat
BY PidsAssumption, FS_Subset, FS_CardinalityType

LEMMA OneMore ==
  ASSUME NEW S \in SUBSET Pids, NEW T \in SUBSET Pids, NEW p, T \subseteq S \union {p}
  PROVE  Cardinality(T) <= Cardinality(S) + 1
<1>1. /\ IsFiniteSet(S) /\ Cardinality(S) \in Nat /\ Cardinality(T) \in Nat
      /\ IsFiniteSet(S \union {p}) /\ Cardinality(S \union {p}) \in Nat
  BY PidSets, FS_AddElement, FS_CardinalityType
<1>2. Cardinality(T) <= Cardinality(S \union {p})
  BY <1>1, FS_Subset
<1>3. Cardinality(S \union {p}) <= Cardinality(S) + 1
  BY <1>1, FS_AddElement
<1> QED
  BY <1>1, <1>2, <1>3

LEMMA OneLess ==
  ASSUME NEW S \in SUBSET Pids, NEW T \in SUBSET Pids, NEW p \in S, T \subseteq S \ {p}
  PROVE  Cardinality(T) <= Cardinality(S) - 1
<1>1. /\ IsFiniteSet(S) /\ Cardinality(S) \in Nat /\ Cardinality(T) \in Nat
      /\ IsFiniteSet(S \ {p}) /\ Cardinality(S \ {p}) \in Nat
  BY PidSets, FS_RemoveElement, FS_CardinalityType
<1>2. Cardinality(T) <= Cardinality(S \ {p})
  BY <1>1, FS_Subset
<1>3. Cardinality(S \ {p}) = Cardinality(S) - 1
  BY <1>1, FS_RemoveElement
<1> QED
  BY <1>1, <1>2, <1>3

LEMMA NoMore ==
  ASSUME NEW S \in SUBSET Pids, NEW T \in SUBSET S
  PROVE  Cardinality(T) <= Cardinality(S)
BY PidSets, FS_Subset

(* What the packet handled does to the processes counted.                    *)
LEMMA CountedStep ==
  ASSUME Typed, OpenJobs, Apart, AtHand, FlightInv, Named, [Next]_vars, PacketHandled
  PROVE  /\ packet.event = "EXIT_PROCESS" =>
              packet.ovl \in Counted /\ CountedNext \subseteq Counted \ {packet.ovl}
         /\ packet.event = "NEW_PROCESS" =>
              CountedNext \subseteq Counted \union {packet.ovl}
         /\ packet.event = "ACTIVE_PROCESS_LIMIT" =>
              CountedNext \subseteq Counted \union {InFlight[2].ovl} /\ Counted # {}
         /\ packet.event \notin {"NEW_PROCESS", "EXIT_PROCESS", "ACTIVE_PROCESS_LIMIT"}
              => CountedNext \subseteq Counted
<1>0. /\ TypeOK /\ Settled /\ Takes /\ InFlight[1] = packet /\ InFlight # <<>>
      /\ \A s \in Targets : Associated(s) => pid[s] \in Pids
  BY SettledStep, AssociatedPid, Effects DEF Typed, MainPids, Takes
<1>1. /\ \A r \in Pids : Open(InFlight', InJobs', r) =>
           \/ Open(InFlight, InJobs, r) /\ ~Exit(packet, r)
           \/ packet.event = "NEW_PROCESS" /\ packet.ovl = r
           \/ packet.event = "ACTIVE_PROCESS_LIMIT" /\ InFlight[2].ovl = r
      /\ \A r \in Pids : Exit(packet, r) => Open(InFlight, InJobs, r)
      /\ Limit(packet) => \E r \in Pids : Open(InFlight, InJobs, r)
  <2>0. TypeOK /\ FlightInv /\ Settled /\ Takes
        /\ \A s \in Targets : Associated(s) => pid[s] \in Pids
    BY <1>0
  <2>1. \A r \in Pids : Open(InFlight', InJobs', r) =>
          \/ Open(InFlight, InJobs, r) /\ ~Exit(InFlight[1], r)
          \/ InFlight[1].event = "NEW_PROCESS" /\ InFlight[1].ovl = r
          \/ InFlight[1].event = "ACTIVE_PROCESS_LIMIT" /\ InFlight[2].ovl = r
    BY <2>0, TakesQueue
  <2>2. /\ \A r \in Pids : Exit(InFlight[1], r) => Open(InFlight, InJobs, r)
        /\ Limit(InFlight[1]) => \E r \in Pids : Open(InFlight, InJobs, r)
    BY <2>0, TakesQueue
  <2> QED
    BY <1>0, <2>1, <2>2
<1>2. packet.event = "EXIT_PROCESS" => packet.ovl \in Pids /\ Exit(packet, packet.ovl)
  <2>1. 1 \in DOMAIN InFlight
    <3>1. InFlight \in Seq(Packets)
      BY <1>0, Flight
    <3> QED
      BY <1>0, <3>1
  <2> QED
    BY <1>0, <2>1 DEF Named, NamedIn, Exit
<1>3. packet.event = "EXIT_PROCESS" => Exit(packet, packet.ovl)
  BY DEF Exit
<1>4. ASSUME packet.event = "EXIT_PROCESS"
      PROVE  packet.ovl \in Counted /\ CountedNext \subseteq Counted \ {packet.ovl}
  BY <1>1, <1>2, <1>4 DEF Counted, CountedNext
<1>5. ASSUME packet.event = "NEW_PROCESS"
      PROVE  CountedNext \subseteq Counted \union {packet.ovl}
  BY <1>1, <1>5 DEF Counted, CountedNext
<1>6. ASSUME packet.event = "ACTIVE_PROCESS_LIMIT"
      PROVE  CountedNext \subseteq Counted \union {InFlight[2].ovl} /\ Counted # {}
  BY <1>1, <1>6 DEF Counted, CountedNext, Limit
<1>7. ASSUME packet.event \notin {"NEW_PROCESS", "EXIT_PROCESS", "ACTIVE_PROCESS_LIMIT"}
      PROVE  CountedNext \subseteq Counted
  BY <1>1, <1>7 DEF Counted, CountedNext
<1> QED
  BY <1>4, <1>5, <1>6, <1>7

LEMMA CounterStep ==
  ASSUME Typed, OpenJobs, Apart, AtHand, FlightInv, Named, CounterOK, [Next]_vars
  PROVE  target_counter' >= Cardinality(CountedNext)
<1>0. /\ target_counter \in Int /\ Counted \in SUBSET Pids
      /\ CountedNext \in SUBSET Pids
      /\ Cardinality(Counted) \in Nat /\ Cardinality(CountedNext) \in Nat
      /\ target_counter >= Cardinality(Counted)
  BY PidSets DEF Typed, TypeOK, Counted, CountedNext, CounterOK
<1>1. CASE ~PacketHandled
  <2>1. target_counter' = target_counter /\ OpenKept
    BY <1>1, CounterSteps, FlightStep
  <2>2. CountedNext \subseteq Counted
    BY <2>1 DEF OpenKept, Counted, CountedNext
  <2>3. Cardinality(CountedNext) <= Cardinality(Counted)
    BY <1>0, <2>2, NoMore
  <2> QED
    BY <1>0, <2>1, <2>3
<1>2. CASE PacketHandled
  <2>0. target_counter' = target_counter + Worth(packet)
    BY <1>2, CounterSteps
  <2>1. CASE packet.event = "EXIT_PROCESS"
    <3>1. packet.ovl \in Counted /\ CountedNext \subseteq Counted \ {packet.ovl}
      BY <1>2, <2>1, CountedStep
    <3>2. Cardinality(CountedNext) <= Cardinality(Counted) - 1
      BY <1>0, <3>1, OneLess
    <3>3. target_counter' = target_counter - 1
      BY <1>0, <2>0, <2>1 DEF Worth
    <3> QED
      BY <1>0, <3>2, <3>3
  <2>2. CASE packet.event \in {"NEW_PROCESS", "ACTIVE_PROCESS_LIMIT"}
    <3>1. \E p : CountedNext \subseteq Counted \union {p}
      BY <1>2, <2>2, CountedStep
    <3>2. Cardinality(CountedNext) <= Cardinality(Counted) + 1
      BY <1>0, <3>1, OneMore
    <3>3. target_counter' = target_counter + 1
      BY <1>0, <2>0, <2>2 DEF Worth
    <3> QED
      BY <1>0, <3>2, <3>3
  <2>3. CASE packet.event \notin {"NEW_PROCESS", "EXIT_PROCESS", "ACTIVE_PROCESS_LIMIT"}
    <3>1. CountedNext \subseteq Counted
      BY <1>2, <2>3, CountedStep
    <3>2. Cardinality(CountedNext) <= Cardinality(Counted)
      BY <1>0, <3>1, NoMore
    <3>3. target_counter' = target_counter
      BY <1>0, <2>0, <2>3 DEF Worth
    <3> QED
      BY <1>0, <3>2, <3>3
  <2> QED
    BY <2>1, <2>2, <2>3
<1> QED
  BY <1>1, <1>2

(* untracked_target_counter covers the processes counted that are not in     *)
(* child_process_ids_, and the one the worker has looked up and not counted  *)
(* yet; known keeps the answer for the one it has just erased.               *)
Owes(p) ==
  /\ IF worker = "erased" /\ p = packet.ovl THEN ~known ELSE p \notin ids
  /\ p \in Counted \/ (worker = "counted" /\ p = packet.ovl)
Owing == {p \in Pids : Owes(p)}
OwesNext(p) ==
  /\ IF worker' = "erased" /\ p = packet'.ovl THEN ~known' ELSE p \notin ids'
  /\ p \in CountedNext \/ (worker' = "counted" /\ p = packet'.ovl)
OwingNext == {p \in Pids : OwesNext(p)}
UntrackedOK == untracked_target_counter >= Cardinality(Owing)

(* The processes counted and not known, when the worker is between packets.  *)
LEMMA PlainOwes ==
  ASSUME worker' \notin {"erased", "counted"}, NEW p, OwesNext(p)
  PROVE  p \notin ids' /\ p \in CountedNext
BY DEF OwesNext

LEMMA UntrackedSteps ==
  ASSUME Typed, OpenJobs, Apart, AtHand, FlightInv, Named, [Next]_vars
  PROVE  LET n == untracked_target_counter
             m == untracked_target_counter'
         IN  \/ m = n /\ OwingNext \subseteq Owing
             \/ m = n + 1 /\ \E p : OwingNext \subseteq Owing \union {p}
             \/ m = n - 1 /\ \E p \in Owing : OwingNext \subseteq Owing \ {p}
<1> DEFINE n == untracked_target_counter
           m == untracked_target_counter'
           Same == m = n /\ OwingNext \subseteq Owing
           More == m = n + 1 /\ \E p : OwingNext \subseteq Owing \union {p}
           Less == m = n - 1 /\ \E p \in Owing : OwingNext \subseteq Owing \ {p}
<1>0. n \in Int
  BY DEF Typed, TypeOK
<1>1. ~PacketHandled => CountedNext \subseteq Counted
  BY FlightStep DEF OpenKept, Counted, CountedNext
<1>2. CASE OtherStep
  <2>1. ~PacketHandled /\ UNCHANGED <<worker, packet, known, counters>> /\ ids \subseteq ids'
    BY <1>2, OthersLeaveWorker DEF PacketHandled
  <2>2. OwingNext \subseteq Owing
    BY <1>1, <2>1 DEF Owing, OwingNext, Owes, OwesNext
  <2> QED
    BY <2>1, <2>2
<1>3. CASE TargetEventsThread /\ ~WorkerEnds
  <2>0. CountedNext \subseteq Counted
    BY <1>1, <1>3 DEF PacketHandled
  <2>1. CASE WorkerStarts \/ GetQueuedCompletionStatus \/ WorkerClosesJob \/ WorkerQuits
    <3>1. /\ worker \notin {"erased", "counted"} /\ worker' \notin {"erased", "counted"}
          /\ ids' = ids /\ m = n
      BY <2>1 DEF WorkerStarts, GetQueuedCompletionStatus, WorkerClosesJob,
         WorkerQuits, Got
    <3>2. OwingNext \subseteq Owing
      BY <2>0, <3>1, PlainOwes DEF Owing, OwingNext, Owes
    <3> QED
      BY <3>1, <3>2
  <2>2. CASE LookUpNewProcess
    <3>1. /\ worker = "event" /\ worker' = "counted" /\ packet' = packet /\ ids' = ids
          /\ m = n + (IF packet.ovl \in ids THEN 0 ELSE 1)
      BY <2>2 DEF LookUpNewProcess, Got
    <3>2. CASE packet.ovl \in ids
      <4>1. OwingNext \subseteq Owing
        BY <2>0, <3>1, <3>2 DEF Owing, OwingNext, Owes, OwesNext
      <4> QED
        BY <1>0, <3>1, <3>2, <4>1
    <3>3. CASE packet.ovl \notin ids
      <4>1. OwingNext \subseteq Owing \union {packet.ovl}
        BY <2>0, <3>1, <3>3 DEF Owing, OwingNext, Owes, OwesNext
      <4>2. m = n + 1
        BY <3>1, <3>3
      <4> QED
        BY <4>1, <4>2
    <3> QED
      BY <3>2, <3>3
  <2>3. CASE EraseExitedProcess
    <3>1. /\ worker = "event" /\ worker' = "erased" /\ packet' = packet
          /\ known' = (packet.ovl \in ids) /\ ids' = ids \ {packet.ovl} /\ m = n
      BY <2>3 DEF EraseExitedProcess, Got
    <3>2. OwingNext \subseteq Owing
      BY <2>0, <3>1 DEF Owing, OwingNext, Owes, OwesNext
    <3> QED
      BY <3>1, <3>2
  <2> QED
    BY <1>3, <2>1, <2>2, <2>3 DEF TargetEventsThread, WorkerEnds
<1>4. CASE TargetEventsThread /\ WorkerEnds
  <2>0. PacketHandled
    BY <1>4 DEF PacketHandled
  <2>1. CASE CountNewProcess
    <3>1. /\ worker = "counted" /\ worker' = "loop" /\ ids' = ids /\ m = n
          /\ packet.event = "NEW_PROCESS"
      BY <2>1 DEF CountNewProcess, PacketDone, AtHand
    <3>2. CountedNext \subseteq Counted \union {packet.ovl}
      BY <2>0, <3>1, CountedStep
    <3>3. OwingNext \subseteq Owing
      BY <3>1, <3>2, PlainOwes DEF Owing, OwingNext, Owes
    <3> QED
      BY <3>1, <3>3
  <2>2. CASE CountExitedProcess
    <3>1. /\ worker = "erased" /\ worker' = "loop" /\ ids' = ids
          /\ packet.event = "EXIT_PROCESS"
          /\ m = n - (IF known THEN 0 ELSE 1)
      BY <2>2 DEF CountExitedProcess, PacketDone, AtHand
    <3>2. packet.ovl \in Counted /\ CountedNext \subseteq Counted \ {packet.ovl}
      BY <2>0, <3>1, CountedStep
    <3>3. packet.ovl \in Pids
      BY <3>2 DEF Counted
    <3>4. OwingNext \subseteq Owing \ {packet.ovl}
      BY <3>1, <3>2, PlainOwes DEF Owing, OwingNext, Owes
    <3>5. CASE known
      <4>1. m = n
        BY <1>0, <3>1, <3>5
      <4> QED
        BY <3>4, <4>1
    <3>6. CASE ~known
      <4>1. m = n - 1
        BY <3>1, <3>6
      <4>2. packet.ovl \in Owing
        BY <3>1, <3>2, <3>3, <3>6 DEF Owing, Owes
      <4> QED
        BY <3>4, <4>1, <4>2
    <3> QED
      BY <3>5, <3>6
  <2>3. CASE ActiveProcessLimit
    <3>1. /\ worker = "event" /\ worker' = "loop" /\ ids' = ids /\ m = n + 1
          /\ packet.event = "ACTIVE_PROCESS_LIMIT"
      BY <2>3 DEF ActiveProcessLimit, PacketDone, Got
    <3>2. CountedNext \subseteq Counted \union {InFlight[2].ovl}
      BY <2>0, <3>1, CountedStep
    <3>3. OwingNext \subseteq Owing \union {InFlight[2].ovl}
      BY <3>1, <3>2, PlainOwes DEF Owing, OwingNext, Owes
    <3> QED
      BY <3>1, <3>3
  <2>4. CASE \/ ProcessMemoryLimit \/ WorkerNotifiesPolicy \/ WorkerNotifiesLate
             \/ NothingToFree
    <3>1. /\ worker \notin {"erased", "counted"} /\ worker' = "loop" /\ ids' = ids
          /\ m = n
          /\ packet.event \notin {"NEW_PROCESS", "EXIT_PROCESS", "ACTIVE_PROCESS_LIMIT"}
      BY <2>4 DEF ProcessMemoryLimit, WorkerNotifiesPolicy, WorkerNotifiesLate,
         NothingToFree, PacketDone, Got, AtHand
    <3>2. CountedNext \subseteq Counted
      BY <2>0, <3>1, CountedStep
    <3>3. OwingNext \subseteq Owing
      BY <3>1, <3>2, PlainOwes DEF Owing, OwingNext, Owes
    <3> QED
      BY <3>1, <3>3
  <2> QED
    BY <1>4, <2>1, <2>2, <2>3, <2>4 DEF WorkerEnds
<1> QED
  BY <1>2, <1>3, <1>4 DEF Next, OtherStep

LEMMA UntrackedStep ==
  ASSUME Typed, OpenJobs, Apart, AtHand, FlightInv, Named, UntrackedOK, [Next]_vars
  PROVE  untracked_target_counter' >= Cardinality(OwingNext)
<1> DEFINE n == untracked_target_counter
           m == untracked_target_counter'
<1>0. /\ n \in Int /\ Owing \in SUBSET Pids /\ OwingNext \in SUBSET Pids
      /\ Cardinality(Owing) \in Nat /\ Cardinality(OwingNext) \in Nat
      /\ n >= Cardinality(Owing)
  BY PidSets DEF Typed, TypeOK, Owing, OwingNext, UntrackedOK
<1>1. ASSUME m = n, OwingNext \subseteq Owing PROVE m >= Cardinality(OwingNext)
  <2>1. Cardinality(OwingNext) <= Cardinality(Owing)
    BY <1>0, <1>1, NoMore
  <2> QED
    BY <1>0, <1>1, <2>1
<1>2. ASSUME m = n + 1, NEW p, OwingNext \subseteq Owing \union {p}
      PROVE  m >= Cardinality(OwingNext)
  <2>1. Cardinality(OwingNext) <= Cardinality(Owing) + 1
    BY <1>0, <1>2, OneMore
  <2> QED
    BY <1>0, <1>2, <2>1
<1>3. ASSUME m = n - 1, NEW p \in Owing, OwingNext \subseteq Owing \ {p}
      PROVE  m >= Cardinality(OwingNext)
  <2>1. Cardinality(OwingNext) <= Cardinality(Owing) - 1
    BY <1>0, <1>3, OneLess
  <2> QED
    BY <1>0, <1>3, <2>1
<1>4. \/ m = n /\ OwingNext \subseteq Owing
      \/ m = n + 1 /\ \E p : OwingNext \subseteq Owing \union {p}
      \/ m = n - 1 /\ \E p \in Owing : OwingNext \subseteq Owing \ {p}
  BY UntrackedSteps
<1> QED
  BY <1>1, <1>2, <1>3, <1>4

(* The books in one invariant.                                               *)
BookInv == /\ DeleteInv /\ Apart /\ AtHand /\ FlightInv /\ Named
           /\ CountsAgree /\ CounterOK /\ UntrackedOK

LEMMA BookStep == BookInv /\ [Next]_vars => BookInv'
<1> SUFFICES ASSUME BookInv, [Next]_vars PROVE BookInv'
  OBVIOUS
<1>1. Typed /\ OpenJobs
  BY DEF BookInv, DeleteInv
<1>2. DeleteInv'
  BY DeleteStep DEF BookInv
<1>3. Apart' /\ AtHand' /\ Named' /\ CountsAgree'
  BY <1>1, ApartStep, AtHandStep, NamedStep, CountsStep DEF BookInv
<1>4. FlightInv'
  BY <1>1, FlightStep, FlightPrimed DEF BookInv
<1>5. CounterOK'
  <2>1. target_counter' >= Cardinality(CountedNext)
    BY <1>1, CounterStep DEF BookInv
  <2> QED
    BY <2>1 DEF CounterOK, Counted, CountedNext
<1>6. UntrackedOK'
  <2>1. untracked_target_counter' >= Cardinality(OwingNext)
    BY <1>1, UntrackedStep DEF BookInv
  <2>2. Owing' = OwingNext
    BY DEF Owing, OwingNext, Owes, OwesNext, Counted, CountedNext
  <2> QED
    BY <2>1, <2>2 DEF UntrackedOK
<1> QED
  BY <1>2, <1>3, <1>4, <1>5, <1>6 DEF BookInv

LEMMA BookStart == Init => BookInv
<1> SUFFICES ASSUME Init PROVE BookInv
  OBVIOUS
<1>0. DeleteInv
  BY DeleteInit
<1>1. /\ InFlight = <<>> /\ InJobs = {} /\ DOMAIN InFlight = {}
      /\ \A s \in Targets : tracker[s] = "none" /\ procs[s] = {} /\ level[s] = "none"
  BY DEF Init, InFlight, InJobs, Associated
<1>2. Apart /\ AtHand
  <2>1. /\ spawned = 0 /\ main = "idle" /\ packet = NoPacket /\ worker = "start"
        /\ \A s \in Targets : ~(s <= 0)
    BY DEF Init, Targets
  <2> QED
    BY <1>1, <2>1 DEF Apart, AtHand, LockHeld
<1>3. FlightInv /\ Named
  BY <1>1 DEF FlightInv, Keys, AliveLast, Alternate, LimitOpen, Named, NamedIn
<1>4. CountsAgree
  <2>1. \A e : Pending(e) = 0
    <3> TAKE e
    <3>1. {i \in DOMAIN InFlight : InFlight[i].event = e} = {}
      BY <1>1
    <3> QED
      BY <3>1, FS_EmptySet DEF Pending
  <2> QED
    BY <1>1, <2>1, FS_EmptySet DEF Init, CountsAgree
<1>5. Counted = {} /\ Owing = {}
  <2>1. Counted = {}
    BY <1>1 DEF Counted, Open, OpenEnd
  <2> QED
    BY <2>1 DEF Owing, Owes, Init
<1>6. CounterOK /\ UntrackedOK
  BY <1>5, FS_EmptySet DEF CounterOK, UntrackedOK, Init
<1> QED
  BY <1>0, <1>2, <1>3, <1>4, <1>6 DEF BookInv

LEMMA BookCounters == BookInv => CountersNonNegative /\ CountsAgree
<1> SUFFICES ASSUME BookInv PROVE CountersNonNegative
  BY DEF BookInv
<1>1. /\ target_counter \in Int /\ untracked_target_counter \in Int
      /\ Cardinality(Counted) \in Nat /\ Cardinality(Owing) \in Nat
  BY PidSets DEF BookInv, DeleteInv, Typed, TypeOK, Counted, Owing
<1> QED
  BY <1>1 DEF BookInv, CounterOK, UntrackedOK, CountersNonNegative

(* Neither counter of TargetEventsThread is ever negative, and target_counter *)
(* is the number of processes alive in the jobs but for the packets in        *)
(* flight: for any number of targets, process ids used again, any job levels  *)
(* and whatever the order of NEW_PROCESS, EXIT_PROCESS and ACTIVE_PROCESS_LIMIT*)
(* (broker_services.cc:198 to 246).                                           *)
THEOREM CountersRight == Spec => [](CountersNonNegative /\ CountsAgree)
<1>1. Init => BookInv
  BY BookStart
<1>2. BookInv /\ [Next]_vars => BookInv'
  BY BookStep
<1>3. BookInv => CountersNonNegative /\ CountsAgree
  BY BookCounters
<1> QED
  BY <1>1, <1>2, <1>3, PTL DEF Spec

(* When every policy asks for a job, the event is signaled only while no     *)
(* process is counted.                                                       *)
JobMade == LockHeld => job[spawned] # NoHandle
EventOff == no_targets => target_counter = 0
EventInv == BookInv /\ JobMade /\ EventOff

LEMMA JobMadeStep ==
  ASSUME "none" \notin Levels, Typed, JobMade, [Next]_vars
  PROVE  JobMade'
<1>1. CASE SpawnTarget
  <2>1. PICK l \in Levels, h \in FreeHandles \union {NoHandle} :
          /\ (h = NoHandle) <=> (l = "none")
          /\ job' = [job EXCEPT ![spawned + 1] = h]
          /\ spawned' = spawned + 1
    BY <1>1 DEF SpawnTarget
  <2>2. spawned + 1 \in Targets /\ job \in [Targets -> Handles \union {NoHandle}]
    BY <1>1, BoundsAssumption DEF SpawnTarget, Targets, Typed, TypeOK
  <2>3. h # NoHandle
    BY <2>1
  <2> QED
    BY <2>1, <2>2, <2>3 DEF JobMade
<1>2. CASE Caller /\ ~SpawnTarget
  <2>1. job' = job /\ spawned' = spawned
    BY <1>2 DEF Caller, SpawnCleanup, AddTarget, TrackJob, LeakPolicy,
       WaitForAllTargets, WaitReturns, DropPolicy, DestroyBroker, WorkerJoined,
       JoinTimesOut, ClearClosesJob, ClearNotifiesPolicy, ClearDestroys,
       ResetThreadPool
  <2>2. LockHeld' => LockHeld
    BY <1>2 DEF LockHeld, Caller, SpawnCleanup, AddTarget, TrackJob, LeakPolicy,
       WaitForAllTargets, WaitReturns, DropPolicy, DestroyBroker, WorkerJoined,
       JoinTimesOut, ClearClosesJob, ClearNotifiesPolicy, ClearDestroys,
       ResetThreadPool
  <2> QED
    BY <2>1, <2>2 DEF JobMade
<1>3. CASE TargetEventsThread \/ (\E s \in Targets : Kernel(s)) \/ UNCHANGED vars
  <2>1. job' = job /\ spawned' = spawned /\ main' = main
    BY <1>3 DEF TargetEventsThread, WorkerStarts, GetQueuedCompletionStatus,
       LookUpNewProcess, CountNewProcess, EraseExitedProcess, CountExitedProcess,
       ActiveProcessLimit, ProcessMemoryLimit, WorkerClosesJob,
       WorkerNotifiesPolicy, WorkerNotifiesLate, NothingToFree, WorkerQuits,
       Kernel, ProcessExits, ChildCreated, ChildRefused, MemoryExceeded, vars
  <2> QED
    BY <2>1 DEF JobMade, LockHeld
<1> QED
  BY <1>1, <1>2, <1>3 DEF Next

LEMMA EventStep ==
  ASSUME EventInv, [Next]_vars
  PROVE  EventOff'
<1>0. /\ Typed /\ OpenJobs /\ Apart /\ AtHand /\ FlightInv /\ Named
      /\ CounterOK /\ JobMade
      /\ target_counter \in Int /\ no_targets \in BOOLEAN
      /\ Cardinality(Counted) \in Nat /\ target_counter >= Cardinality(Counted)
  BY PidSets DEF EventInv, BookInv, DeleteInv, Typed, TypeOK, Counted, CounterOK
<1>1. Counted # {} => target_counter > 0
  <2>1. Counted # {} => Cardinality(Counted) # 0
    BY PidSets, FS_EmptySet DEF Counted
  <2> QED
    BY <1>0, <2>1
<1>2. ASSUME no_targets' = no_targets, target_counter' = target_counter
      PROVE  EventOff'
  BY <1>2 DEF EventInv, EventOff
<1>3. CASE OtherStep
  <2>1. no_targets' = no_targets
    <3>1. ~LeakPolicy
      BY <1>0 DEF LeakPolicy, JobMade, LockHeld
    <3> QED
      BY <1>3, <3>1 DEF OtherStep, Caller, SpawnTarget, SpawnCleanup, AddTarget,
         TrackJob, WaitForAllTargets, WaitReturns, DropPolicy, DestroyBroker,
         WorkerJoined, JoinTimesOut, ClearClosesJob, ClearNotifiesPolicy,
         ClearDestroys, ResetThreadPool, Kernel, ProcessExits, ChildCreated,
         ChildRefused, MemoryExceeded, vars
  <2> QED
    BY <1>2, <1>3, <2>1, OthersLeaveWorker
<1>4. CASE TargetEventsThread
  <2>1. CASE WorkerStarts
    BY <2>1 DEF WorkerStarts, EventOff
  <2>2. CASE CountNewProcess
    <3>1. /\ target_counter' = target_counter + 1
          /\ no_targets' <=> no_targets /\ target_counter' # 1
      BY <2>2 DEF CountNewProcess
    <3>2. no_targets => target_counter = 0
      BY DEF EventInv, EventOff
    <3>3. ~no_targets'
      BY <3>1, <3>2
    <3> QED
      BY <3>3 DEF EventOff
  <2>3. CASE CountExitedProcess
    <3>1. packet.event = "EXIT_PROCESS" /\ PacketHandled
      BY <1>0, <1>4, <2>3 DEF CountExitedProcess, AtHand, PacketHandled, WorkerEnds
    <3>2. Counted # {}
      BY <1>0, <3>1, CountedStep
    <3>3. ~no_targets
      BY <1>0, <1>1, <3>2 DEF EventInv, EventOff
    <3>4. no_targets' <=> no_targets \/ target_counter' = 0
      BY <2>3 DEF CountExitedProcess
    <3> QED
      BY <3>3, <3>4 DEF EventOff
  <2>4. CASE ActiveProcessLimit
    <3>1. packet.event = "ACTIVE_PROCESS_LIMIT" /\ PacketHandled
          /\ no_targets' = no_targets
      BY <1>4, <2>4 DEF ActiveProcessLimit, Got, PacketHandled, WorkerEnds
    <3>2. Counted # {}
      BY <1>0, <3>1, CountedStep
    <3>3. ~no_targets
      BY <1>0, <1>1, <3>2 DEF EventInv, EventOff
    <3> QED
      BY <3>1, <3>3 DEF EventOff
  <2>5. CASE \/ GetQueuedCompletionStatus \/ LookUpNewProcess \/ EraseExitedProcess
             \/ ProcessMemoryLimit \/ WorkerClosesJob \/ WorkerNotifiesPolicy
             \/ WorkerNotifiesLate \/ NothingToFree \/ WorkerQuits
    <3>1. no_targets' = no_targets /\ target_counter' = target_counter
      BY <2>5 DEF GetQueuedCompletionStatus, LookUpNewProcess, EraseExitedProcess,
         ProcessMemoryLimit, WorkerClosesJob, WorkerNotifiesPolicy,
         WorkerNotifiesLate, NothingToFree, WorkerQuits
    <3> QED
      BY <1>2, <3>1
  <2> QED
    BY <1>4, <2>1, <2>2, <2>3, <2>4, <2>5 DEF TargetEventsThread
<1> QED
  BY <1>3, <1>4 DEF Next, OtherStep

LEMMA EventMeans == EventInv => EventMeansExited
<1> SUFFICES ASSUME EventInv, no_targets, NEW s \in Targets, Running(s)
             PROVE  \E i \in DOMAIN InFlight :
                      InFlight[i] = Packet("NEW_PROCESS", s, pid[s])
  BY DEF EventMeansExited
<1>1. Counted = {}
  <2>1. /\ target_counter = 0 /\ Cardinality(Counted) \in Nat
        /\ target_counter >= Cardinality(Counted)
    BY PidSets DEF EventInv, EventOff, BookInv, CounterOK, Counted
  <2>2. IsFiniteSet(Counted) /\ Cardinality(Counted) = 0
    BY <2>1, PidSets DEF Counted
  <2> QED
    BY <2>2, FS_EmptySet
<1>2. pid[s] \in Pids /\ <<s, pid[s]>> \in InJobs
  <2>1. pid[s] \in procs[s] /\ Associated(s) /\ procs[s] \subseteq Pids
    BY DEF Running, EventInv, BookInv, DeleteInv, Typed, TypeOK
  <2> QED
    BY <2>1, InJobsPairs DEF Associated
<1>3. ~Open(InFlight, InJobs, pid[s])
  BY <1>1, <1>2 DEF Counted
<1>4. \/ \A i \in DOMAIN InFlight : ~About(InFlight[i], pid[s])
      \/ \E i \in DOMAIN InFlight : InFlight[i] = Packet("NEW_PROCESS", s, pid[s])
  BY <1>2 DEF EventInv, BookInv, FlightInv, AliveLast
<1> QED
  BY <1>2, <1>3, <1>4 DEF Open

-----------------------------------------------------------------------------
(* child_process_ids_.  As long as no target has created a process each job  *)
(* has its main process only.  The exit of one target erases an id that no   *)
(* younger target has: SpawnTarget gets an id again only when the object of  *)
(* its former owner, with its process handle, is gone, and while the caller  *)
(* can still spawn the worker deletes an object only after the exit.         *)
NoChildren == \A s \in Targets : births[s] = 0
Quitting == main \notin {"idle", "create", "track", "wait"}
Released == ~held \/ Quitting
Runs(s) == pid[s] \in procs[s] /\ (Associated(s) \/ InSpawn(s))

OwnListed == ~Quitting =>
  \A s \in Targets : /\ tracker[s] # "destroyed"
                     /\ tracker[s] = "closed" => Listed(s)
MainOnly == \A s \in Targets : procs[s] \subseteq {pid[s]}
EventsMain == \A i \in DOMAIN InFlight :
  /\ InFlight[i].event # "ACTIVE_PROCESS_LIMIT"
  /\ InFlight[i].event \in {"NEW_PROCESS", "EXIT_PROCESS"} =>
       InFlight[i].ovl = pid[InFlight[i].key]
EmptyLast == \A i \in DOMAIN InFlight :
  /\ InFlight[i].event \in {"EXIT_PROCESS", "ACTIVE_PROCESS_ZERO"} =>
       procs[InFlight[i].key] = {}
  /\ InFlight[i].event = "ACTIVE_PROCESS_ZERO" =>
       \A j \in DOMAIN InFlight :
         i < j /\ InFlight[j].event = "EXIT_PROCESS" =>
           InFlight[j].key # InFlight[i].key
ExitedApart == \A i \in DOMAIN InFlight : InFlight[i].event = "EXIT_PROCESS" =>
  \A s \in Targets : Runs(s) => pid[s] # InFlight[i].ovl
ExitedOwned == \A i \in DOMAIN InFlight : InFlight[i].event = "EXIT_PROCESS" =>
  object[InFlight[i].key] = "live" \/ Released
RunsOwned == \A s \in Targets : Runs(s) => object[s] = "live" \/ Released
ActiveIds == \A s \in Targets : Running(s) => pid[s] \in ids

Childless == /\ MainOnly /\ EventsMain /\ EmptyLast
             /\ ExitedApart /\ ExitedOwned /\ RunsOwned /\ ActiveIds
ActiveInv == BookInv /\ OwnListed /\ (NoChildren => Childless)

LEMMA ChildlessBefore ==
  ASSUME TypeOK, [Next]_vars, NoChildren'
  PROVE  NoChildren /\ \A s \in Targets : ~ChildCreated(s) /\ ~ChildRefused(s)
<1>0. births \in [Targets -> Nat]
  BY DEF TypeOK
<1>1. ASSUME NEW s \in Targets, MayCreate(s) PROVE FALSE
  <2>1. births'[s] = births[s] + 1 /\ births[s] \in Nat
    BY <1>0, <1>1 DEF MayCreate
  <2>2. births'[s] = 0
    BY DEF NoChildren
  <2> QED
    BY <2>1, <2>2
<1>2. \A s \in Targets : ~ChildCreated(s) /\ ~ChildRefused(s)
  BY <1>1 DEF ChildCreated, ChildRefused
<1>3. births' = births
  BY <1>2 DEF Next, Caller, SpawnTarget, SpawnCleanup, AddTarget, TrackJob,
     LeakPolicy, WaitForAllTargets, WaitReturns, DropPolicy, DestroyBroker,
     WorkerJoined, JoinTimesOut, ClearClosesJob, ClearNotifiesPolicy,
     ClearDestroys, ResetThreadPool, TargetEventsThread, WorkerStarts,
     GetQueuedCompletionStatus, LookUpNewProcess, CountNewProcess,
     EraseExitedProcess, CountExitedProcess, ActiveProcessLimit,
     ProcessMemoryLimit, WorkerClosesJob, WorkerNotifiesPolicy,
     WorkerNotifiesLate, NothingToFree, WorkerQuits, Kernel, ProcessExits,
     MemoryExceeded, vars
<1> QED
  BY <1>2, <1>3 DEF NoChildren

(* The steps before the destructor has the worker's list to itself.          *)
LEMMA OwnListedStep ==
  ASSUME DeleteInv, OwnListed, [Next]_vars
  PROVE  OwnListed'
<1> SUFFICES ASSUME ~Quitting',
                    NEW s \in Targets
             PROVE  /\ tracker'[s] # "destroyed"
                    /\ tracker'[s] = "closed" => Listed(s)'
  BY DEF OwnListed
<1>0. /\ Typed /\ OpenJobs /\ Owners
      /\ tracker \in [Targets -> {"none", "set", "closed", "freed", "destroyed"}]
      /\ targets \in Seq(Targets)
  BY DEF DeleteInv, Typed, TypeOK
<1>1. ~Quitting
  BY DEF Quitting, Next, Caller, SpawnTarget, SpawnCleanup, AddTarget, TrackJob,
     LeakPolicy, WaitForAllTargets, WaitReturns, DropPolicy, DestroyBroker,
     WorkerJoined, JoinTimesOut, ClearClosesJob, ClearNotifiesPolicy,
     ClearDestroys, ResetThreadPool, TargetEventsThread, WorkerStarts,
     GetQueuedCompletionStatus, LookUpNewProcess, CountNewProcess,
     EraseExitedProcess, CountExitedProcess, ActiveProcessLimit,
     ProcessMemoryLimit, WorkerClosesJob, WorkerNotifiesPolicy,
     WorkerNotifiesLate, NothingToFree, WorkerQuits, Kernel, ProcessExits,
     ChildCreated, ChildRefused, MemoryExceeded, vars
<1>2. /\ tracker[s] # "destroyed"
      /\ tracker[s] = "closed" => Listed(s)
      /\ \A t \in Targets : tracker[t] = "closed" => worker = "freeing" /\ packet.key = t
  BY <1>0, <1>1 DEF OwnListed, Owners, Quitting
<1>3. ASSUME tracker' = tracker, targets' = targets
      PROVE  /\ tracker'[s] # "destroyed"
             /\ tracker'[s] = "closed" => Listed(s)'
  BY <1>2, <1>3 DEF Listed
<1>4. CASE AddTarget
  <2>1. targets' = Append(targets, spawned) /\ tracker' = tracker
    BY <1>4 DEF AddTarget
  <2>2. Listed(s) => Listed(s)'
    <3>1. spawned \in Targets
      BY <1>0, <1>4 DEF AddTarget, LockHeld, Typed
    <3>2. /\ DOMAIN targets \subseteq DOMAIN targets'
          /\ \A i \in DOMAIN targets : targets'[i] = targets[i]
      BY <1>0, <2>1, <3>1
    <3> QED
      BY <3>2 DEF Listed
  <2> QED
    BY <1>2, <2>1, <2>2
<1>5. CASE TrackJob
  <2>1. tracker' = [tracker EXCEPT ![spawned] = "set"] /\ targets' = targets
    BY <1>5 DEF TrackJob
  <2>2. tracker'[s] = tracker[s] \/ tracker'[s] = "set"
    BY <1>0, <2>1
  <2> QED
    BY <1>2, <2>1, <2>2 DEF Listed
<1>6. CASE WorkerClosesJob
  <2>1. /\ packet.key \in Targets /\ tracker[packet.key] = "set"
        /\ tracker' = [tracker EXCEPT ![packet.key] = "closed"] /\ targets' = targets
    <3>1. packet \in Packets /\ packet.event # "QUIT"
      BY <1>6 DEF WorkerClosesJob, Got, Typed, TypeOK, DeleteInv
    <3> QED
      BY <1>6, <3>1, PacketFields DEF WorkerClosesJob, CloseJob
  <2>2. Listed(packet.key)
    BY <1>0, <2>1 DEF OpenJobs
  <2>3. tracker'[s] = tracker[s] \/ (s = packet.key /\ tracker'[s] = "closed")
    BY <1>0, <2>1
  <2> QED
    BY <1>2, <2>1, <2>2, <2>3 DEF Listed
<1>7. CASE WorkerNotifiesPolicy
  <2>1. tracker' = [tracker EXCEPT ![packet.key] = "freed"]
    BY <1>7 DEF WorkerNotifiesPolicy, NotifyPolicy
  <2>2. tracker'[s] = tracker[s] \/ tracker'[s] = "freed"
    BY <1>0, <2>1
  <2>3. tracker'[s] # "closed"
    BY <1>0, <1>2, <2>1, <2>2
  <2> QED
    BY <1>2, <2>2, <2>3
<1>8. CASE WorkerNotifiesLate
  <2>1. packet.key \in Targets /\ tracker[packet.key] = "destroyed"
    BY <1>0, <1>8 DEF WorkerNotifiesLate, Typed
  <2> QED
    BY <1>1, <2>1 DEF OwnListed
<1>9. CASE DropPolicy
  <2>1. targets' = targets /\ tracker' = tracker
    BY <1>9, DropDeletesNothing DEF DropPolicy
  <2> QED
    BY <1>3, <2>1
<1>10. CASE \/ SpawnTarget \/ SpawnCleanup \/ LeakPolicy \/ WaitForAllTargets
            \/ WaitReturns
  BY <1>3, <1>10 DEF SpawnTarget, SpawnCleanup, LeakPolicy, WaitForAllTargets,
     WaitReturns
<1>11. CASE \/ WorkerStarts \/ GetQueuedCompletionStatus \/ LookUpNewProcess
            \/ CountNewProcess \/ EraseExitedProcess \/ CountExitedProcess
            \/ ActiveProcessLimit \/ ProcessMemoryLimit \/ NothingToFree \/ WorkerQuits
  BY <1>3, <1>11 DEF WorkerStarts, GetQueuedCompletionStatus, LookUpNewProcess,
     CountNewProcess, EraseExitedProcess, CountExitedProcess,
     ActiveProcessLimit, ProcessMemoryLimit, NothingToFree, WorkerQuits
<1>12. CASE (\E t \in Targets : Kernel(t)) \/ UNCHANGED vars
  BY <1>3, <1>12 DEF Kernel, ProcessExits, ChildCreated, ChildRefused,
     MemoryExceeded, vars
<1>13. CASE \/ DestroyBroker \/ WorkerJoined \/ JoinTimesOut \/ ClearClosesJob
            \/ ClearNotifiesPolicy \/ ClearDestroys \/ ResetThreadPool
  <2>1. Quitting'
    BY <1>13 DEF Quitting, DestroyBroker, WorkerJoined, JoinTimesOut,
       ClearClosesJob, ClearNotifiesPolicy, ClearDestroys, ResetThreadPool
  <2> QED
    BY <2>1
<1> QED
  BY <1>4, <1>5, <1>6, <1>7, <1>8, <1>9, <1>10, <1>11, <1>12, <1>13
     DEF Next, Caller, TargetEventsThread

(* While the caller may still spawn, the target the worker deletes is that   *)
(* of the job that was emptied.                                              *)
LEMMA DeletesOwn ==
  ASSUME DeleteInv, OwnListed, ~Released, WorkerNotifiesPolicy,
         NEW t \in Targets, object[t] = "live", object'[t] # "live"
  PROVE  t = packet.key
<1> DEFINE s == packet.key
           h == job[s]
<1>1. /\ worker = "freeing" /\ s \in Targets /\ tracker[s] = "closed"
      /\ OnJobEmpty(h) /\ held /\ ~Quitting
  BY DEF WorkerNotifiesPolicy, NotifyPolicy, DeleteInv, Typed, Released
<1>2. /\ h \in Handles /\ FirstWithJob(h) # {}
      /\ \A i \in FirstWithJob(h) : targets[i] \in Targets /\ targets[i] \in Stale(h)
  BY <1>1, NotifyFindsStale
<1>3. refs # 1
  BY <1>1, LastDebt
<1>4. PICK i \in FirstWithJob(h) :
        ReleasePolicy({targets[i]}, SubSeq(targets, 1, i - 1) \o
                                    SubSeq(targets, i + 1, Len(targets)))
  BY <1>1, <1>2 DEF OnJobEmpty
<1>5. DeleteTargets({targets[i]})
  BY <1>3, <1>4 DEF ReleasePolicy
<1>6. t = targets[i]
  <2>1. object' = [u \in Targets |-> IF u \in {targets[i]} THEN "deleted" ELSE object[u]]
    BY <1>5 DEF DeleteTargets
  <2> QED
    BY <2>1
<1>7. Closing(h) = {s}
  <2>1. \A u \in Targets : tracker[u] = "closed" \/ Late(u) => u = s
    BY <1>1 DEF DeleteInv, Owners, Quitting, Late
  <2> QED
    BY <1>1, <2>1 DEF Closing
<1>8. s \in Stale(h)
  <2>1. Listed(s) /\ ~job_open[s]
    <3>1. job_open[s] /\ Listed(s) => tracker[s] = "set" \/ (main = "track" /\ s = spawned)
      BY <1>1 DEF DeleteInv, OpenJobs
    <3>2. main = "track" /\ s = spawned => tracker[s] = "none"
      BY <1>1 DEF DeleteInv, OpenJobs, LockHeld
    <3> QED
      BY <1>1, <3>1, <3>2 DEF OwnListed
  <2> QED
    BY <1>1, <2>1 DEF Stale
<1>9. \E x : Stale(h) = {x}
  <2>1. Cardinality(Stale(h)) = Cardinality({s})
    BY <1>2, <1>7 DEF DeleteInv, Balanced
  <2>2. IsFiniteSet(Stale(h))
    <3>1. IsFiniteSet(Targets)
      BY BoundsAssumption, FS_Interval DEF Targets
    <3>2. Stale(h) \subseteq Targets
      BY DEF Stale
    <3> QED
      BY <3>1, <3>2, FS_Subset
  <2>3. Cardinality({s}) = 1
    BY FS_Singleton
  <2> QED
    BY <2>1, <2>2, <2>3, FS_Singleton
<1> QED
  BY <1>2, <1>4, <1>6, <1>8, <1>9

(* The packets in flight after a step: those before it, but perhaps the      *)
(* first, and then the new ones.                                             *)
Carries(q, y, N) == \E d \in {0, 1} :
  /\ \A i \in DOMAIN y : i + d \in DOMAIN q => y[i] = q[i + d]
  /\ \A i \in DOMAIN y : i + d \notin DOMAIN q => y[i] \in N
  /\ \A i, j \in DOMAIN y : i < j /\ i + d \notin DOMAIN q =>
       /\ j + d \notin DOMAIN q
       /\ y[i].event = "ACTIVE_PROCESS_ZERO" => y[j].event # "EXIT_PROCESS"

LEMMA CarriesSteps ==
  ASSUME NEW q \in Seq(Packets)
  PROVE  /\ Carries(q, q, {})
         /\ q # <<>> => Carries(q, Tail(q), {})
         /\ \A x \in Packets : Carries(q, Append(q, x), {x})
         /\ \A x, z \in Packets : x.event # "ACTIVE_PROCESS_ZERO" =>
              Carries(q, Append(Append(q, x), z), {x, z})
<1>0. Len(q) \in Nat /\ DOMAIN q = 1..Len(q)
  OBVIOUS
<1>1. Carries(q, q, {})
  <2>1. \A i \in DOMAIN q : i + 0 = i /\ i + 0 \in DOMAIN q
    BY <1>0
  <2> QED
    BY <2>1 DEF Carries
<1>2. ASSUME q # <<>> PROVE Carries(q, Tail(q), {})
  <2> DEFINE y == Tail(q)
  <2>1. Shortened(q, y)
    BY <1>2, SequenceSteps
  <2> HIDE DEF y
  <2>2. \A i \in DOMAIN y : i + 1 \in DOMAIN q /\ y[i] = q[i + 1]
    BY <2>1 DEF Shortened
  <2>3. Carries(q, y, {})
    BY <2>2 DEF Carries
  <2> QED
    BY <2>3 DEF y
<1>3. ASSUME NEW x \in Packets PROVE Carries(q, Append(q, x), {x})
  <2> DEFINE y == Append(q, x)
  <2>1. Extended(q, x, y)
    BY SequenceSteps
  <2> HIDE DEF y
  <2>2. \A i \in DOMAIN y : /\ i + 0 = i /\ (i \in DOMAIN q => y[i] = q[i])
                            /\ i \notin DOMAIN q => i = Len(q) + 1 /\ y[i] = x
    BY <2>1 DEF Extended
  <2>3. \A i, j \in DOMAIN y : i < j => i \in DOMAIN q
    BY <2>1 DEF Extended
  <2>4. Carries(q, y, {x})
    BY <2>2, <2>3 DEF Carries
  <2> QED
    BY <2>4 DEF y
<1>4. ASSUME NEW x \in Packets, NEW z \in Packets, x.event # "ACTIVE_PROCESS_ZERO"
      PROVE  Carries(q, Append(Append(q, x), z), {x, z})
  <2> DEFINE y == Append(q, x)
             w == Append(y, z)
  <2>1. Extended(q, x, y) /\ Extended(y, z, w)
    <3>1. y \in Seq(Packets)
      OBVIOUS
    <3> QED
      BY <3>1, SequenceSteps
  <2> HIDE DEF y, w
  <2>2. \A i \in DOMAIN w :
          /\ i + 0 = i /\ (i \in DOMAIN q => w[i] = q[i])
          /\ i \notin DOMAIN q => (i = Len(q) + 1 /\ w[i] = x) \/ (i = Len(q) + 2 /\ w[i] = z)
    BY <2>1 DEF Extended
  <2>3. \A i, j \in DOMAIN w : i < j /\ i \notin DOMAIN q => j \notin DOMAIN q /\ w[i] = x
    BY <2>1 DEF Extended
  <2>4. Carries(q, w, {x, z})
    BY <1>4, <2>2, <2>3 DEF Carries
  <2> QED
    BY <2>4 DEF y, w
<1> QED
  BY <1>1, <1>2, <1>3, <1>4

RunsNext(s) ==
  /\ pid'[s] \in procs'[s]
  /\ tracker'[s] # "none" \/ (s = spawned' /\ main' \in {"create", "track"})
ReleasedNext == ~held' \/ main' \notin {"idle", "create", "track", "wait"}

LEMMA RunsPrimed ==
  /\ \A s \in Targets : Runs(s)' <=> RunsNext(s)
  /\ Released' <=> ReleasedNext
BY DEF Runs, RunsNext, Released, ReleasedNext, Quitting, Associated, InSpawn, LockHeld

LEMMA EventsStep ==
  ASSUME TypeOK, TypeOK', Keys, EventsMain, EmptyLast,
         NEW N, Carries(InFlight, InFlight', N),
         \A s \in Targets : Associated(s) =>
           pid'[s] = pid[s] /\ procs'[s] \subseteq procs[s],
         \A x \in N : /\ x.event # "ACTIVE_PROCESS_LIMIT"
                      /\ x.event \in {"NEW_PROCESS", "EXIT_PROCESS"} =>
                           x.ovl = pid'[x.key]
                      /\ x.event \in {"EXIT_PROCESS", "ACTIVE_PROCESS_ZERO"} =>
                           procs'[x.key] = {}
                      /\ x.event = "EXIT_PROCESS" => procs[x.key] # {}
  PROVE  EventsMain' /\ EmptyLast'
<1> DEFINE q == InFlight
           y == InFlight'
<1>1. \A i \in DOMAIN q : q[i].event # "QUIT" =>
        /\ pid'[q[i].key] = pid[q[i].key]
        /\ procs[q[i].key] = {} => procs'[q[i].key] = {}
  <2> SUFFICES ASSUME NEW i \in DOMAIN q, q[i].event # "QUIT"
               PROVE  /\ pid'[q[i].key] = pid[q[i].key]
                      /\ procs[q[i].key] = {} => procs'[q[i].key] = {}
    OBVIOUS
  <2>1. q[i] \in Packets
    <3>1. q \in Seq(Packets)
      BY Flight
    <3> QED
      BY <3>1
  <2>2. q[i].key \in Targets /\ Associated(q[i].key)
    BY <2>1, PacketFields DEF Keys
  <2> QED
    BY <2>2
<1>2. \A i \in DOMAIN q :
        /\ q[i].event # "ACTIVE_PROCESS_LIMIT"
        /\ q[i].event \in {"NEW_PROCESS", "EXIT_PROCESS"} => q[i].ovl = pid'[q[i].key]
        /\ q[i].event \in {"EXIT_PROCESS", "ACTIVE_PROCESS_ZERO"} => procs'[q[i].key] = {}
        /\ q[i].event = "ACTIVE_PROCESS_ZERO" => procs[q[i].key] = {}
  BY <1>1 DEF EventsMain, EmptyLast
<1>3. PICK d \in {0, 1} :
        /\ \A i \in DOMAIN y : i + d \in DOMAIN q => y[i] = q[i + d]
        /\ \A i \in DOMAIN y : i + d \notin DOMAIN q => y[i] \in N
        /\ \A i, j \in DOMAIN y : i < j /\ i + d \notin DOMAIN q =>
             /\ j + d \notin DOMAIN q
             /\ y[i].event = "ACTIVE_PROCESS_ZERO" => y[j].event # "EXIT_PROCESS"
  BY DEF Carries
<1>4. DOMAIN y \subseteq Int
  <2>1. InFlight' \in Seq(Packets)
    <3>1. port' \in Seq(Packets) /\ packet' \in Packets
      BY DEF TypeOK
    <3>2. <<packet'>> \o port' \in Seq(Packets)
      BY <3>1
    <3> QED
      BY <3>1, <3>2 DEF InFlight
  <2> QED
    BY <2>1
<1>5. ASSUME NEW i \in DOMAIN y
      PROVE  /\ y[i].event # "ACTIVE_PROCESS_LIMIT"
             /\ y[i].event \in {"NEW_PROCESS", "EXIT_PROCESS"} =>
                  y[i].ovl = pid'[y[i].key]
             /\ y[i].event \in {"EXIT_PROCESS", "ACTIVE_PROCESS_ZERO"} =>
                  procs'[y[i].key] = {}
  <2>1. CASE i + d \in DOMAIN q
    BY <1>2, <1>3, <2>1
  <2>2. CASE i + d \notin DOMAIN q
    BY <1>3, <2>2
  <2> QED
    BY <2>1, <2>2
<1>6. ASSUME NEW i \in DOMAIN y, NEW j \in DOMAIN y, i < j,
             y[i].event = "ACTIVE_PROCESS_ZERO", y[j].event = "EXIT_PROCESS"
      PROVE  y[j].key # y[i].key
  <2>1. i + d \in DOMAIN q /\ y[i] = q[i + d]
    BY <1>3, <1>6
  <2>2. CASE j + d \in DOMAIN q
    <3>1. i + d < j + d
      BY <1>4, <1>6
    <3> QED
      BY <1>3, <1>6, <2>1, <2>2, <3>1 DEF EmptyLast
  <2>3. CASE j + d \notin DOMAIN q
    BY <1>2, <1>3, <1>6, <2>1, <2>3
  <2> QED
    BY <2>2, <2>3
<1> HIDE DEF q
<1> QED
  BY <1>5, <1>6 DEF EventsMain, EmptyLast

LEMMA ExitedApartStep ==
  ASSUME ExitedApart, NEW N, Carries(InFlight, InFlight', N),
         \A s \in Targets : RunsNext(s) =>
           \/ Runs(s) /\ pid'[s] = pid[s]
           \/ \A i \in DOMAIN InFlight : InFlight[i].event = "EXIT_PROCESS" =>
                pid'[s] # InFlight[i].ovl,
         \A x \in N : x.event = "EXIT_PROCESS" =>
           \A s \in Targets : RunsNext(s) => pid'[s] # x.ovl
  PROVE  ExitedApart'
<1> DEFINE q == InFlight
           y == InFlight'
<1>1. \A i \in DOMAIN q : q[i].event = "EXIT_PROCESS" =>
        \A s \in Targets : RunsNext(s) => pid'[s] # q[i].ovl
  BY DEF ExitedApart
<1>2. \A i \in DOMAIN y : (\E j \in DOMAIN q : y[i] = q[j]) \/ y[i] \in N
  BY DEF Carries
<1>3. \A i \in DOMAIN y : y[i].event = "EXIT_PROCESS" =>
        \A s \in Targets : RunsNext(s) => pid'[s] # y[i].ovl
  BY <1>1, <1>2
<1> QED
  BY <1>3, RunsPrimed DEF ExitedApart

LEMMA OwnedStep ==
  ASSUME ExitedOwned, RunsOwned, NEW N, Carries(InFlight, InFlight', N),
         Released => ReleasedNext,
         \A i \in DOMAIN InFlight : InFlight[i].event = "EXIT_PROCESS" =>
           InFlight[i].key \in Targets,
         \A x \in N : x.event = "EXIT_PROCESS" => x.key \in Targets /\ Runs(x.key),
         \A s \in Targets : RunsNext(s) => Runs(s) \/ object'[s] = "live",
         \A t \in Targets : object[t] = "live" /\ object'[t] # "live" =>
           \/ ReleasedNext
           \/ /\ ~RunsNext(t)
              /\ \A i \in DOMAIN InFlight' : InFlight'[i].event = "EXIT_PROCESS" =>
                   InFlight'[i].key # t
  PROVE  ExitedOwned' /\ RunsOwned'
<1> DEFINE q == InFlight
           y == InFlight'
<1>1. \A i \in DOMAIN y : (\E j \in DOMAIN q : y[i] = q[j]) \/ y[i] \in N
  BY DEF Carries
<1>2. ASSUME NEW i \in DOMAIN y, y[i].event = "EXIT_PROCESS"
      PROVE  object'[y[i].key] = "live" \/ ReleasedNext
  <2>1. y[i].key \in Targets /\ (object[y[i].key] = "live" \/ Released)
    BY <1>1, <1>2 DEF ExitedOwned, RunsOwned
  <2> QED
    BY <1>2, <2>1
<1>3. ASSUME NEW s \in Targets, RunsNext(s)
      PROVE  object'[s] = "live" \/ ReleasedNext
  BY <1>3 DEF RunsOwned
<1> QED
  BY <1>2, <1>3, RunsPrimed DEF ExitedOwned, RunsOwned

(* The steps that leave the processes alone and post no beginning or end.    *)
LEMMA QuietChildless ==
  ASSUME TypeOK, TypeOK', Keys, Childless,
         procs' = procs, pid' = pid, NEW N, Carries(InFlight, InFlight', N),
         \A x \in N : x.event \in {"PROCESS_MEMORY_LIMIT", "QUIT"},
         \A s \in Targets : tracker'[s] # "none" => tracker[s] # "none",
         \A s \in Targets : s = spawned' /\ main' \in {"create", "track"} => InSpawn(s),
         Released => ReleasedNext,
         \A t \in Targets : object[t] = "live" /\ object'[t] # "live" =>
           \/ ReleasedNext
           \/ /\ ~RunsNext(t)
              /\ \A i \in DOMAIN InFlight' : InFlight'[i].event = "EXIT_PROCESS" =>
                   InFlight'[i].key # t,
         \A s \in Targets : Running(s) => pid[s] \in ids'
  PROVE  Childless'
<1>0. /\ MainOnly /\ EventsMain /\ EmptyLast
      /\ ExitedApart /\ ExitedOwned /\ RunsOwned /\ ActiveIds
  BY DEF Childless
<1>1. \A x \in N : x.event \notin {"NEW_PROCESS", "EXIT_PROCESS",
                                   "ACTIVE_PROCESS_ZERO", "ACTIVE_PROCESS_LIMIT"}
  OBVIOUS
<1>2. \A s \in Targets : RunsNext(s) => Runs(s) /\ pid'[s] = pid[s]
  BY DEF RunsNext, Runs, Associated
<1>3. \A i \in DOMAIN InFlight : InFlight[i].event = "EXIT_PROCESS" =>
        InFlight[i].key \in Targets
  <2>1. InFlight \in Seq(Packets)
    BY Flight
  <2> QED
    BY <2>1, PacketFields
<1>4. MainOnly'
  BY <1>0 DEF MainOnly
<1>5. EventsMain' /\ EmptyLast'
  <2>1. \A s \in Targets : Associated(s) =>
          pid'[s] = pid[s] /\ procs'[s] \subseteq procs[s]
    OBVIOUS
  <2> QED
    BY <1>0, <1>1, <2>1, EventsStep
<1>6. ExitedApart'
  BY <1>0, <1>1, <1>2, ExitedApartStep
<1>7. ExitedOwned' /\ RunsOwned'
  BY <1>0, <1>1, <1>2, <1>3, OwnedStep
<1>8. ActiveIds'
  BY DEF ActiveIds, Running, Associated
<1> QED
  BY <1>4, <1>5, <1>6, <1>7, <1>8 DEF Childless

LEMMA SpawnChildless ==
  ASSUME Typed, TypeOK', OpenJobs, Apart, AtHand, Keys, Childless, [Next]_vars, SpawnTarget
  PROVE  Childless'
<1> DEFINE n == spawned + 1
<1>0. /\ MainOnly /\ EventsMain /\ EmptyLast
      /\ ExitedApart /\ ExitedOwned /\ RunsOwned /\ ActiveIds
  BY DEF Childless
<1>1. /\ TypeOK /\ n \in Targets /\ spawned < n /\ main = "idle" /\ held /\ main' = "create"
      /\ spawned' = n /\ tracker' = tracker /\ ids' = ids /\ held' = held
      /\ procs \in [Targets -> SUBSET Pids] /\ object \in [Targets -> {"none", "live", "deleted"}]
      /\ pid \in [Targets -> Pids \union {NoPid}]
  BY BoundsAssumption DEF SpawnTarget, Typed, TypeOK, Targets
<1>2. PICK p \in FreePids :
        /\ pid' = [pid EXCEPT ![n] = p] /\ procs' = [procs EXCEPT ![n] = {p}]
        /\ object' = [object EXCEPT ![n] = "live"]
  BY DEF SpawnTarget
<1>3. tracker[n] = "none" /\ ~Released
  BY <1>1 DEF OpenJobs, Released, Quitting
<1>4. /\ pid'[n] = p /\ procs'[n] = {p} /\ object'[n] = "live"
      /\ \A s \in Targets : s # n =>
           pid'[s] = pid[s] /\ procs'[s] = procs[s] /\ object'[s] = object[s]
  BY <1>1, <1>2
<1>5. InFlight' = InFlight /\ InFlight \in Seq(Packets)
      /\ Carries(InFlight, InFlight', {})
  <2>1. InFlight' = InFlight
    <3>1. Caller /\ ~TrackJob /\ ~DestroyBroker
      BY <1>1 DEF Caller, TrackJob, DestroyBroker
    <3> QED
      BY <3>1, SteadyCaller DEF Steady
  <2>2. InFlight \in Seq(Packets)
    BY <1>1, Flight
  <2> QED
    BY <2>1, <2>2, CarriesSteps
<1>6. \A i \in DOMAIN InFlight : InFlight[i].event = "EXIT_PROCESS" =>
        /\ InFlight[i].key \in Targets /\ Associated(InFlight[i].key)
        /\ object[InFlight[i].key] = "live"
        /\ InFlight[i].ovl = pid[InFlight[i].key]
  BY <1>0, <1>3, <1>5, PacketFields DEF Keys, ExitedOwned, EventsMain
<1>7. \A i \in DOMAIN InFlight : InFlight[i].event = "EXIT_PROCESS" =>
        InFlight[i].ovl # p
  BY <1>6, FreePid
<1>8. MainOnly'
  BY <1>0, <1>4 DEF MainOnly
<1>9. EventsMain' /\ EmptyLast'
  <2>1. \A s \in Targets : Associated(s) =>
          pid'[s] = pid[s] /\ procs'[s] \subseteq procs[s]
    BY <1>3, <1>4 DEF Associated
  <2> QED
    BY <1>0, <1>1, <1>5, <2>1, EventsStep
<1>10. \A s \in Targets : s # n /\ RunsNext(s) => Runs(s) /\ pid'[s] = pid[s]
  BY <1>1, <1>4 DEF RunsNext, Runs, Associated
<1>11. ExitedApart'
  <2>1. \A s \in Targets : RunsNext(s) =>
           \/ Runs(s) /\ pid'[s] = pid[s]
           \/ \A i \in DOMAIN InFlight : InFlight[i].event = "EXIT_PROCESS" =>
                pid'[s] # InFlight[i].ovl
    BY <1>4, <1>7, <1>10
  <2> QED
    BY <1>0, <1>5, <2>1, ExitedApartStep
<1>12. ExitedOwned' /\ RunsOwned'
  <2>1. \A s \in Targets : RunsNext(s) => Runs(s) \/ object'[s] = "live"
    BY <1>4, <1>10
  <2>2. \A t \in Targets : object[t] = "live" => object'[t] = "live"
    BY <1>4
  <2> QED
    BY <1>0, <1>3, <1>5, <1>6, <2>1, <2>2, OwnedStep
<1>13. ActiveIds'
  <2>1. \A s \in Targets : tracker'[s] # "none" => s # n
    BY <1>1, <1>3
  <2> QED
    BY <1>0, <1>1, <1>4, <2>1 DEF ActiveIds, Running, Associated
<1> QED
  BY <1>8, <1>9, <1>11, <1>12, <1>13 DEF Childless

LEMMA TrackChildless ==
  ASSUME Typed, TypeOK', OpenJobs, Apart, AtHand, Keys, Childless, TrackJob
  PROVE  Childless'
<1> DEFINE n == spawned
           x == Packet("NEW_PROCESS", n, pid[n])
<1>0. /\ MainOnly /\ EventsMain /\ EmptyLast
      /\ ExitedApart /\ ExitedOwned /\ RunsOwned /\ ActiveIds
  BY DEF Childless
<1>1. /\ TypeOK /\ n \in Targets /\ main = "track" /\ main' = "idle" /\ held' = held
      /\ spawned' = n /\ tracker' = [tracker EXCEPT ![n] = "set"] /\ object' = object
      /\ ids' = ids \union {pid[n]} /\ procs' = procs /\ pid' = pid
      /\ tracker \in [Targets -> {"none", "set", "closed", "freed", "destroyed"}]
  BY DEF TrackJob, Typed, TypeOK, LockHeld
<1>2. /\ InFlight' = Append(InFlight, x) /\ InFlight \in Seq(Packets) /\ x \in Packets
      /\ x.event = "NEW_PROCESS" /\ x.ovl = pid'[x.key]
  <2>1. pid[n] \in Pids /\ Begins(n, pid[n])
    BY TrackEffect
  <2>2. x \in Packets /\ x.event = "NEW_PROCESS" /\ x.key = n /\ x.ovl = pid[n]
    BY <1>1, <2>1, PacketType, PacketFields DEF Events, Packet
  <2>3. InFlight \in Seq(Packets)
    BY <1>1, Flight
  <2> QED
    BY <1>1, <2>1, <2>2, <2>3 DEF Begins
<1> HIDE DEF x
<1>3. Carries(InFlight, InFlight', {x})
  BY <1>2, CarriesSteps
<1>4. \A s \in Targets : RunsNext(s) => Runs(s) /\ pid'[s] = pid[s]
  <2>1. \A s \in Targets : tracker'[s] # "none" => tracker[s] # "none" \/ s = n
    BY <1>1
  <2> QED
    BY <1>1, <2>1 DEF RunsNext, Runs, InSpawn, LockHeld, Associated
<1>5. \A i \in DOMAIN InFlight : InFlight[i].event = "EXIT_PROCESS" =>
        InFlight[i].key \in Targets
  BY <1>2, PacketFields
<1>6. MainOnly'
  BY <1>0, <1>1 DEF MainOnly
<1>7. EventsMain' /\ EmptyLast'
  <2>1. \A s \in Targets : Associated(s) =>
          pid'[s] = pid[s] /\ procs'[s] \subseteq procs[s]
    BY <1>1
  <2> QED
    BY <1>0, <1>1, <1>2, <1>3, <2>1, EventsStep
<1>8. ExitedApart'
  BY <1>0, <1>2, <1>3, <1>4, ExitedApartStep
<1>9. ExitedOwned' /\ RunsOwned'
  <2>1. Released => ReleasedNext
    BY <1>1 DEF Released, ReleasedNext, Quitting
  <2>2. \A t \in Targets : object[t] = "live" => object'[t] = "live"
    BY <1>1
  <2> QED
    BY <1>0, <1>2, <1>3, <1>4, <1>5, <2>1, <2>2, OwnedStep
<1>10. ActiveIds'
  <2>1. \A s \in Targets : tracker'[s] # "none" => tracker[s] # "none" \/ s = n
    BY <1>1
  <2> QED
    BY <1>0, <1>1, <2>1 DEF ActiveIds, Running, Associated
<1> QED
  BY <1>6, <1>7, <1>8, <1>9, <1>10 DEF Childless

LEMMA ExitChildless ==
  ASSUME Typed, TypeOK', OpenJobs, Apart, AtHand, Keys, Childless,
         NEW s \in Targets, ProcessExits(s)
  PROVE  Childless'
<1>0. /\ MainOnly /\ EventsMain /\ EmptyLast
      /\ ExitedApart /\ ExitedOwned /\ RunsOwned /\ ActiveIds
  BY DEF Childless
<1>1. /\ TypeOK /\ procs \in [Targets -> SUBSET Pids] /\ ~InSpawn(s)
      /\ UNCHANGED <<main, spawned, tracker, object, held, pid, ids>>
  BY DEF ProcessExits, Typed, TypeOK
<1>2. PICK p \in procs[s] : procs' = [procs EXCEPT ![s] = @ \ {p}]
  BY DEF ProcessExits
<1>3. /\ p = pid[s] /\ procs'[s] = {} /\ \A t \in Targets : procs'[t] \subseteq procs[t]
      /\ \A t \in Targets : t # s => procs'[t] = procs[t]
  BY <1>0, <1>1, <1>2 DEF MainOnly
<1>4. InFlight \in Seq(Packets)
  BY <1>1, Flight
<1> DEFINE x == Packet("EXIT_PROCESS", s, p)
           z == Packet("ACTIVE_PROCESS_ZERO", s, NoPid)
<1>5. /\ x \in Packets /\ x.event = "EXIT_PROCESS" /\ x.key = s /\ x.ovl = p
      /\ z \in Packets /\ z.event = "ACTIVE_PROCESS_ZERO" /\ z.key = s
  <2>1. p \in Pids
    BY <1>1
  <2> QED
    BY <2>1, PacketType, PacketFields DEF Events, Packet
<1> HIDE DEF x, z
<1>6. PICK N \in {{}, {x}, {x, z}} :
        Carries(InFlight, InFlight', N) /\ (x \in N => Associated(s))
  <2>1. CASE Steady
    <3>1. Carries(InFlight, InFlight', {})
      BY <1>4, <2>1, CarriesSteps DEF Steady
    <3> QED
      BY <3>1
  <2>2. CASE \E r \in Pids : Ends(s, r)
    <3>1. PICK r \in Pids : Ends(s, r)
      BY <2>2
    <3>2. <<s, r>> \in InJobs
      BY <3>1 DEF Ends
    <3>3. r = p /\ Associated(s)
      BY <1>0, <1>3, <3>2, InJobsPairs DEF MainOnly, Associated
    <3>4. InFlight' = Append(InFlight, x) \/ InFlight' = Append(Append(InFlight, x), z)
      BY <3>1, <3>3 DEF Ends, x, z
    <3>5. Carries(InFlight, InFlight', {x}) \/ Carries(InFlight, InFlight', {x, z})
      BY <1>4, <1>5, <3>4, CarriesSteps
    <3> QED
      BY <3>3, <3>5
  <2> QED
    BY <2>1, <2>2, ExitEffect
<1>7. \A t \in Targets : RunsNext(t) => Runs(t) /\ pid'[t] = pid[t] /\ t # s
  BY <1>1, <1>3 DEF RunsNext, Runs, Associated, InSpawn, LockHeld
<1>8. \A i \in DOMAIN InFlight : InFlight[i].event = "EXIT_PROCESS" =>
        InFlight[i].key \in Targets
  BY <1>4, PacketFields
<1>9. MainOnly'
  BY <1>0, <1>1, <1>3 DEF MainOnly
<1>10. EventsMain' /\ EmptyLast'
  <2>1. \A t \in Targets : Associated(t) =>
          pid'[t] = pid[t] /\ procs'[t] \subseteq procs[t]
    BY <1>1, <1>3
  <2>2. procs[s] # {} /\ pid'[s] = p
    BY <1>1, <1>3
  <2>3. \A w \in N : w = x \/ w = z
    BY <1>6
  <2>4. \A w \in N : /\ w.event # "ACTIVE_PROCESS_LIMIT"
                     /\ w.event \in {"NEW_PROCESS", "EXIT_PROCESS"} =>
                          w.ovl = pid'[w.key]
                     /\ w.event \in {"EXIT_PROCESS", "ACTIVE_PROCESS_ZERO"} =>
                          procs'[w.key] = {}
                     /\ w.event = "EXIT_PROCESS" => procs[w.key] # {}
    BY <1>3, <1>5, <2>2, <2>3
  <2> QED
    BY <1>0, <1>1, <1>6, <2>1, <2>4, EventsStep
<1>11. ExitedApart'
  <2>1. \A t \in Targets : RunsNext(t) => pid'[t] # p
    <3> SUFFICES ASSUME NEW t \in Targets, RunsNext(t), pid'[t] = p PROVE FALSE
      OBVIOUS
    <3>1. t # s /\ p \in procs[t] /\ p \in procs[s]
      BY <1>2, <1>7 DEF Runs
    <3> QED
      BY <3>1 DEF Apart
  <2>2. \A w \in N : w.event = "EXIT_PROCESS" => w.ovl = p
    BY <1>5, <1>6
  <2>3. \A w \in N : w.event = "EXIT_PROCESS" =>
          \A t \in Targets : RunsNext(t) => pid'[t] # w.ovl
    BY <2>1, <2>2
  <2> QED
    BY <1>0, <1>6, <1>7, <2>3, ExitedApartStep
<1>12. ExitedOwned' /\ RunsOwned'
  <2>1. Released => ReleasedNext
    BY <1>1 DEF Released, ReleasedNext, Quitting
  <2>2. \A t \in Targets : object[t] = "live" => object'[t] = "live"
    BY <1>1
  <2>3. \A w \in N : w.event = "EXIT_PROCESS" => w.key \in Targets /\ Runs(w.key)
    <3>1. \A w \in N : w.event = "EXIT_PROCESS" => w = x
      BY <1>5, <1>6
    <3>2. x \in N => Runs(s)
      BY <1>2, <1>3, <1>6 DEF Runs
    <3> QED
      BY <1>5, <3>1, <3>2
  <2> QED
    BY <1>0, <1>6, <1>7, <1>8, <2>1, <2>2, <2>3, OwnedStep
<1>13. ActiveIds'
  BY <1>0, <1>1, <1>3 DEF ActiveIds, Running, Associated
<1> QED
  BY <1>9, <1>10, <1>11, <1>12, <1>13 DEF Childless

(* What the other steps do to the packets in flight.                         *)
LEMMA QuietEffect ==
  ASSUME Typed, OpenJobs, Apart, AtHand, [Next]_vars, ~TrackJob,
         \A s \in Targets : ~ProcessExits(s) /\ ~ChildCreated(s) /\ ~ChildRefused(s)
  PROVE  Steady \/ Takes \/ \E x \in Packets : Posts(x)
<1>0. TypeOK /\ NoPacket \in Packets /\ NoPacket.event = "QUIT"
  BY PacketType, PacketFields DEF Typed
<1>1. CASE DestroyBroker
  <2>1. InJobs' = InJobs
    <3>1. procs' = procs
      BY <1>1 DEF DestroyBroker
    <3> QED
      BY <3>1, SameJobsStep
  <2>2. Post(<<NoPacket>>) /\ packet' = packet
    BY <1>1 DEF DestroyBroker
  <2> QED
    BY <1>0, <2>1, <2>2, PostEffect
<1>2. CASE Caller /\ ~DestroyBroker
  BY <1>2, SteadyCaller
<1>3. CASE TargetEventsThread
  <2>1. WorkerKeeps \/ WorkerEnds \/ GetQueuedCompletionStatus
    BY <1>3 DEF TargetEventsThread, WorkerKeeps, WorkerEnds
  <2> QED
    BY <1>3, <2>1, WorkerEffect
<1>4. ASSUME NEW s \in Targets, MemoryExceeded(s)
      PROVE  Steady \/ Takes \/ \E x \in Packets : Posts(x)
  <2>1. PICK p \in procs[s] : Post(<<Packet("PROCESS_MEMORY_LIMIT", s, p)>>)
    BY <1>4 DEF MemoryExceeded
  <2>2. procs' = procs /\ p \in Pids /\ packet' = packet
    BY <1>4, <2>1 DEF MemoryExceeded, Typed, TypeOK
  <2> DEFINE x == Packet("PROCESS_MEMORY_LIMIT", s, p)
  <2>3. x \in Packets /\ x.event = "PROCESS_MEMORY_LIMIT" /\ Post(<<x>>)
    BY <2>1, <2>2, PacketType, PacketFields DEF Events
  <2>4. InJobs' = InJobs
    BY <2>2, SameJobsStep
  <2> HIDE DEF x
  <2> QED
    BY <1>0, <2>2, <2>3, <2>4, PostEffect
<1>5. CASE UNCHANGED vars
  <2>1. UNCHANGED <<port, packet, procs, tracker>>
    BY <1>5 DEF vars
  <2> QED
    BY <2>1, SameJobs DEF Steady, InFlight
<1> QED
  BY <1>1, <1>2, <1>3, <1>4, <1>5 DEF Next, Kernel

(* A target deleted while the caller may still spawn has ended, and the      *)
(* worker is done with its exit.                                             *)
LEMMA QuietDeletes ==
  ASSUME DeleteInv, Apart, AtHand, Keys, OwnListed, Childless, [Next]_vars,
         procs' = procs, pid' = pid,
         NEW t \in Targets, object[t] = "live", object'[t] # "live"
  PROVE  \/ ReleasedNext
         \/ /\ ~RunsNext(t)
            /\ \A i \in DOMAIN InFlight' : InFlight'[i].event = "EXIT_PROCESS" =>
                 InFlight'[i].key # t
<1>0. /\ Typed /\ OpenJobs /\ TypeOK /\ InFlight \in Seq(Packets)
      /\ object \in [Targets -> {"none", "live", "deleted"}]
  BY Flight DEF DeleteInv, Typed, TypeOK
<1>1. CASE SpawnCleanup
  <2>1. /\ main = "create" /\ main' = "idle" /\ tracker' = tracker /\ spawned' = spawned
        /\ DeleteTargets({spawned})
    BY <1>1 DEF SpawnCleanup
  <2>2. t = spawned /\ tracker[t] = "none"
    BY <1>0, <2>1 DEF DeleteTargets, OpenJobs, LockHeld
  <2>3. InFlight' = InFlight
    <3>1. Caller /\ ~TrackJob /\ ~DestroyBroker
      BY <1>1, <2>1 DEF Caller, TrackJob, DestroyBroker
    <3> QED
      BY <1>0, <3>1, SteadyCaller DEF Steady
  <2>4. ~RunsNext(t)
    BY <2>1, <2>2 DEF RunsNext
  <2>5. \A i \in DOMAIN InFlight : InFlight[i].event = "EXIT_PROCESS" =>
          InFlight[i].key # t
    BY <2>2 DEF Keys, Associated
  <2> QED
    BY <2>3, <2>4, <2>5
<1>2. CASE DropPolicy \/ ClearNotifiesPolicy
  BY <1>2 DEF DropPolicy, ClearNotifiesPolicy, ReleasedNext
<1>3. CASE WorkerNotifiesLate
  <2>1. packet.key \in Targets /\ tracker[packet.key] = "destroyed" /\ main' = main
    BY <1>0, <1>3 DEF WorkerNotifiesLate, Typed
  <2> QED
    BY <2>1 DEF OwnListed, Quitting, ReleasedNext
<1>4. CASE WorkerNotifiesPolicy
  <2>1. CASE Released
    BY <1>4, <2>1 DEF WorkerNotifiesPolicy, Released, Quitting, ReleasedNext
  <2>2. CASE ~Released
    <3>1. t = packet.key
      BY <1>4, <2>2, DeletesOwn
    <3>2. worker = "freeing" /\ packet.event = "ACTIVE_PROCESS_ZERO"
      BY <1>4 DEF WorkerNotifiesPolicy, AtHand
    <3>3. Takes /\ InFlight[1] = packet
      <4>1. TargetEventsThread /\ WorkerEnds
        BY <1>4 DEF TargetEventsThread, WorkerEnds
      <4> QED
        BY <1>0, <4>1, WorkerEffect
    <3>4. Shortened(InFlight, InFlight')
      BY <1>0, <3>3, SequenceSteps DEF Takes
    <3>5. 1 \in DOMAIN InFlight
      BY <3>4 DEF Shortened
    <3>6. /\ procs[t] = {}
          /\ \A j \in DOMAIN InFlight :
               1 < j /\ InFlight[j].event = "EXIT_PROCESS" => InFlight[j].key # t
      BY <3>1, <3>2, <3>3, <3>5 DEF Childless, EmptyLast
    <3>7. ~RunsNext(t)
      BY <3>6 DEF RunsNext
    <3>8. \A i \in DOMAIN InFlight' :
            i + 1 \in DOMAIN InFlight /\ 1 < i + 1 /\ InFlight'[i] = InFlight[i + 1]
      BY <3>4 DEF Shortened
    <3> QED
      BY <3>6, <3>7, <3>8
  <2> QED
    BY <2>1, <2>2
<1>5. CASE SpawnTarget
  <2>1. object'[t] = "live"
    BY <1>0, <1>5 DEF SpawnTarget
  <2> QED
    BY <2>1
<1>6. CASE \/ AddTarget \/ TrackJob \/ LeakPolicy \/ WaitForAllTargets
           \/ WaitReturns \/ DestroyBroker \/ WorkerJoined \/ JoinTimesOut
           \/ ClearClosesJob \/ ClearDestroys \/ ResetThreadPool
  BY <1>6 DEF AddTarget, TrackJob, LeakPolicy, WaitForAllTargets, WaitReturns,
     DestroyBroker, WorkerJoined, JoinTimesOut, ClearClosesJob, ClearDestroys,
     ResetThreadPool
<1>7. CASE TargetEventsThread /\ ~WorkerNotifiesPolicy /\ ~WorkerNotifiesLate
  BY <1>7 DEF TargetEventsThread, WorkerStarts, GetQueuedCompletionStatus,
     LookUpNewProcess, CountNewProcess, EraseExitedProcess, CountExitedProcess,
     ActiveProcessLimit, ProcessMemoryLimit, WorkerClosesJob, NothingToFree,
     WorkerQuits
<1>8. CASE (\E s \in Targets : Kernel(s)) \/ UNCHANGED vars
  BY <1>8 DEF Kernel, ProcessExits, ChildCreated, ChildRefused, MemoryExceeded, vars
<1> QED
  BY <1>1, <1>2, <1>3, <1>4, <1>5, <1>6, <1>7, <1>8 DEF Next, Caller

LEMMA OtherChildless ==
  ASSUME DeleteInv, TypeOK', Apart, AtHand, Keys, OwnListed, Childless, [Next]_vars,
         ~SpawnTarget, ~TrackJob,
         \A s \in Targets : ~ProcessExits(s) /\ ~ChildCreated(s) /\ ~ChildRefused(s)
  PROVE  Childless'
<1>0. Typed /\ OpenJobs /\ TypeOK /\ InFlight \in Seq(Packets)
  BY Flight DEF DeleteInv, Typed
<1>1. procs' = procs /\ pid' = pid /\ spawned' = spawned
  BY DEF Next, Caller, SpawnCleanup, AddTarget, LeakPolicy, WaitForAllTargets,
     WaitReturns, DropPolicy, DestroyBroker, WorkerJoined, JoinTimesOut,
     ClearClosesJob, ClearNotifiesPolicy, ClearDestroys, ResetThreadPool,
     TargetEventsThread, WorkerStarts, GetQueuedCompletionStatus,
     LookUpNewProcess, CountNewProcess, EraseExitedProcess, CountExitedProcess,
     ActiveProcessLimit, ProcessMemoryLimit, WorkerClosesJob,
     WorkerNotifiesPolicy, WorkerNotifiesLate, NothingToFree, WorkerQuits,
     Kernel, MemoryExceeded, vars
<1> DEFINE Quiet(N) == \A x \in N : x.event \in {"PROCESS_MEMORY_LIMIT", "QUIT"}
<1>2. PICK N : Carries(InFlight, InFlight', N) /\ Quiet(N)
  <2>1. Steady \/ Takes \/ \E x \in Packets : Posts(x)
    BY <1>0, QuietEffect
  <2>2. CASE Steady \/ Takes
    <3>1. Carries(InFlight, InFlight', {})
      BY <1>0, <2>2, CarriesSteps DEF Steady, Takes
    <3>2. Quiet({})
      OBVIOUS
    <3> HIDE DEF Quiet
    <3> QED
      BY <3>1, <3>2
  <2>3. ASSUME NEW x \in Packets, Posts(x)
        PROVE  \E N : Carries(InFlight, InFlight', N) /\ Quiet(N)
    <3>1. Carries(InFlight, InFlight', {x}) /\ Quiet({x})
      BY <1>0, <2>3, CarriesSteps DEF Posts
    <3> HIDE DEF Quiet
    <3> QED
      BY <3>1
  <2> HIDE DEF Quiet
  <2> QED
    BY <2>1, <2>2, <2>3
<1>3. \A s \in Targets : tracker'[s] # "none" => tracker[s] # "none"
  BY <1>0, SettledStep
<1>4. \A s \in Targets : s = spawned' /\ main' \in {"create", "track"} => InSpawn(s)
  <2>1. main' \in {"create", "track"} => main \in {"create", "track"}
    BY DEF Next, Caller, SpawnCleanup, AddTarget, LeakPolicy, WaitForAllTargets,
     WaitReturns, DropPolicy, DestroyBroker, WorkerJoined, JoinTimesOut,
     ClearClosesJob, ClearNotifiesPolicy, ClearDestroys, ResetThreadPool,
     TargetEventsThread, WorkerStarts, GetQueuedCompletionStatus,
     LookUpNewProcess, CountNewProcess, EraseExitedProcess, CountExitedProcess,
     ActiveProcessLimit, ProcessMemoryLimit, WorkerClosesJob,
     WorkerNotifiesPolicy, WorkerNotifiesLate, NothingToFree, WorkerQuits,
     Kernel, MemoryExceeded, vars
  <2> QED
    BY <1>1, <2>1 DEF InSpawn, LockHeld
<1>5. Released => ReleasedNext
  BY DEF Released, ReleasedNext, Quitting, Next, Caller, SpawnCleanup, AddTarget,
     LeakPolicy, WaitForAllTargets, WaitReturns, DropPolicy, DestroyBroker,
     WorkerJoined, JoinTimesOut, ClearClosesJob, ClearNotifiesPolicy,
     ClearDestroys, ResetThreadPool, TargetEventsThread, WorkerStarts,
     GetQueuedCompletionStatus, LookUpNewProcess, CountNewProcess,
     EraseExitedProcess, CountExitedProcess, ActiveProcessLimit,
     ProcessMemoryLimit, WorkerClosesJob, WorkerNotifiesPolicy,
     WorkerNotifiesLate, NothingToFree, WorkerQuits, Kernel, MemoryExceeded, vars
<1>6. \A t \in Targets : object[t] = "live" /\ object'[t] # "live" =>
        \/ ReleasedNext
        \/ /\ ~RunsNext(t)
           /\ \A i \in DOMAIN InFlight' : InFlight'[i].event = "EXIT_PROCESS" =>
                InFlight'[i].key # t
  BY <1>1, QuietDeletes
<1>7. \A s \in Targets : Running(s) => pid[s] \in ids'
  <2> SUFFICES ASSUME NEW s \in Targets, Running(s) PROVE pid[s] \in ids'
    OBVIOUS
  <2>1. pid[s] \in ids
    BY DEF Childless, ActiveIds
  <2>2. CASE EraseExitedProcess
    <3>1. packet.event = "EXIT_PROCESS" /\ ids' = ids \ {packet.ovl}
      BY <2>2 DEF EraseExitedProcess, Got
    <3>2. 1 \in DOMAIN InFlight /\ InFlight[1] = packet
      <4>1. InFlight # <<>> /\ InFlight[1] = packet
        BY <1>0, <3>1, Flight, PacketFields
      <4> QED
        BY <1>0, <4>1
    <3>3. pid[s] # packet.ovl
      BY <3>1, <3>2 DEF Childless, ExitedApart, Runs, Running
    <3> QED
      BY <2>1, <3>1, <3>3
  <2>3. CASE ~EraseExitedProcess
    <3>1. ids' = ids
      BY <2>3 DEF Next, Caller, SpawnCleanup, AddTarget, LeakPolicy,
         WaitForAllTargets, WaitReturns, DropPolicy, DestroyBroker, WorkerJoined,
         JoinTimesOut, ClearClosesJob, ClearNotifiesPolicy, ClearDestroys,
         ResetThreadPool, TargetEventsThread, WorkerStarts,
         GetQueuedCompletionStatus, LookUpNewProcess, CountNewProcess,
         CountExitedProcess, ActiveProcessLimit, ProcessMemoryLimit,
         WorkerClosesJob, WorkerNotifiesPolicy, WorkerNotifiesLate,
         NothingToFree, WorkerQuits, Kernel, MemoryExceeded, vars
    <3> QED
      BY <2>1, <3>1
  <2> QED
    BY <2>2, <2>3
<1> QED
  BY <1>0, <1>1, <1>2, <1>3, <1>4, <1>5, <1>6, <1>7, QuietChildless

LEMMA ActiveStep == ActiveInv /\ [Next]_vars => ActiveInv'
<1> SUFFICES ASSUME ActiveInv, [Next]_vars PROVE ActiveInv'
  OBVIOUS
<1>0. /\ BookInv /\ DeleteInv /\ Typed /\ TypeOK /\ OpenJobs /\ Apart /\ AtHand /\ Keys
      /\ OwnListed
  BY DEF ActiveInv, BookInv, DeleteInv, Typed, FlightInv
<1>1. BookInv' /\ OwnListed' /\ TypeOK'
  BY <1>0, BookStep, OwnListedStep DEF BookInv, DeleteInv, Typed
<1>2. ASSUME NoChildren' PROVE Childless'
  <2>1. Childless /\ \A s \in Targets : ~ChildCreated(s) /\ ~ChildRefused(s)
    BY <1>0, <1>2, ChildlessBefore DEF ActiveInv
  <2>2. CASE SpawnTarget
    BY <1>0, <1>1, <2>1, <2>2, SpawnChildless
  <2>3. CASE TrackJob
    BY <1>0, <1>1, <2>1, <2>3, TrackChildless
  <2>4. CASE \E s \in Targets : ProcessExits(s)
    BY <1>0, <1>1, <2>1, <2>4, ExitChildless
  <2>5. CASE /\ ~SpawnTarget /\ ~TrackJob
             /\ \A s \in Targets : ~ProcessExits(s)
    BY <1>0, <1>1, <2>1, <2>5, OtherChildless
  <2> QED
    BY <2>2, <2>3, <2>4, <2>5
<1> QED
  BY <1>1, <1>2 DEF ActiveInv

LEMMA ActiveStart == Init => ActiveInv
<1> SUFFICES ASSUME Init PROVE ActiveInv
  OBVIOUS
<1>1. /\ InFlight = <<>> /\ DOMAIN InFlight = {}
      /\ \A s \in Targets : tracker[s] = "none" /\ procs[s] = {}
  BY DEF Init, InFlight
<1>2. OwnListed
  BY <1>1 DEF OwnListed
<1>3. Childless
  BY <1>1 DEF Childless, MainOnly, EventsMain, EmptyLast, ExitedApart,
     ExitedOwned, RunsOwned, ActiveIds, Runs, Running
<1> QED
  BY <1>2, <1>3, BookStart DEF ActiveInv

LEMMA ActiveMeans == ActiveInv => RunningIsActive
BY DEF ActiveInv, Childless, NoChildren, ActiveIds, RunningIsActive

(* As long as no target creates processes, IsActiveTarget answers TRUE for   *)
(* every running target with a job, also when the id of a process that ended *)
(* is given to the next one before the worker gets the exit, whichever way   *)
(* the destructor and the worker race (broker_services.cc:222, 458).         *)
THEOREM ActiveRight == Spec => []RunningIsActive
BY ActiveStart, ActiveStep, ActiveMeans, PTL DEF Spec

(* When every policy asks for a job the worker's books agree with the jobs:  *)
(* the counters count the processes, WaitForAllTargets returns only when the *)
(* targets have exited, and IsActiveTarget knows those that run, but for the *)
(* packets in flight.                                                        *)
THEOREM BooksRight ==
  ASSUME "none" \notin Levels
  PROVE  Spec => []BooksAgree
<1>1. Init => ActiveInv /\ EventInv
  <2> SUFFICES ASSUME Init PROVE JobMade /\ EventOff
    BY ActiveStart DEF ActiveInv, EventInv
  <2> QED
    BY DEF Init, JobMade, EventOff, LockHeld
<1>2. ActiveInv /\ EventInv /\ [Next]_vars => ActiveInv' /\ EventInv'
  <2> SUFFICES ASSUME ActiveInv, EventInv, [Next]_vars PROVE ActiveInv' /\ EventInv'
    OBVIOUS
  <2>1. ActiveInv'
    BY ActiveStep
  <2>2. EventOff'
    BY EventStep
  <2>3. JobMade'
    BY JobMadeStep DEF EventInv, BookInv, DeleteInv
  <2> QED
    BY <2>1, <2>2, <2>3 DEF ActiveInv, EventInv
<1>3. ActiveInv /\ EventInv => BooksAgree
  BY BookCounters, EventMeans, ActiveMeans DEF BooksAgree, ActiveInv
<1> QED
  BY <1>1, <1>2, <1>3, PTL DEF Spec
=============================================================================
