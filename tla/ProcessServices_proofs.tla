------------------------ MODULE ProcessServices_proofs ------------------------
(***************************************************************************)
(* Proofs about the two ways of owning a child process, ScopedProcess and  *)
(* InitReaper, for any exit codes, signals, number of calls and other      *)
(* children, and about the processes of the Mac sandbox, BootstrapSandbox. *)
(* The parent learns of the child from a pipe: the invariants say how much *)
(* of the exchange each state of the child stands for (PipeTells,          *)
(* ByteTold) and in which order the parent goes through its end            *)
(* (DestructorOrder, ReaperOrder).                                         *)
(*                                                                         *)
(* Then SandboxEntry, for any workers, capabilities, sandboxes and number  *)
(* of probes.  What every thread has follows from what /proc shows: the    *)
(* calls that act on one thread are made when /proc lists no other, so the *)
(* invariant says who may run without being listed (ProcSeen), that a      *)
(* filter for one thread is only installed with no other thread            *)
(* (SyncNeeded), and who owns a descriptor of /proc (ProcFdsApart).        *)
(***************************************************************************)
EXTENDS ScopedProcess, InitReaper, BootstrapSandbox, SandboxEntry, TLAPS

-----------------------------------------------------------------------------
(* ScopedProcess.  A byte is in the pipe, or was read, only when the closure *)
(* has returned, and it is read before the pipe is at its end.               *)
PipeTells ==
  /\ child = "closure" => ~ran
  /\ child \in {"returned", "paused"} => ran
  /\ child \in {"closure", "returned"} => bytes = 0 /\ reads = <<>>
  /\ bytes = 1 => ran /\ reads = <<>>
  /\ child \in Alive => exits = <<>> /\ \A i \in DOMAIN reads : reads[i]
  /\ \A i \in DOMAIN reads : reads[i] => ran /\ i = 1

DestructorOrder ==
  /\ parent \in {"idle", "read", "wait"} => killed = "none"
  /\ child = "reaped" <=> parent = "gone"
  /\ parent = "reap" => child = "zombie"

ScopedIInv == ScopedInv /\ PipeTells /\ DestructorOrder

LEMMA Appended ==
  ASSUME NEW S, NEW s \in Seq(S), NEW e \in S
  PROVE  /\ Append(s, e) \in Seq(S) /\ Len(s) \in Nat /\ DOMAIN s = 1..Len(s)
         /\ \A i \in DOMAIN Append(s, e) :
              IF i \in DOMAIN s THEN Append(s, e)[i] = s[i] ELSE Append(s, e)[i] = e
         /\ DOMAIN Append(s, e) = 1..(Len(s) + 1)
  OBVIOUS

LEMMA ScopedStart == ScopedInit => ScopedIInv
<1> SUFFICES ASSUME ScopedInit PROVE ScopedIInv
  OBVIOUS
<1>1. ScopedTypeOK
  <2>1. child \in Alive /\ ended = "not" /\ parent = "idle" /\ killed = "none"
    BY DEF ScopedInit, Alive
  <2>2. ran \in BOOLEAN /\ heir \in BOOLEAN
    BY DEF ScopedInit
  <2>3. bytes \in 0..1
    BY DEF ScopedInit
  <2>4. reads \in Seq(BOOLEAN) /\ exits \in Seq(Endings)
    BY DEF ScopedInit
  <2> QED
    BY <2>1, <2>2, <2>3, <2>4 DEF ScopedTypeOK
<1>2. AnswersAreTrue /\ KillsItsChild
  BY DEF ScopedInit, AnswersAreTrue, KillsItsChild
<1>3. PipeTells /\ DestructorOrder
  BY DEF ScopedInit, PipeTells, DestructorOrder, Alive
<1> QED
  BY <1>1, <1>2, <1>3 DEF ScopedIInv, ScopedInv, ScopedInit

(* The child ends by itself or of a signal: it leaves what it has told.      *)
LEMMA EndStep ==
  ASSUME ScopedIInv, child \in Alive, NEW how \in Endings, Ends(how),
         UNCHANGED <<ran, heir, bytes, parent, reads, exits, killed>>
  PROVE  ScopedIInv'
<1> USE DEF ScopedIInv, ScopedInv
<1>1. ScopedTypeOK'
  BY DEF ScopedTypeOK, Ends, Alive, Endings
<1>2. AnswersAreTrue' /\ KillsItsChild'
  BY DEF AnswersAreTrue, KillsItsChild, PipeTells, Ends, Alive, ScopedTypeOK
<1>3. PipeTells'
  BY DEF PipeTells, Ends, Alive
<1>4. DestructorOrder' /\ parent # "gone"
  BY DEF DestructorOrder, Ends, Alive
<1> QED
  BY <1>1, <1>2, <1>3, <1>4

LEMMA ChildStep == ScopedIInv /\ ChildNext => ScopedIInv'
<1> SUFFICES ASSUME ScopedIInv, ChildNext PROVE ScopedIInv'
  OBVIOUS
<1>1. CASE ClosureForks \/ HeirEnds
  <2>1. heir' \in BOOLEAN
    BY <1>1 DEF ClosureForks, HeirEnds
  <2>2. UNCHANGED <<child, ended, ran, bytes, parent, reads, exits, killed>>
    BY <1>1 DEF ClosureForks, HeirEnds
  <2> QED
    BY <2>1, <2>2 DEF ScopedIInv, ScopedInv, ScopedTypeOK, AnswersAreTrue, KillsItsChild,
                      PipeTells, DestructorOrder
<1>2. CASE ClosureReturns
  BY <1>2 DEF ScopedIInv, ScopedInv, ClosureReturns, ScopedTypeOK, AnswersAreTrue,
              KillsItsChild, PipeTells, DestructorOrder, Alive
<1>3. CASE NotifyParent
  BY <1>3 DEF ScopedIInv, ScopedInv, NotifyParent, ScopedTypeOK, AnswersAreTrue,
              KillsItsChild, PipeTells, DestructorOrder, Alive
<1>4. ASSUME NEW code \in ExitCodes, ClosureEnds(code) PROVE ScopedIInv'
  BY <1>4, EndStep DEF ClosureEnds, Alive, Endings
<1>5. ASSUME NEW signal \in Signals, Signalled(signal) PROVE ScopedIInv'
  BY <1>5, EndStep DEF Signalled, Endings
<1> QED
  BY <1>1, <1>2, <1>3, <1>4, <1>5 DEF ChildNext

(* An answer of the pipe: true is the first one, false comes of no child.    *)
LEMMA ReadStep == ScopedIInv /\ (ReadByte \/ ReadEndOfFile) => ScopedIInv'
<1> SUFFICES ASSUME ScopedIInv, ReadByte \/ ReadEndOfFile PROVE ScopedIInv'
  OBVIOUS
<1> USE DEF ScopedIInv, ScopedInv
<1>1. CASE ReadByte
  <2>1. bytes = 1 /\ bytes' = 0
    BY <1>1 DEF ReadByte, ScopedTypeOK
  <2>2. ran /\ reads = <<>> /\ reads' = Append(reads, TRUE)
    BY <1>1, <2>1 DEF ReadByte, PipeTells
  <2>3. reads' \in Seq(BOOLEAN) /\ DOMAIN reads' = 1..1 /\ reads'[1] = TRUE
    <3>1. reads \in Seq(BOOLEAN) /\ Len(reads) = 0 /\ TRUE \in BOOLEAN
      BY <2>2 DEF ScopedTypeOK
    <3> QED
      BY <2>2, <3>1, Appended
  <2>4. UNCHANGED <<child, ended, ran, heir, exits, killed>> /\ parent = "read" /\ parent' = "idle"
    BY <1>1 DEF ReadByte, childVars
  <2>5. child \notin {"closure", "returned"}
    BY <2>1 DEF PipeTells
  <2>6. ScopedTypeOK'
    BY <2>1, <2>3, <2>4 DEF ScopedTypeOK
  <2>7. \A i \in DOMAIN reads' : reads'[i] /\ i = 1
    BY <2>3
  <2>8. AnswersAreTrue' /\ KillsItsChild'
    BY <2>2, <2>4, <2>7 DEF AnswersAreTrue, KillsItsChild
  <2>9. PipeTells'
    BY <2>1, <2>2, <2>4, <2>5, <2>7 DEF PipeTells, Alive
  <2> QED
    BY <2>4, <2>6, <2>8, <2>9 DEF DestructorOrder
<1>2. CASE ReadEndOfFile
  <2>1. /\ child \notin Alive /\ bytes = 0 /\ reads' = Append(reads, FALSE)
        /\ UNCHANGED <<child, ended, ran, heir, bytes, exits, killed>>
        /\ parent = "read" /\ parent' = "idle"
    BY <1>2 DEF ReadEndOfFile, childVars
  <2>2. /\ reads' \in Seq(BOOLEAN)
        /\ \A i \in DOMAIN reads' :
             IF i \in DOMAIN reads THEN reads'[i] = reads[i] ELSE reads'[i] = FALSE
    <3> DEFINE longer == Append(reads, FALSE)
    <3>1. reads \in Seq(BOOLEAN) /\ FALSE \in BOOLEAN
      BY DEF ScopedTypeOK
    <3>2. /\ longer \in Seq(BOOLEAN)
          /\ \A i \in DOMAIN longer :
               IF i \in DOMAIN reads THEN longer[i] = reads[i] ELSE longer[i] = FALSE
      BY <3>1, Appended
    <3>3. reads' = longer
      BY <2>1
    <3> HIDE DEF longer
    <3> QED
      BY <3>2, <3>3
  <2>3. ScopedTypeOK'
    BY <2>1, <2>2 DEF ScopedTypeOK
  <2>4. AnswersAreTrue' /\ KillsItsChild'
    BY <2>1, <2>2 DEF AnswersAreTrue, KillsItsChild
  <2>5. PipeTells'
    <3>1. \A i \in DOMAIN reads' : reads'[i] => ran /\ i = 1
      BY <2>2 DEF PipeTells
    <3>2. child' \notin Alive /\ bytes' = 0
      BY <2>1
    <3>3. child' \notin {"closure", "returned", "paused"} /\ bytes' # 1
      BY <3>2 DEF Alive
    <3>4. ran' = ran
      BY <2>1
    <3> HIDE DEF Alive
    <3> QED
      BY <3>1, <3>2, <3>3, <3>4 DEF PipeTells
  <2> QED
    BY <2>1, <2>3, <2>4, <2>5 DEF DestructorOrder
<1> QED
  BY <1>1, <1>2

LEMMA WaitStep == ScopedIInv /\ WaitReturns => ScopedIInv'
<1> SUFFICES ASSUME ScopedIInv, WaitReturns PROVE ScopedIInv'
  OBVIOUS
<1> USE DEF ScopedIInv, ScopedInv
<1>1. /\ exits \in Seq(Endings) /\ exits' = Append(exits, ended) /\ ended \in Endings
      /\ DOMAIN exits' = 1..(Len(exits) + 1) /\ exits'[Len(exits) + 1] = ended
      /\ \A i \in DOMAIN exits : exits'[i] = exits[i]
  BY DEF WaitReturns, ScopedTypeOK, Alive
<1>2. \A i \in DOMAIN exits' : i \in DOMAIN exits \/ exits'[i] = ended
  BY <1>1
<1>3. ScopedTypeOK'
  BY <1>1 DEF WaitReturns, ScopedTypeOK, childVars
<1>4. AnswersAreTrue' /\ KillsItsChild'
  BY <1>1, <1>2 DEF WaitReturns, AnswersAreTrue, KillsItsChild, childVars
<1>5. PipeTells' /\ DestructorOrder'
  BY DEF WaitReturns, PipeTells, DestructorOrder, childVars, Alive
<1> QED
  BY <1>3, <1>4, <1>5 DEF WaitReturns

LEMMA DestroyStep == ScopedIInv /\ (Destructor \/ Reap) => ScopedIInv'
<1> SUFFICES ASSUME ScopedIInv, Destructor \/ Reap PROVE ScopedIInv'
  OBVIOUS
<1> USE DEF ScopedIInv, ScopedInv
<1>1. CASE Destructor
  <2>1. child # "reaped" /\ killed' = "child"
    BY <1>1 DEF Destructor, DestructorOrder
  <2>2. SIGKILL \in Endings
    BY ScopedAssumption DEF Endings
  <2>3. ScopedTypeOK'
    BY <1>1, <2>1, <2>2 DEF Destructor, Ends, ScopedTypeOK, Alive
  <2>4. AnswersAreTrue' /\ KillsItsChild'
    BY <1>1, <2>1 DEF Destructor, Ends, AnswersAreTrue, KillsItsChild, PipeTells, Alive
  <2>5. PipeTells'
    BY <1>1 DEF Destructor, Ends, PipeTells, Alive
  <2>6. DestructorOrder'
    BY <1>1, <2>1 DEF Destructor, Ends, DestructorOrder, Alive, ScopedTypeOK
  <2> QED
    BY <1>1, <2>3, <2>4, <2>5, <2>6 DEF Destructor
<1>2. CASE Reap
  BY <1>2 DEF Reap, ScopedTypeOK, AnswersAreTrue, KillsItsChild, PipeTells, DestructorOrder, Alive
<1> QED
  BY <1>1, <1>2

LEMMA CallStep == ScopedIInv /\ (WaitForClosureToRun \/ WaitForExit) => ScopedIInv'
  BY DEF ScopedIInv, ScopedInv, WaitForClosureToRun, WaitForExit, ScopedTypeOK, AnswersAreTrue,
         KillsItsChild, PipeTells, DestructorOrder, childVars

(* What the parent is told of its child is true, its destructor signals the  *)
(* child and nobody else, and leaves no child: for any closure, any signals  *)
(* and any number of calls (scoped_process.cc:61-111).                       *)
THEOREM ScopedHolds == ScopedSpec => []ScopedInv
<1>1. ScopedIInv /\ [ScopedNext]_scopedVars => ScopedIInv'
  <2> SUFFICES ASSUME ScopedIInv, [ScopedNext]_scopedVars PROVE ScopedIInv'
    OBVIOUS
  <2>1. CASE ScopedNext
    BY <2>1, ChildStep, ReadStep, WaitStep, DestroyStep, CallStep DEF ScopedNext, ParentStep
  <2>2. CASE UNCHANGED scopedVars
    BY <2>2 DEF scopedVars, childVars, ScopedIInv, ScopedInv, ScopedTypeOK, AnswersAreTrue,
                KillsItsChild, PipeTells, DestructorOrder
  <2> QED
    BY <2>1, <2>2
<1>2. ScopedIInv => ScopedInv
  BY DEF ScopedIInv
<1> QED
  BY <1>1, <1>2, ScopedStart, PTL DEF ScopedSpec, ScopedSafety

-----------------------------------------------------------------------------
(* InitReaper.  The byte goes once, after the callback, and a child that has *)
(* not had it ended by a signal or knows that init has crashed.              *)
ByteTold ==
  /\ go = 1 => init \in {"reap", "exited"}
  /\ natural = "continues" => init = "reap"
  /\ init \in {"callback", "send"} => natural \in {"waits", "zombie"}
  /\ init \in {"callback", "send"} /\ natural = "zombie" => ending = Killed
  /\ natural = "refused" => init = "crashed" /\ ~called_back

ReaperOrder ==
  /\ init \in {"send", "reap", "exited"} => called_back
  /\ init = "callback" => ~called_back
  /\ natural = "reaped" <=> init = "exited"

ReaperIInv == ReaperInv /\ ByteTold /\ ReaperOrder

LEMMA ReaperStart == ReaperInit => ReaperIInv
<1> SUFFICES ASSUME ReaperInit PROVE ReaperIInv
  OBVIOUS
<1>0. called_back \in BOOLEAN
  BY DEF ReaperInit
<1>1. go \in 0..1
  BY DEF ReaperInit
<1>2. other \in [Others -> {"none", "alive", "zombie", "reaped"}]
  BY DEF ReaperInit
<1>3. ReaperTypeOK
  BY <1>0, <1>1, <1>2, ReaperAssumption DEF ReaperInit, ReaperTypeOK
<1> QED
  BY <1>3 DEF ReaperInit, ReaperIInv, ReaperInv, ReaperWatches, ExitCodeHandedOn,
              CrashesWithoutChild, ByteTold, ReaperOrder

LEMMA ReaperTypeStep == ReaperIInv /\ ReaperNext => ReaperTypeOK'
<1> SUFFICES ASSUME ReaperTypeOK, ReaperOrder, ReaperNext PROVE ReaperTypeOK'
  BY DEF ReaperIInv, ReaperInv
<1> USE DEF ReaperTypeOK
<1>1. CASE RunCallback \/ TellChild
  <2>0. called_back' \in BOOLEAN
    BY <1>1 DEF RunCallback, TellChild
  <2>1. go' \in 0..1 /\ init' \in {"send", "reap", "crashed"}
    BY <1>1 DEF RunCallback, TellChild
  <2>2. UNCHANGED <<natural, ending, other, exit_code>>
    BY <1>1 DEF RunCallback, TellChild
  <2> QED
    BY <2>0, <2>1, <2>2
<1>2. CASE ReapNatural
  BY <1>2, ReaperAssumption DEF ReapNatural
<1>3. CASE Continue
  BY <1>3 DEF Continue
<1>4. ASSUME NEW how \in Codes \union {Killed}, NaturalEnds(how) PROVE ReaperTypeOK'
  BY <1>4 DEF NaturalEnds
<1>5. ASSUME NEW p \in Others, ReapOther(p) \/ OtherAppears(p) \/ OtherEnds(p)
      PROVE ReaperTypeOK'
  BY <1>5 DEF ReapOther, OtherAppears, OtherEnds
<1> QED
  BY <1>1, <1>2, <1>3, <1>4, <1>5 DEF ReaperNext, InitStep

(* Init and its child, without the other children.                           *)
ReaperCore == ReaperWatches /\ ExitCodeHandedOn /\ CrashesWithoutChild /\ ByteTold /\ ReaperOrder

LEMMA ReaperCoreStep == ReaperIInv /\ ReaperNext => ReaperCore'
<1> SUFFICES ASSUME ReaperTypeOK, ReaperCore, ReaperNext PROVE ReaperCore'
  BY DEF ReaperIInv, ReaperInv, ReaperCore
<1> USE DEF ReaperTypeOK, ReaperCore, ReaperWatches, ExitCodeHandedOn, CrashesWithoutChild,
            ByteTold, ReaperOrder
<1>1. CASE RunCallback
  <2>1. /\ init = "callback" /\ UNCHANGED <<go, natural, ending, exit_code>>
        /\ (init' = "send" /\ called_back') \/ (init' = "crashed" /\ called_back' = called_back)
    BY <1>1 DEF RunCallback
  <2>2. CASE init' = "send"
    BY <2>1, <2>2
  <2>3. CASE init' = "crashed"
    BY <2>1, <2>3
  <2> QED
    BY <2>1, <2>2, <2>3
<1>2. CASE TellChild
  BY <1>2 DEF TellChild
<1>3. CASE ReapNatural
  BY <1>3 DEF ReapNatural
<1>4. CASE Continue
  BY <1>4 DEF Continue
<1>5. ASSUME NEW how \in Codes \union {Killed}, NaturalEnds(how) PROVE ReaperCore'
  BY <1>5 DEF NaturalEnds
<1>6. ASSUME NEW p \in Others, ReapOther(p) \/ OtherAppears(p) \/ OtherEnds(p)
      PROVE ReaperCore'
  BY <1>6 DEF ReapOther, OtherAppears, OtherEnds
<1> QED
  BY <1>1, <1>2, <1>3, <1>4, <1>5, <1>6 DEF ReaperNext, InitStep

(* The child that continues has its init and init ends with that child and   *)
(* its exit code, whatever other children come and go                        *)
(* (init_process_reaper.cc:42-83).                                           *)
THEOREM ReaperHolds == ReaperSpec => []ReaperInv
<1>1. ReaperIInv /\ [ReaperNext]_reaperVars => ReaperIInv'
  <2> SUFFICES ASSUME ReaperIInv, [ReaperNext]_reaperVars PROVE ReaperIInv'
    OBVIOUS
  <2>1. CASE ReaperNext
    BY <2>1, ReaperTypeStep, ReaperCoreStep DEF ReaperCore, ReaperIInv, ReaperInv
  <2>2. CASE UNCHANGED reaperVars
    BY <2>2 DEF reaperVars, ReaperIInv, ReaperInv, ReaperTypeOK, ReaperWatches,
                ExitCodeHandedOn, CrashesWithoutChild, ByteTold, ReaperOrder
  <2> QED
    BY <2>1, <2>2
<1>2. ReaperIInv => ReaperInv
  BY DEF ReaperIInv
<1> QED
  BY <1>1, <1>2, ReaperStart, PTL DEF ReaperSpec, ReaperSafety

-----------------------------------------------------------------------------
(* BootstrapSandbox, for any processes, identifiers, policies and requests.  *)
(* Identifiers are used again while messages of their old owners wait, so    *)
(* the invariant follows the check-ins: of two from one identifier only the  *)
(* last is of a process that still has it (LastSender), a message meets no   *)
(* entry but that of the check-in being answered (Unentered), and who is     *)
(* inside has its entry (Entered).                                           *)
Waiting == 1..Len(check_ins)
Asked == {"asking", "dead", "invalidated", "gone"}

CheckInsApart ==
  /\ check_ins \in Seq(Clients) /\ replying \in Clients \union {Nobody}
  /\ \A i \in Waiting : life[check_ins[i]] \in Asked /\ check_ins[i] # replying
  /\ replying # Nobody => life[replying] \in Asked
  /\ \A i, j \in Waiting : i # j => check_ins[i] # check_ins[j]

PidsApart == \A q, o \in Procs : HasPid(q) /\ HasPid(o) /\ pid_of[q] = pid_of[o] => q = o

LastSender ==
  /\ \A i, j \in Waiting :
       i < j /\ pid_of[check_ins[i]] = pid_of[check_ins[j]] => ~HasPid(check_ins[i])
  /\ replying # Nobody /\ HasPid(replying) =>
       \A i \in Waiting : pid_of[check_ins[i]] # pid_of[replying]

Unentered ==
  \A i \in Waiting : pid_of[check_ins[i]] \in DOMAIN sandboxed_processes =>
    replying # Nobody /\ pid_of[replying] = pid_of[check_ins[i]]

Owns(q, pid) ==
  /\ pid_of[q] = pid /\ policy_of[q] = sandboxed_processes[pid]
  /\ life[q] \in {"asking", "inside", "refused", "dead"} \/ replying = q

Owned == \A pid \in DOMAIN sandboxed_processes : \E q \in Clients : Owns(q, pid)

HasEntry(q) ==
  pid_of[q] \in DOMAIN sandboxed_processes /\ sandboxed_processes[pid_of[q]] = policy_of[q]

Entered ==
  /\ \A q \in Clients : life[q] = "inside" => HasEntry(q)
  /\ replying # Nobody /\ life[replying] = "asking" => HasEntry(replying)
  /\ replying # Nobody => \A q \in Clients : life[q] = "inside" => pid_of[q] # pid_of[replying]

Named ==
  /\ \A q \in Clients : life[q] # "unborn" => policy_of[q] \in Policies
  /\ \A q \in Descendants : policy_of[q] = Nobody

SendersInside ==
  \A i \in 1..Len(requests) : life[requests[i]] \in {"inside", "dead", "invalidated", "gone"}

BootstrapIInv ==
  /\ BootstrapTypeOK /\ ChecksHold
  /\ CheckInsApart /\ PidsApart /\ LastSender /\ Unentered /\ Owned /\ Entered
  /\ Named /\ SendersInside

-----------------------------------------------------------------------------
LEMMA Becomes ==
  ASSUME BootstrapTypeOK, NEW q \in Procs, NEW stage \in Lives, Become(q, stage)
  PROVE  /\ life' \in [Procs -> Lives]
         /\ \A o \in Procs : life'[o] = IF o = q THEN stage ELSE life[o]
  BY DEF BootstrapTypeOK, Become

LEMMA Queued ==
  ASSUME NEW S, NEW s \in Seq(S), NEW e \in S
  PROVE  /\ Append(s, e) \in Seq(S) /\ Len(s) \in Nat /\ Len(Append(s, e)) = Len(s) + 1
         /\ \A i \in 1..Len(s) : Append(s, e)[i] = s[i]
         /\ Append(s, e)[Len(s) + 1] = e
  OBVIOUS

LEMMA Tailed ==
  ASSUME NEW S, NEW s \in Seq(S), s # <<>>
  PROVE  /\ Tail(s) \in Seq(S) /\ Len(s) \in Nat \ {0} /\ Len(Tail(s)) = Len(s) - 1
         /\ \A i \in 1..Len(Tail(s)) : Tail(s)[i] = s[i + 1] /\ i + 1 \in 1..Len(s)
         /\ Head(s) = s[1] /\ s[1] \in S
  OBVIOUS

LEMMA Somebody == Nobody \notin Procs /\ Nobody \notin Policies
  BY BootstrapAssumption DEF Procs

LEMMA ClientsAreProcs == Clients \subseteq Procs /\ Descendants \subseteq Procs
  BY DEF Procs

LEMMA BootstrapStart == BootstrapInit => BootstrapIInv
<1> SUFFICES ASSUME BootstrapInit PROVE BootstrapIInv
  OBVIOUS
<1>1. (CHOOSE pid \in Pids : TRUE) \in Pids
  BY BootstrapAssumption
<1>2. pid_of \in [Procs -> Pids] /\ life \in [Procs -> Lives]
  BY <1>1 DEF BootstrapInit, Lives
<1>3. policy_of \in [Procs -> Policies \union {Nobody}] /\ DOMAIN sandboxed_processes = {}
  BY DEF BootstrapInit
<1>4. check_failed \in BOOLEAN
  BY DEF BootstrapInit
<1>5. /\ check_ins \in Seq(Procs) /\ check_ins \in Seq(Clients) /\ requests \in Seq(Procs)
      /\ Waiting = {} /\ 1..Len(requests) = {}
  BY DEF BootstrapInit, Waiting
<1>6. BootstrapTypeOK
  BY <1>2, <1>3, <1>4, <1>5 DEF BootstrapInit, BootstrapTypeOK
<1>7. \A q \in Procs : life[q] = "unborn" /\ policy_of[q] = Nobody /\ ~HasPid(q)
  BY DEF BootstrapInit, HasPid, Live
<1> QED
  BY <1>3, <1>5, <1>6, <1>7, ClientsAreProcs
  DEF BootstrapInit, BootstrapIInv, ChecksHold, CheckInsApart, PidsApart, LastSender, Unentered,
      Owned, Entered, Named, SendersInside

-----------------------------------------------------------------------------
(* A process ends, is reaped, or was never launched.                         *)
LEMMA LifeStep ==
  ASSUME BootstrapIInv, NEW q \in Procs,
         LaunchFails(q) \/ ReapProcess(q) \/ ProcessEnds(q), q \notin Clients => ~LaunchFails(q)
  PROVE  BootstrapIInv'
<1> DEFINE stage == life'[q]
<1>1. /\ UNCHANGED <<pid_of, policy_of, mapVars, serverVars>>
      /\ \A o \in Procs : o # q => life'[o] = life[o]
      /\ life' \in [Procs -> Lives]
      /\ \/ life[q] = "launching" /\ life'[q] = "gone"
         \/ life[q] = "invalidated" /\ life'[q] = "gone"
         \/ life[q] = "dead" /\ q \notin Clients /\ life'[q] = "gone"
         \/ life[q] \in {"forked", "asking", "inside", "refused"} /\ life'[q] = "dead"
  <2>1. "gone" \in Lives /\ "dead" \in Lives
    BY DEF Lives
  <2>2. BootstrapTypeOK
    BY DEF BootstrapIInv
  <2>3. CASE LaunchFails(q)
    BY <2>1, <2>2, <2>3, Becomes DEF LaunchFails
  <2>4. CASE ReapProcess(q)
    BY <2>1, <2>2, <2>4, Becomes DEF ReapProcess
  <2>5. CASE ProcessEnds(q)
    BY <2>1, <2>2, <2>5, Becomes DEF ProcessEnds, Live
  <2> QED
    BY <2>3, <2>4, <2>5
<1>2. \A o \in Procs : HasPid(o)' => HasPid(o)
  BY <1>1 DEF HasPid, Live
<1>3. BootstrapTypeOK' /\ ChecksHold'
  BY <1>1 DEF BootstrapIInv, BootstrapTypeOK, ChecksHold, mapVars, serverVars
<1>4. CheckInsApart'
  <2>1. \A i \in Waiting : check_ins[i] \in Procs
    BY ClientsAreProcs DEF BootstrapIInv, CheckInsApart, Waiting
  <2>2. replying # Nobody => replying \in Procs
    BY ClientsAreProcs DEF BootstrapIInv, CheckInsApart
  <2>3. \A o \in Procs : life[o] \in Asked => life'[o] \in Asked
    BY <1>1 DEF Asked
  <2> QED
    BY <1>1, <2>1, <2>2, <2>3 DEF BootstrapIInv, CheckInsApart, serverVars, Waiting
<1>5. PidsApart'
  BY <1>1, <1>2 DEF BootstrapIInv, PidsApart
<1>6. LastSender'
  <2>1. \A i \in Waiting : check_ins[i] \in Procs
    BY ClientsAreProcs DEF BootstrapIInv, CheckInsApart, Waiting
  <2>2. replying # Nobody => replying \in Procs
    BY ClientsAreProcs DEF BootstrapIInv, CheckInsApart
  <2> QED
    BY <1>1, <1>2, <2>1, <2>2 DEF BootstrapIInv, LastSender, serverVars, Waiting
<1>7. Unentered'
  BY <1>1 DEF BootstrapIInv, Unentered, serverVars, mapVars, Waiting
<1>8. Owned'
  <2> SUFFICES ASSUME NEW pid \in DOMAIN sandboxed_processes
               PROVE  \E o \in Clients : Owns(o, pid)'
    BY <1>1 DEF Owned, mapVars
  <2>1. PICK o \in Clients : Owns(o, pid)
    BY DEF BootstrapIInv, Owned
  <2>2. Owns(o, pid)'
    BY <1>1, <2>1, ClientsAreProcs DEF Owns, mapVars, serverVars
  <2> QED
    BY <2>2
<1>9. Entered'
  <2>1. \A o \in Procs : life'[o] = "inside" => life[o] = "inside"
    BY <1>1
  <2>2. \A o \in Procs : life'[o] = "asking" => life[o] = "asking"
    BY <1>1
  <2>3. replying # Nobody => replying \in Procs
    BY ClientsAreProcs DEF BootstrapIInv, CheckInsApart
  <2>4. \A o \in Procs : HasEntry(o)' <=> HasEntry(o)
    BY <1>1 DEF HasEntry, mapVars
  <2> QED
    BY <1>1, <2>1, <2>2, <2>3, <2>4, ClientsAreProcs DEF BootstrapIInv, Entered, serverVars
<1>10. Named'
  BY <1>1, ClientsAreProcs DEF BootstrapIInv, Named
<1>11. SendersInside'
  <2>1. \A i \in 1..Len(requests) : requests[i] \in Procs
    BY DEF BootstrapIInv, BootstrapTypeOK
  <2> QED
    BY <1>1, <2>1 DEF BootstrapIInv, SendersInside, serverVars
<1> QED
  BY <1>3, <1>4, <1>5, <1>6, <1>7, <1>8, <1>9, <1>10, <1>11 DEF BootstrapIInv

(* A process is named, launched or started: nobody has heard of it yet.      *)
Begins(q) ==
  \/ q \in Clients /\ \E policy \in Policies : NewClient(q, policy)
  \/ q \in Clients /\ \E pid \in Pids : LaunchProcess(q, pid)
  \/ q \in Descendants /\ \E caller \in Procs, pid \in Pids : StartOther(caller, q, pid)

LEMMA BeginStep == ASSUME BootstrapIInv, NEW q \in Procs, Begins(q) PROVE BootstrapIInv'
<1>1. /\ UNCHANGED <<sandboxed_processes, serverVars>>
      /\ life[q] \in {"unborn", "launching"}
      /\ life' \in [Procs -> Lives] /\ pid_of' \in [Procs -> Pids]
      /\ policy_of' \in [Procs -> Policies \union {Nobody}]
      /\ awaiting_processes' \subseteq Procs
      /\ \A o \in Procs : o # q =>
           life'[o] = life[o] /\ pid_of'[o] = pid_of[o] /\ policy_of'[o] = policy_of[o]
      /\ HasPid(q)' => \A o \in Procs : HasPid(o) => pid_of[o] # pid_of'[q]
      /\ q \in Clients => life'[q] \in {"launching", "forked"} /\ policy_of'[q] \in Policies
      /\ q \in Descendants => life'[q] = "inside" /\ policy_of'[q] = Nobody
  <2>1. "launching" \in Lives /\ "forked" \in Lives /\ "inside" \in Lives
    BY DEF Lives
  <2>2. BootstrapTypeOK /\ Named
    BY DEF BootstrapIInv
  <2>3. Clients \intersect Descendants = {}
    BY BootstrapAssumption
  <2>4. ASSUME NEW policy \in Policies, q \in Clients, NewClient(q, policy) PROVE <1>1
    <3>1. life'[q] = "launching" /\ ~HasPid(q)'
      BY <2>1, <2>2, <2>4, Becomes DEF NewClient, HasPid, Live
    <3> QED
      BY <2>1, <2>2, <2>3, <2>4, <3>1, Becomes DEF NewClient, BootstrapTypeOK
  <2>5. ASSUME NEW pid \in Pids, q \in Clients, LaunchProcess(q, pid) PROVE <1>1
    <3>1. policy_of[q] \in Policies
      BY <2>2, <2>5 DEF Named, LaunchProcess
    <3> QED
      BY <2>1, <2>2, <2>3, <2>5, <3>1, Becomes
      DEF LaunchProcess, BootstrapTypeOK, Free, mapVars
  <2>6. ASSUME NEW caller \in Procs, NEW pid \in Pids, q \in Descendants,
               StartOther(caller, q, pid)
        PROVE  <1>1
    BY <2>1, <2>2, <2>3, <2>6, Becomes DEF StartOther, BootstrapTypeOK, Free, mapVars, Named
  <2> QED
    BY <2>4, <2>5, <2>6 DEF Begins
<1>2. \A o \in Procs : o # q => (HasPid(o)' <=> HasPid(o))
  BY <1>1 DEF HasPid, Live
<1>3. /\ \A i \in Waiting : check_ins[i] \in Clients \ {q}
      /\ replying # Nobody => replying \in Clients \ {q}
  BY <1>1 DEF BootstrapIInv, CheckInsApart, Asked, Waiting
<1>4. BootstrapTypeOK' /\ ChecksHold'
  BY <1>1 DEF BootstrapIInv, BootstrapTypeOK, ChecksHold, serverVars
<1>5. CheckInsApart'
  BY <1>1, <1>3, ClientsAreProcs DEF BootstrapIInv, CheckInsApart, serverVars, Waiting
<1>6. PidsApart'
  BY <1>1, <1>2 DEF BootstrapIInv, PidsApart
<1>7. LastSender'
  BY <1>1, <1>2, <1>3, ClientsAreProcs DEF BootstrapIInv, LastSender, serverVars, Waiting
<1>8. Unentered'
  BY <1>1, <1>3, ClientsAreProcs DEF BootstrapIInv, Unentered, serverVars, Waiting
<1>9. Owned'
  <2> SUFFICES ASSUME NEW pid \in DOMAIN sandboxed_processes
               PROVE  \E o \in Clients : Owns(o, pid)'
    BY <1>1 DEF Owned
  <2>1. PICK o \in Clients : Owns(o, pid)
    BY DEF BootstrapIInv, Owned
  <2>2. o # q
    BY <1>1, <1>3, <2>1, Somebody DEF Owns
  <2>3. Owns(o, pid)'
    BY <1>1, <2>1, <2>2, ClientsAreProcs DEF Owns, serverVars
  <2> QED
    BY <2>3
<1>10. Entered'
  <2>1. \A o \in Clients : life'[o] = "inside" => o # q /\ life[o] = "inside"
    BY <1>1, ClientsAreProcs
  <2>2. \A o \in Procs : o # q => (HasEntry(o)' <=> HasEntry(o))
    BY <1>1 DEF HasEntry
  <2> QED
    BY <1>1, <1>3, <2>1, <2>2, ClientsAreProcs DEF BootstrapIInv, Entered, serverVars
<1>11. Named'
  BY <1>1, ClientsAreProcs DEF BootstrapIInv, Named
<1>12. SendersInside'
  <2>1. \A i \in 1..Len(requests) : requests[i] \in Procs \ {q}
    BY <1>1 DEF BootstrapIInv, BootstrapTypeOK, SendersInside
  <2> QED
    BY <1>1, <2>1 DEF BootstrapIInv, SendersInside, serverVars
<1> QED
  BY <1>4, <1>5, <1>6, <1>7, <1>8, <1>9, <1>10, <1>11, <1>12 DEF BootstrapIInv

(* The parent gives a token up, and the server takes a request.              *)
LEMMA QuietStep ==
  ASSUME BootstrapIInv, (\E q \in Clients : RevokeToken(q)) \/ DemuxMessage
  PROVE  BootstrapIInv'
<1>1. /\ UNCHANGED <<lifeVars, sandboxed_processes, check_ins, replying, check_failed>>
      /\ awaiting_processes' \subseteq awaiting_processes
      /\ requests' = requests \/ (requests # <<>> /\ requests' = Tail(requests))
  BY DEF RevokeToken, DemuxMessage, serverVars, mapVars
<1>2. /\ requests' \in Seq(Procs)
      /\ \A i \in 1..Len(requests') : \E j \in 1..Len(requests) : requests'[i] = requests[j]
  <2>1. requests \in Seq(Procs)
    BY DEF BootstrapIInv, BootstrapTypeOK
  <2> QED
    BY <1>1, <2>1, Tailed
<1>3. BootstrapTypeOK' /\ SendersInside'
  BY <1>1, <1>2 DEF BootstrapIInv, BootstrapTypeOK, SendersInside, lifeVars
<1>4. (ChecksHold /\ CheckInsApart /\ PidsApart /\ LastSender)'
  BY <1>1 DEF BootstrapIInv, ChecksHold, CheckInsApart, PidsApart, LastSender, HasPid, Live,
              lifeVars, Waiting
<1>5. (Unentered /\ Owned /\ Entered /\ Named)'
  BY <1>1 DEF BootstrapIInv, Unentered, Owned, Owns, Entered, HasEntry, Named, lifeVars, Waiting
<1> QED
  BY <1>3, <1>4, <1>5 DEF BootstrapIInv

(* One more request waits, of a process that is inside.                      *)
LEMMA AskStep == ASSUME BootstrapIInv, NEW q \in Procs, AskLaunchd(q) PROVE BootstrapIInv'
<1>1. /\ UNCHANGED <<lifeVars, mapVars, check_ins, replying, check_failed>>
      /\ life[q] = "inside" /\ requests' = Append(requests, q)
  BY DEF AskLaunchd
<1>2. /\ requests' \in Seq(Procs)
      /\ \A i \in 1..Len(requests') :
           requests'[i] = q \/ \E j \in 1..Len(requests) : requests'[i] = requests[j]
  <2>1. requests \in Seq(Procs)
    BY DEF BootstrapIInv, BootstrapTypeOK
  <2> QED
    BY <1>1, <2>1, Queued
<1>3. BootstrapTypeOK' /\ SendersInside'
  BY <1>1, <1>2 DEF BootstrapIInv, BootstrapTypeOK, SendersInside, lifeVars, mapVars
<1>4. (ChecksHold /\ CheckInsApart /\ PidsApart /\ LastSender)'
  BY <1>1 DEF BootstrapIInv, ChecksHold, CheckInsApart, PidsApart, LastSender, HasPid, Live,
              lifeVars, Waiting
<1>5. (Unentered /\ Owned /\ Entered /\ Named)'
  BY <1>1 DEF BootstrapIInv, Unentered, Owned, Owns, Entered, HasEntry, Named, lifeVars, mapVars,
              Waiting
<1> QED
  BY <1>3, <1>4, <1>5 DEF BootstrapIInv

-----------------------------------------------------------------------------
(* The entry goes with the process that has the identifier.                  *)
LEMMA InvalidateStep ==
  ASSUME BootstrapIInv, NEW q \in Clients, InvalidateClient(q) PROVE BootstrapIInv'
<1>0. q \in Procs /\ "invalidated" \in Lives /\ BootstrapTypeOK
  BY ClientsAreProcs DEF Lives, BootstrapIInv
<1>1. /\ UNCHANGED <<pid_of, policy_of, awaiting_processes, serverVars>>
      /\ life[q] = "dead" /\ life'[q] = "invalidated" /\ life' \in [Procs -> Lives]
      /\ \A o \in Procs : o # q => life'[o] = life[o]
      /\ DOMAIN sandboxed_processes' = DOMAIN sandboxed_processes \ {pid_of[q]}
      /\ \A pid \in DOMAIN sandboxed_processes' :
           sandboxed_processes'[pid] = sandboxed_processes[pid]
  BY <1>0, Becomes DEF InvalidateClient, Without
<1>2. \A o \in Procs : HasPid(o)' <=> HasPid(o)
  BY <1>1 DEF HasPid, Live
<1>3. /\ \A i \in Waiting : check_ins[i] \in Procs
      /\ replying # Nobody => replying \in Procs
  BY ClientsAreProcs DEF BootstrapIInv, CheckInsApart, Waiting
<1>4. BootstrapTypeOK' /\ ChecksHold'
  BY <1>1 DEF BootstrapIInv, BootstrapTypeOK, ChecksHold, serverVars
<1>5. CheckInsApart'
  <2>1. \A o \in Procs : life[o] \in Asked => life'[o] \in Asked
    BY <1>1 DEF Asked
  <2> QED
    BY <1>1, <1>3, <2>1 DEF BootstrapIInv, CheckInsApart, serverVars, Waiting
<1>6. PidsApart'
  BY <1>1, <1>2 DEF BootstrapIInv, PidsApart
<1>7. LastSender'
  BY <1>1, <1>2, <1>3 DEF BootstrapIInv, LastSender, serverVars, Waiting
<1>8. Unentered'
  BY <1>1 DEF BootstrapIInv, Unentered, serverVars, Waiting
<1>9. Owned'
  <2> SUFFICES ASSUME NEW pid \in DOMAIN sandboxed_processes'
               PROVE  \E o \in Clients : Owns(o, pid)'
    BY DEF Owned
  <2>1. PICK o \in Clients : Owns(o, pid)
    BY <1>1 DEF BootstrapIInv, Owned
  <2>2. o # q
    BY <1>1, <2>1 DEF Owns
  <2>3. Owns(o, pid)'
    BY <1>1, <2>1, <2>2, ClientsAreProcs DEF Owns, serverVars
  <2> QED
    BY <2>3
<1>10. Entered'
  <2>1. \A o \in Procs : life[o] \in {"inside", "asking"} => pid_of[o] # pid_of[q]
    <3>1. \A o \in Procs : life[o] \in {"inside", "asking"} => HasPid(o) /\ o # q
      BY <1>1 DEF HasPid, Live
    <3>2. HasPid(q)
      BY <1>1 DEF HasPid
    <3> QED
      BY <1>0, <3>1, <3>2 DEF BootstrapIInv, PidsApart
  <2>2. \A o \in Procs : life[o] \in {"inside", "asking"} /\ HasEntry(o) => HasEntry(o)'
    BY <1>1, <2>1 DEF HasEntry
  <2>3. \A o \in Procs : life'[o] \in {"inside", "asking"} => life[o] = life'[o]
    BY <1>1
  <2> QED
    BY <1>1, <1>3, <2>2, <2>3, ClientsAreProcs DEF BootstrapIInv, Entered, serverVars
<1>11. Named' /\ SendersInside'
  <2>1. \A i \in 1..Len(requests) : requests[i] \in Procs
    BY DEF BootstrapIInv, BootstrapTypeOK
  <2> QED
    BY <1>1, <2>1, ClientsAreProcs DEF BootstrapIInv, Named, SendersInside, serverVars
<1> QED
  BY <1>4, <1>5, <1>6, <1>7, <1>8, <1>9, <1>10, <1>11 DEF BootstrapIInv

(* The last message is of a process that has its identifier: whoever had it  *)
(* before has not, and no entry is left under it.                            *)
LEMMA CheckInStep ==
  ASSUME BootstrapIInv, NEW q \in Clients, ClientCheckIn(q) PROVE BootstrapIInv'
<1> DEFINE last == Len(check_ins) + 1
<1>0. q \in Procs /\ "asking" \in Lives /\ BootstrapTypeOK
  BY ClientsAreProcs DEF Lives, BootstrapIInv
<1>1. /\ UNCHANGED <<pid_of, policy_of, mapVars, replying, requests, check_failed>>
      /\ life[q] = "forked" /\ life'[q] = "asking" /\ life' \in [Procs -> Lives]
      /\ \A o \in Procs : o # q => life'[o] = life[o]
      /\ check_ins' = Append(check_ins, q)
  BY <1>0, Becomes DEF ClientCheckIn
<1>2. /\ check_ins' \in Seq(Clients) /\ check_ins' \in Seq(Procs)
      /\ last \in Nat /\ Waiting = 1..(last - 1) /\ Waiting' = 1..last
      /\ \A i \in Waiting : check_ins'[i] = check_ins[i] /\ check_ins[i] \in Clients \ {q}
      /\ check_ins'[last] = q
  <2>1. check_ins \in Seq(Clients) /\ check_ins \in Seq(Procs)
    BY DEF BootstrapIInv, CheckInsApart, BootstrapTypeOK
  <2>2. \A i \in Waiting : check_ins[i] \in Clients \ {q}
    BY <1>1, <2>1 DEF BootstrapIInv, CheckInsApart, Asked, Waiting
  <2>3. check_ins' \in Seq(Clients) /\ check_ins' \in Seq(Procs)
    BY <1>0, <1>1, <2>1, Queued
  <2> QED
    BY <1>1, <2>1, <2>2, <2>3, Queued DEF Waiting
<1>3. replying # Nobody => replying \in Clients \ {q}
  BY <1>1 DEF BootstrapIInv, CheckInsApart, Asked
<1>4. \A o \in Procs : HasPid(o)' <=> HasPid(o)
  BY <1>1 DEF HasPid, Live
<1>5. \A o \in Procs : o # q /\ HasPid(o) => pid_of[o] # pid_of[q]
  <2>1. HasPid(q)
    BY <1>1 DEF HasPid, Live
  <2> QED
    BY <1>0, <2>1 DEF BootstrapIInv, PidsApart
<1>6. BootstrapTypeOK' /\ ChecksHold'
  BY <1>1, <1>2 DEF BootstrapIInv, BootstrapTypeOK, ChecksHold, mapVars
<1>7. CheckInsApart'
  <2>1. \A o \in Procs : o = q \/ life[o] \in Asked => life'[o] \in Asked
    BY <1>1 DEF Asked
  <2>2. \A i \in Waiting' : life'[check_ins'[i]] \in Asked /\ check_ins'[i] # replying
    <3>1. ASSUME NEW i \in Waiting' PROVE i \in Waiting \/ i = last
      BY <1>2, <3>1
    <3> QED
      BY <1>0, <1>2, <1>3, <2>1, <3>1, ClientsAreProcs, Somebody DEF BootstrapIInv, CheckInsApart
  <2>3. \A i, j \in Waiting' : i # j => check_ins'[i] # check_ins'[j]
    BY <1>2 DEF BootstrapIInv, CheckInsApart
  <2>4. replying # Nobody => life'[replying] \in Asked
    BY <1>3, <2>1, ClientsAreProcs DEF BootstrapIInv, CheckInsApart
  <2> QED
    BY <1>1, <1>2, <2>2, <2>3, <2>4 DEF BootstrapIInv, CheckInsApart
<1>8. PidsApart'
  BY <1>1, <1>4 DEF BootstrapIInv, PidsApart
<1>9. LastSender'
  <2>1. ASSUME NEW i \in Waiting', NEW j \in Waiting', i < j, check_ins'[i] \in Procs,
               pid_of[check_ins'[i]] = pid_of[check_ins'[j]]
        PROVE  ~HasPid(check_ins'[i])
    <3>1. i \in Waiting /\ (j \in Waiting \/ j = last)
      BY <1>2, <2>1
    <3>2. CASE j \in Waiting
      BY <1>2, <2>1, <3>1, <3>2 DEF BootstrapIInv, LastSender
    <3>3. CASE j = last
      BY <1>2, <1>5, <2>1, <3>1, <3>3, ClientsAreProcs
    <3> QED
      BY <3>1, <3>2, <3>3
  <2>2. \A i \in Waiting' : check_ins'[i] \in Procs
    BY <1>2 DEF Waiting
  <2>3. ASSUME replying # Nobody, HasPid(replying), NEW i \in Waiting'
        PROVE  pid_of[check_ins'[i]] # pid_of[replying]
    <3>1. i \in Waiting \/ i = last
      BY <1>2
    <3> QED
      BY <1>2, <1>3, <1>5, <2>3, <3>1, ClientsAreProcs DEF BootstrapIInv, LastSender
  <2> QED
    BY <1>1, <1>3, <1>4, <2>1, <2>2, <2>3, ClientsAreProcs DEF LastSender
<1>10. Unentered'
  <2>1. ASSUME pid_of[q] \in DOMAIN sandboxed_processes
        PROVE  replying # Nobody /\ pid_of[replying] = pid_of[q]
    <3>1. PICK o \in Clients : Owns(o, pid_of[q])
      BY <2>1 DEF BootstrapIInv, Owned
    <3>2. CASE replying = o
      BY <3>1, <3>2, ClientsAreProcs, Somebody DEF Owns
    <3>3. CASE replying # o
      <4>1. HasPid(o) /\ o # q /\ pid_of[o] = pid_of[q]
        BY <1>1, <3>1, <3>3 DEF Owns, HasPid, Live
      <4> QED
        BY <1>5, <4>1, ClientsAreProcs
    <3> QED
      BY <3>2, <3>3
  <2>2. ASSUME NEW i \in Waiting' PROVE i \in Waiting \/ i = last
    BY <1>2, <2>2
  <2> QED
    BY <1>1, <1>2, <2>1, <2>2 DEF BootstrapIInv, Unentered, mapVars
<1>11. Owned'
  <2> SUFFICES ASSUME NEW pid \in DOMAIN sandboxed_processes
               PROVE  \E o \in Clients : Owns(o, pid)'
    BY <1>1 DEF Owned, mapVars
  <2>1. PICK o \in Clients : Owns(o, pid)
    BY DEF BootstrapIInv, Owned
  <2>2. Owns(o, pid)'
    BY <1>1, <2>1, ClientsAreProcs DEF Owns, mapVars
  <2> QED
    BY <2>2
<1>12. Entered'
  <2>1. \A o \in Procs : HasEntry(o)' <=> HasEntry(o)
    BY <1>1 DEF HasEntry, mapVars
  <2>2. \A o \in Procs : life'[o] = "inside" => life[o] = "inside"
    BY <1>1
  <2> QED
    BY <1>1, <1>3, <2>1, <2>2, ClientsAreProcs DEF BootstrapIInv, Entered
<1>13. Named' /\ SendersInside'
  <2>1. \A i \in 1..Len(requests) : requests[i] \in Procs
    BY DEF BootstrapIInv, BootstrapTypeOK
  <2> QED
    BY <1>1, <2>1, ClientsAreProcs DEF BootstrapIInv, Named, SendersInside
<1> QED
  BY <1>6, <1>7, <1>8, <1>9, <1>10, <1>11, <1>12, <1>13 DEF BootstrapIInv

-----------------------------------------------------------------------------
(* What refusing a process does to its life, and to those of others.         *)
LEMMA Refused ==
  ASSUME BootstrapTypeOK, NEW q \in Procs, Refuse(q), life[q] \in Asked
  PROVE  /\ life' \in [Procs -> Lives]
         /\ \A o \in Procs : o # q => life'[o] = life[o]
         /\ life[q] = "asking" => life'[q] = "refused"
         /\ life[q] # "asking" => life'[q] = life[q]
<1> "refused" \in Lives
  BY DEF Lives
<1>1. Live(q) <=> life[q] = "asking"
  BY DEF Asked, Live
<1>2. CASE Live(q)
  BY <1>1, <1>2, Becomes DEF Refuse
<1>3. CASE ~Live(q)
  BY <1>1, <1>3 DEF Refuse, BootstrapTypeOK
<1> QED
  BY <1>2, <1>3

(* The first message is taken: what is left of the queue.                    *)
LEMMA QueueStep ==
  ASSUME BootstrapIInv, check_ins # <<>>, check_ins' = Tail(check_ins)
  PROVE  /\ Head(check_ins) = check_ins[1] /\ 1 \in Waiting /\ check_ins[1] \in Clients
         /\ check_ins' \in Seq(Clients) /\ check_ins' \in Seq(Procs)
         /\ \A i \in Waiting' : /\ check_ins'[i] = check_ins[i + 1] /\ i + 1 \in Waiting
                               /\ check_ins'[i] \in Clients /\ check_ins'[i] # check_ins[1]
         /\ \A i, j \in Waiting' : i < j <=> i + 1 < j + 1
<1>1. check_ins \in Seq(Clients) /\ check_ins \in Seq(Procs)
  BY DEF BootstrapIInv, CheckInsApart, BootstrapTypeOK
<1>2. /\ Head(check_ins) = check_ins[1] /\ 1 \in Waiting /\ check_ins[1] \in Clients
      /\ check_ins' \in Seq(Clients) /\ check_ins' \in Seq(Procs)
      /\ \A i \in Waiting' : check_ins'[i] = check_ins[i + 1] /\ i + 1 \in Waiting
  BY <1>1, Tailed DEF Waiting
<1>3. \A i \in Waiting' : i \in Nat /\ i + 1 # 1
  BY <1>2 DEF Waiting
<1>4. \A i \in Waiting' : check_ins'[i] \in Clients /\ check_ins'[i] # check_ins[1]
  <2>1. \A i \in Waiting : check_ins[i] \in Clients
    BY <1>1 DEF Waiting
  <2> QED
    BY <1>2, <1>3, <2>1 DEF BootstrapIInv, CheckInsApart
<1>5. \A i, j \in Waiting' : i < j <=> i + 1 < j + 1
  BY <1>3
<1> QED
  BY <1>2, <1>4, <1>5

(* What the queue says of itself is so of the rest of it, when the sender of *)
(* the first message is refused or answered.                                 *)
LEMMA RestStep ==
  ASSUME BootstrapIInv, HandleChildCheckIn, NEW q, q = Head(check_ins),
         replying' \in {Nobody, q}, UNCHANGED pid_of, life' \in [Procs -> Lives],
         \A o \in Procs : o # q => life'[o] = life[o],
         replying' = q => life'[q] = life[q],
         HasPid(q)' => HasPid(q)
  PROVE  /\ CheckInsApart' /\ PidsApart' /\ LastSender'
         /\ \A o \in Procs : HasPid(o)' => HasPid(o)
<1>1. check_ins # <<>> /\ check_ins' = Tail(check_ins) /\ replying = Nobody
  BY DEF HandleChildCheckIn
<1>2. /\ q = check_ins[1] /\ 1 \in Waiting /\ q \in Clients /\ q \in Procs
      /\ check_ins' \in Seq(Clients)
      /\ \A i \in Waiting' : /\ check_ins'[i] = check_ins[i + 1] /\ i + 1 \in Waiting
                            /\ check_ins'[i] \in Clients /\ check_ins'[i] # q
                            /\ 1 < i + 1
      /\ \A i, j \in Waiting' : (i < j <=> i + 1 < j + 1) /\ (i # j <=> i + 1 # j + 1)
  <2>1. \A i \in Waiting' : i \in Nat /\ i > 0
    BY <1>1, QueueStep DEF Waiting
  <2>2. /\ \A i, j \in Waiting' : (i < j <=> i + 1 < j + 1) /\ (i # j <=> i + 1 # j + 1)
        /\ \A i \in Waiting' : 1 < i + 1
    BY <2>1
  <2>3. /\ q = check_ins[1] /\ 1 \in Waiting /\ q \in Clients
        /\ check_ins' \in Seq(Clients)
        /\ \A i \in Waiting' : /\ check_ins'[i] = check_ins[i + 1] /\ i + 1 \in Waiting
                              /\ check_ins'[i] \in Clients /\ check_ins'[i] # q
    BY <1>1, QueueStep
  <2> QED
    BY <2>2, <2>3, ClientsAreProcs
<1>3. \A o \in Procs : HasPid(o)' => HasPid(o)
  BY <1>2 DEF HasPid, Live
<1>4. CheckInsApart'
  <2>1. replying' \in Clients \union {Nobody}
    BY <1>2
  <2>2. replying' # Nobody => life'[replying'] \in Asked
    BY <1>2 DEF BootstrapIInv, CheckInsApart
  <2>3. \A i \in Waiting' : life'[check_ins'[i]] \in Asked /\ check_ins'[i] # replying'
    BY <1>2, ClientsAreProcs, Somebody DEF BootstrapIInv, CheckInsApart
  <2>4. \A i, j \in Waiting' : i # j => check_ins'[i] # check_ins'[j]
    BY <1>2 DEF BootstrapIInv, CheckInsApart
  <2> QED
    BY <1>2, <2>1, <2>2, <2>3, <2>4 DEF CheckInsApart
<1>5. PidsApart'
  BY <1>3 DEF BootstrapIInv, PidsApart
<1>6. LastSender'
  <2>1. ASSUME NEW i \in Waiting', NEW j \in Waiting', i < j,
               pid_of[check_ins'[i]] = pid_of[check_ins'[j]]
        PROVE  ~HasPid(check_ins'[i])
    BY <1>2, <2>1 DEF BootstrapIInv, LastSender
  <2>2. \A i \in Waiting' : check_ins'[i] \in Procs
    BY <1>2, ClientsAreProcs
  <2>3. ASSUME replying' # Nobody, HasPid(q), NEW i \in Waiting'
        PROVE  pid_of[check_ins'[i]] # pid_of[q]
    BY <1>2, <2>3 DEF BootstrapIInv, LastSender
  <2> QED
    BY <1>2, <1>3, <2>1, <2>2, <2>3 DEF LastSender
<1> QED
  BY <1>3, <1>4, <1>5, <1>6

LEMMA RefuseStep ==
  ASSUME BootstrapIInv, HandleChildCheckIn, NEW q, q = Head(check_ins), Refuse(q),
         UNCHANGED <<mapVars, replying, check_failed>>
  PROVE  BootstrapIInv'
<1>1. /\ check_ins # <<>> /\ check_ins' = Tail(check_ins) /\ replying = Nobody
      /\ UNCHANGED <<pid_of, policy_of, requests>>
  BY DEF HandleChildCheckIn
<1>2. q \in Procs /\ life[q] \in Asked /\ BootstrapTypeOK
  BY <1>1, QueueStep, ClientsAreProcs DEF BootstrapIInv, CheckInsApart
<1>3. /\ life' \in [Procs -> Lives]
      /\ \A o \in Procs : o # q => life'[o] = life[o]
      /\ life'[q] = life[q] \/ (life[q] = "asking" /\ life'[q] = "refused")
  BY <1>2, Refused
<1>4. HasPid(q)' => HasPid(q)
  BY <1>3 DEF HasPid, Live
<1>5. CheckInsApart' /\ PidsApart' /\ LastSender'
  BY <1>1, <1>2, <1>3, <1>4, RestStep, Somebody
<1>6. BootstrapTypeOK' /\ ChecksHold'
  BY <1>1, <1>3, QueueStep DEF BootstrapIInv, BootstrapTypeOK, ChecksHold, mapVars
<1>7. Unentered'
  BY <1>1, QueueStep DEF BootstrapIInv, Unentered, mapVars
<1>8. Owned'
  <2> SUFFICES ASSUME NEW pid \in DOMAIN sandboxed_processes
               PROVE  \E o \in Clients : Owns(o, pid)'
    BY DEF Owned, mapVars
  <2>1. PICK o \in Clients : Owns(o, pid)
    BY DEF BootstrapIInv, Owned
  <2>2. Owns(o, pid)'
    BY <1>1, <1>3, <2>1, ClientsAreProcs DEF Owns, mapVars
  <2> QED
    BY <2>2
<1>9. Entered'
  <2>1. \A o \in Clients : life'[o] = "inside" => life[o] = "inside"
    BY <1>3, ClientsAreProcs
  <2>2. \A o \in Clients : HasEntry(o)' <=> HasEntry(o)
    BY <1>1 DEF HasEntry, mapVars
  <2> QED
    BY <1>1, <2>1, <2>2 DEF BootstrapIInv, Entered
<1>10. Named' /\ SendersInside'
  <2>1. \A i \in 1..Len(requests) : requests[i] \in Procs
    BY DEF BootstrapIInv, BootstrapTypeOK
  <2> QED
    BY <1>1, <1>3, <2>1, ClientsAreProcs DEF BootstrapIInv, Named, SendersInside
<1> QED
  BY <1>5, <1>6, <1>7, <1>8, <1>9, <1>10 DEF BootstrapIInv

LEMMA EnterStep ==
  ASSUME BootstrapIInv, HandleChildCheckIn, NEW q, q = Head(check_ins), replying' = q,
         UNCHANGED <<life, check_failed>>, awaiting_processes' \subseteq awaiting_processes,
         pid_of[q] \notin DOMAIN sandboxed_processes,
         sandboxed_processes' = [pid \in DOMAIN sandboxed_processes \union {pid_of[q]} |->
           IF pid = pid_of[q] THEN policy_of[q] ELSE sandboxed_processes[pid]]
  PROVE  BootstrapIInv'
<1>1. /\ check_ins # <<>> /\ check_ins' = Tail(check_ins) /\ replying = Nobody
      /\ UNCHANGED <<pid_of, policy_of, requests>>
  BY DEF HandleChildCheckIn
<1>2. q \in Clients /\ q \in Procs /\ life[q] \in Asked /\ BootstrapTypeOK /\ q # Nobody
  BY <1>1, QueueStep, ClientsAreProcs, Somebody DEF BootstrapIInv, CheckInsApart
<1>3. policy_of[q] \in Policies /\ pid_of[q] \in Pids
  BY <1>2 DEF BootstrapIInv, BootstrapTypeOK, Named, Asked
<1>4. CheckInsApart' /\ PidsApart' /\ LastSender'
  <2>1. life' \in [Procs -> Lives] /\ life'[q] = life[q] /\ (HasPid(q)' <=> HasPid(q))
    BY <1>2 DEF BootstrapTypeOK, HasPid, Live
  <2> QED
    BY <1>1, <1>2, <2>1, RestStep
<1>5. BootstrapTypeOK' /\ ChecksHold'
  BY <1>1, <1>2, <1>3, QueueStep DEF BootstrapIInv, BootstrapTypeOK, ChecksHold
<1>6. Unentered'
  <2> SUFFICES ASSUME NEW i \in Waiting', pid_of[check_ins'[i]] \in DOMAIN sandboxed_processes'
               PROVE  pid_of[q] = pid_of[check_ins'[i]]
    BY <1>1, <1>2 DEF Unentered
  <2>1. check_ins'[i] = check_ins[i + 1] /\ i + 1 \in Waiting
    BY <1>1, QueueStep
  <2>2. pid_of[check_ins'[i]] \notin DOMAIN sandboxed_processes
    BY <1>1, <2>1 DEF BootstrapIInv, Unentered
  <2> QED
    BY <2>2
<1>7. Owned'
  <2> SUFFICES ASSUME NEW pid \in DOMAIN sandboxed_processes'
               PROVE  \E o \in Clients : Owns(o, pid)'
    BY DEF Owned
  <2>1. CASE pid = pid_of[q]
    <3>1. Owns(q, pid)'
      BY <1>1, <1>2, <2>1 DEF Owns
    <3> QED
      BY <1>2, <3>1
  <2>2. CASE pid # pid_of[q]
    <3>1. PICK o \in Clients : Owns(o, pid)
      BY <2>2 DEF BootstrapIInv, Owned
    <3>2. Owns(o, pid)'
      BY <1>1, <2>2, <3>1, ClientsAreProcs, Somebody DEF Owns
    <3> QED
      BY <3>2
  <2> QED
    BY <2>1, <2>2
<1>8. Entered'
  <2>1. \A o \in Clients : life[o] = "inside" => HasEntry(o) /\ pid_of[o] # pid_of[q]
    BY DEF BootstrapIInv, Entered, HasEntry
  <2>2. \A o \in Clients : HasEntry(o) /\ pid_of[o] # pid_of[q] => HasEntry(o)'
    BY <1>1 DEF HasEntry
  <2>3. HasEntry(q)'
    BY <1>1, <1>2 DEF HasEntry
  <2> QED
    BY <1>1, <1>2, <2>1, <2>2, <2>3 DEF Entered
<1>9. Named' /\ SendersInside'
  BY <1>1 DEF BootstrapIInv, Named, SendersInside
<1> QED
  BY <1>4, <1>5, <1>6, <1>7, <1>8, <1>9 DEF BootstrapIInv

(* The CHECK holds: with no check-in being answered, no message meets an     *)
(* entry.                                                                    *)
LEMMA HandleStep == BootstrapIInv /\ HandleChildCheckIn => BootstrapIInv'
<1> SUFFICES ASSUME BootstrapIInv, HandleChildCheckIn PROVE BootstrapIInv'
  OBVIOUS
<1> DEFINE q == Head(check_ins)
<1>1. pid_of[q] \notin DOMAIN sandboxed_processes
  <2>1. check_ins # <<>> /\ replying = Nobody /\ check_ins' = Tail(check_ins)
    BY DEF HandleChildCheckIn
  <2>2. q = check_ins[1] /\ 1 \in Waiting
    BY <2>1, QueueStep
  <2> QED
    BY <2>1, <2>2 DEF BootstrapIInv, Unentered
<1>2. CASE q \notin awaiting_processes
  <2>1. Refuse(q) /\ UNCHANGED <<mapVars, replying, check_failed>>
    BY <1>2 DEF HandleChildCheckIn
  <2> QED
    BY <2>1, RefuseStep
<1>3. CASE q \in awaiting_processes
  <2>1. /\ replying' = q /\ UNCHANGED <<life, check_failed>>
        /\ awaiting_processes' \subseteq awaiting_processes
        /\ sandboxed_processes' = [pid \in DOMAIN sandboxed_processes \union {pid_of[q]} |->
             IF pid = pid_of[q] THEN policy_of[q] ELSE sandboxed_processes[pid]]
    BY <1>1, <1>3 DEF HandleChildCheckIn
  <2> QED
    BY <1>1, <2>1, EnterStep
<1> QED
  BY <1>2, <1>3

-----------------------------------------------------------------------------
(* The reply arrives, or the entry goes.                                     *)
LEMMA ReplyStep == BootstrapIInv /\ SendCheckInReply => BootstrapIInv'
<1> SUFFICES ASSUME BootstrapIInv, SendCheckInReply PROVE BootstrapIInv'
  OBVIOUS
<1> DEFINE q == replying
<1>0. /\ replying' = Nobody /\ replying # Nobody
      /\ UNCHANGED <<pid_of, policy_of, awaiting_processes, check_ins, requests, check_failed>>
  BY DEF SendCheckInReply
<1>1. q \in Clients /\ q \in Procs /\ life[q] \in Asked /\ BootstrapTypeOK
  BY <1>0, ClientsAreProcs DEF BootstrapIInv, CheckInsApart
<1>2. CASE Live(q) /\ Become(q, "inside") /\ UNCHANGED sandboxed_processes
  <2>0. life[q] = "asking" /\ HasPid(q) /\ "inside" \in Lives
    BY <1>1, <1>2 DEF Asked, Live, HasPid, Lives
  <2>1. /\ life' \in [Procs -> Lives] /\ life'[q] = "inside"
        /\ \A o \in Procs : o # q => life'[o] = life[o]
    BY <1>1, <1>2, <2>0, Becomes
  <2>2. \A o \in Procs : HasPid(o)' <=> HasPid(o)
    BY <1>1, <2>0, <2>1 DEF HasPid, Live
  <2>3. \A i \in Waiting : check_ins[i] \in Clients \ {q}
    BY DEF BootstrapIInv, CheckInsApart, Waiting
  <2>4. BootstrapTypeOK' /\ ChecksHold'
    BY <1>0, <1>2, <2>1 DEF BootstrapIInv, BootstrapTypeOK, ChecksHold
  <2>5. CheckInsApart'
    BY <1>0, <2>1, <2>3, ClientsAreProcs, Somebody DEF BootstrapIInv, CheckInsApart, Waiting
  <2>6. PidsApart'
    BY <1>0, <2>2 DEF BootstrapIInv, PidsApart
  <2>7. LastSender'
    BY <1>0, <2>2, <2>3, ClientsAreProcs DEF BootstrapIInv, LastSender, Waiting
  <2>8. Unentered'
    <3>1. \A i \in Waiting : pid_of[check_ins[i]] # pid_of[q]
      BY <1>0, <2>0 DEF BootstrapIInv, LastSender
    <3> QED
      BY <1>0, <1>2, <3>1 DEF BootstrapIInv, Unentered, Waiting
  <2>9. Owned'
    <3> SUFFICES ASSUME NEW pid \in DOMAIN sandboxed_processes
                 PROVE  \E o \in Clients : Owns(o, pid)'
      BY <1>2 DEF Owned
    <3>1. PICK o \in Clients : Owns(o, pid)
      BY DEF BootstrapIInv, Owned
    <3>2. Owns(o, pid)'
      BY <1>0, <1>2, <2>0, <2>1, <3>1, ClientsAreProcs DEF Owns
    <3> QED
      BY <3>2
  <2>10. Entered'
    <3>1. \A o \in Clients : HasEntry(o)' <=> HasEntry(o)
      BY <1>0, <1>2 DEF HasEntry
    <3>2. HasEntry(q)
      BY <1>0, <2>0 DEF BootstrapIInv, Entered
    <3> QED
      BY <1>0, <2>1, <3>1, <3>2, ClientsAreProcs DEF BootstrapIInv, Entered
  <2>11. Named' /\ SendersInside'
    <3>1. \A i \in 1..Len(requests) : requests[i] \in Procs
      BY DEF BootstrapIInv, BootstrapTypeOK
    <3> QED
      BY <1>0, <2>0, <2>1, <3>1, ClientsAreProcs DEF BootstrapIInv, Named, SendersInside
  <2> QED
    BY <2>4, <2>5, <2>6, <2>7, <2>8, <2>9, <2>10, <2>11 DEF BootstrapIInv
<1>3. CASE Refuse(q) /\ sandboxed_processes' = Without(pid_of[q])
  <2>1. /\ life' \in [Procs -> Lives]
        /\ \A o \in Procs : o # q => life'[o] = life[o]
        /\ life'[q] = life[q] \/ (life[q] = "asking" /\ life'[q] = "refused")
        /\ life'[q] # "asking"
    BY <1>1, <1>3, Refused
  <2>2. \A o \in Procs : HasPid(o)' <=> HasPid(o)
    BY <1>1, <2>1 DEF HasPid, Live
  <2>3. \A i \in Waiting : check_ins[i] \in Clients \ {q}
    BY DEF BootstrapIInv, CheckInsApart, Waiting
  <2>4. /\ DOMAIN sandboxed_processes' = DOMAIN sandboxed_processes \ {pid_of[q]}
        /\ \A pid \in DOMAIN sandboxed_processes' :
             sandboxed_processes'[pid] = sandboxed_processes[pid]
    BY <1>3 DEF Without
  <2>5. BootstrapTypeOK' /\ ChecksHold'
    BY <1>0, <2>1, <2>4 DEF BootstrapIInv, BootstrapTypeOK, ChecksHold
  <2>6. CheckInsApart'
    BY <1>0, <2>1, <2>3, ClientsAreProcs, Somebody DEF BootstrapIInv, CheckInsApart, Waiting
  <2>7. PidsApart'
    BY <1>0, <2>2 DEF BootstrapIInv, PidsApart
  <2>8. LastSender'
    BY <1>0, <2>2, <2>3, ClientsAreProcs DEF BootstrapIInv, LastSender, Waiting
  <2>9. Unentered'
    BY <1>0, <2>4 DEF BootstrapIInv, Unentered, Waiting
  <2>10. Owned'
    <3> SUFFICES ASSUME NEW pid \in DOMAIN sandboxed_processes'
                 PROVE  \E o \in Clients : Owns(o, pid)'
      BY DEF Owned
    <3>1. PICK o \in Clients : Owns(o, pid)
      BY <2>4 DEF BootstrapIInv, Owned
    <3>2. o # q
      BY <2>4, <3>1 DEF Owns
    <3>3. Owns(o, pid)'
      BY <1>0, <2>1, <2>4, <3>1, <3>2, ClientsAreProcs DEF Owns
    <3> QED
      BY <3>3
  <2>11. Entered'
    <3>1. \A o \in Clients : life'[o] = "inside" => life[o] = "inside"
      BY <1>1, <2>1, ClientsAreProcs
    <3>2. \A o \in Clients : life[o] = "inside" => HasEntry(o)'
      BY <1>0, <2>4 DEF BootstrapIInv, Entered, HasEntry
    <3> QED
      BY <1>0, <3>1, <3>2 DEF Entered
  <2>12. Named' /\ SendersInside'
    <3>1. \A i \in 1..Len(requests) : requests[i] \in Procs
      BY DEF BootstrapIInv, BootstrapTypeOK
    <3> QED
      BY <1>0, <1>1, <2>1, <3>1, ClientsAreProcs DEF BootstrapIInv, Named, SendersInside
  <2> QED
    BY <2>5, <2>6, <2>7, <2>8, <2>9, <2>10, <2>11, <2>12 DEF BootstrapIInv
<1> QED
  BY <1>2, <1>3 DEF SendCheckInReply

-----------------------------------------------------------------------------
LEMMA BootstrapStep == BootstrapIInv /\ [BootstrapNext]_bootstrapVars => BootstrapIInv'
<1> SUFFICES ASSUME BootstrapIInv, [BootstrapNext]_bootstrapVars PROVE BootstrapIInv'
  OBVIOUS
<1>1. CASE UNCHANGED bootstrapVars
  <2> USE <1>1 DEF bootstrapVars, lifeVars, mapVars, serverVars, BootstrapIInv
  <2>1. (BootstrapTypeOK /\ ChecksHold)'
    BY DEF BootstrapTypeOK, ChecksHold
  <2>2. (CheckInsApart /\ PidsApart /\ LastSender)'
    BY DEF CheckInsApart, PidsApart, HasPid, Live, LastSender, Waiting
  <2>3. (Unentered /\ Owned /\ Entered)'
    BY DEF Unentered, Owned, Owns, Entered, HasEntry, Waiting
  <2>4. (Named /\ SendersInside)'
    BY DEF Named, SendersInside
  <2> QED
    BY <2>1, <2>2, <2>3, <2>4
<1>2. ASSUME NEW q \in Clients,
             \/ \E policy \in Policies : NewClient(q, policy)
             \/ \E pid \in Pids : LaunchProcess(q, pid)
             \/ LaunchFails(q) \/ RevokeToken(q) \/ InvalidateClient(q) \/ ClientCheckIn(q)
      PROVE  BootstrapIInv'
  BY <1>2, BeginStep, LifeStep, QuietStep, InvalidateStep, CheckInStep, ClientsAreProcs DEF Begins
<1>3. ASSUME NEW q \in Procs,
             \/ \E child_of \in Descendants, pid \in Pids : StartOther(q, child_of, pid)
             \/ AskLaunchd(q) \/ ProcessEnds(q) \/ ReapProcess(q)
      PROVE  BootstrapIInv'
  <2>1. ASSUME NEW child_of \in Descendants, NEW pid \in Pids, StartOther(q, child_of, pid)
        PROVE  BootstrapIInv'
    BY <2>1, BeginStep, ClientsAreProcs DEF Begins
  <2>2. CASE AskLaunchd(q)
    BY <2>2, AskStep
  <2>3. CASE ProcessEnds(q) \/ ReapProcess(q)
    <3>1. q \notin Clients => ~LaunchFails(q)
      <4>1. life[q] # "launching"
        BY <2>3 DEF ProcessEnds, ReapProcess, Live
      <4> QED
        BY <4>1 DEF LaunchFails
    <3> QED
      BY <2>3, <3>1, LifeStep
  <2> QED
    BY <1>3, <2>1, <2>2, <2>3
<1>4. CASE HandleChildCheckIn
  BY <1>4, HandleStep
<1>5. CASE SendCheckInReply
  BY <1>5, ReplyStep
<1>6. CASE DemuxMessage
  BY <1>6, QuietStep
<1> QED
  BY <1>1, <1>2, <1>3, <1>4, <1>5, <1>6 DEF BootstrapNext

LEMMA BootstrapInvariant == BootstrapSpec => []BootstrapIInv
  BY BootstrapStart, BootstrapStep, PTL DEF BootstrapSpec

(* No check-in meets the entry of another process and no entry outlives its  *)
(* own, for any processes and identifiers (bootstrap_sandbox.cc:231, 253).   *)
THEOREM TableIsRight == BootstrapSpec => []BootstrapInv
<1>1. BootstrapIInv => BootstrapInv
  <2> SUFFICES ASSUME BootstrapIInv PROVE EntriesHaveOwners
    BY DEF BootstrapIInv, BootstrapInv
  <2> SUFFICES ASSUME NEW pid \in DOMAIN sandboxed_processes
               PROVE  \E q \in Procs : /\ pid_of[q] = pid /\ policy_of[q] = sandboxed_processes[pid]
                                       /\ Live(q) \/ life[q] = "dead" \/ replying = q
    BY DEF EntriesHaveOwners
  <2>1. PICK q \in Clients : Owns(q, pid)
    BY DEF BootstrapIInv, Owned
  <2> QED
    BY <2>1, ClientsAreProcs DEF Owns, Live
<1> QED
  BY <1>1, BootstrapInvariant, PTL

(* What the server lets through to launchd, of any request, under any policy *)
(* that was registered.                                                      *)
LEMMA DemuxForwards ==
  ASSUME NEW request \in Requests, NEW policy \in Policies \union {Nobody}
  PROVE  Demux(request, policy) = "forwarded" <=> ReachesLaunchd(policy, request)
<1>1. request.kind \in {"lookUp", "swapInteger", "domainManagement", "unknown"}
  BY BootstrapAssumption
<1>2. CASE policy = Nobody
  BY <1>2 DEF Demux, ReachesLaunchd
<1>3. CASE policy # Nobody /\ request.kind = "lookUp"
  <2>1. RuleFor(request.name, policy) \in Rules
    BY <1>3, BootstrapAssumption DEF RuleFor
  <2> QED
    BY <1>3, <2>1 DEF Demux, ReachesLaunchd, HandleLookUp, Rules
<1>4. CASE policy # Nobody /\ request.kind = "swapInteger"
  BY <1>4 DEF Demux, ReachesLaunchd, HandleSwapInteger
<1>5. CASE policy # Nobody /\ request.kind \in {"domainManagement", "unknown"}
  BY <1>5 DEF Demux, ReachesLaunchd
<1> QED
  BY <1>1, <1>2, <1>3, <1>4, <1>5

(* Whatever identifiers are used again, and whatever a process asks launchd, *)
(* its own policy decides (launchd_interception_server.cc:76).               *)
THEOREM OwnPolicyAnswers == BootstrapSpec => []AnsweredByOwnPolicy
<1>1. BootstrapIInv => AnsweredByOwnPolicy
  <2> SUFFICES ASSUME BootstrapIInv, NEW i \in 1..Len(requests), NEW request \in Requests,
                      NEW q, q = requests[i], Live(q), ~Overlooked(q)
               PROVE  AnswerTo(q, request) = "forwarded" <=> ReachesLaunchd(policy_of[q], request)
    BY DEF AnsweredByOwnPolicy
  <2>1. q \in Procs /\ life[q] = "inside" /\ HasPid(q)
    BY DEF BootstrapIInv, BootstrapTypeOK, SendersInside, Live, HasPid
  <2>2. policy_of[q] \in Policies \union {Nobody}
    BY <2>1 DEF BootstrapIInv, BootstrapTypeOK
  <2>3. PolicyForProcess(pid_of[q]) = policy_of[q]
    <3>1. CASE q \in Clients
      BY <2>1, <3>1 DEF BootstrapIInv, Entered, HasEntry, PolicyForProcess
    <3>2. CASE q \in Descendants
      <4>1. policy_of[q] = Nobody
        BY <3>2 DEF BootstrapIInv, Named
      <4>2. ASSUME pid_of[q] \in DOMAIN sandboxed_processes PROVE FALSE
        <5>1. PICK o \in Clients : Owns(o, pid_of[q])
          BY <4>2 DEF BootstrapIInv, Owned
        <5>2. replying # o
          BY <4>1, <5>1, Somebody, ClientsAreProcs DEF Overlooked, Owns
        <5>3. HasPid(o) /\ pid_of[o] = pid_of[q]
          BY <5>1, <5>2 DEF Owns, HasPid, Live
        <5>4. o = q
          BY <2>1, <5>3, ClientsAreProcs DEF BootstrapIInv, PidsApart
        <5> QED
          BY <3>2, <5>4, BootstrapAssumption
      <4> QED
        BY <4>1, <4>2 DEF PolicyForProcess
    <3> QED
      BY <2>1, <3>1, <3>2 DEF Procs
  <2> QED
    BY <2>2, <2>3, DemuxForwards DEF AnswerTo
<1> QED
  BY <1>1, BootstrapInvariant, PTL

-----------------------------------------------------------------------------
(* SandboxEntry.                                                             *)
ProcSeen ==
  /\ pc \notin {"appear", "died"} => \A t \in Workers : thread[t] = "running" => t \in task
  /\ pc = "appear" => \A t \in Workers : thread[t] = "running" => t \in task \union {arg}
  /\ \A t \in task : thread[t] \notin {"new", "gone"}

SyncNeeded ==
  pc = "install" => must_sync \/ \A t \in Workers : thread[t] # "running"

ProcFdsApart ==
  /\ started \subseteq Sandboxes
  /\ proc_fds \intersect started = {}

MainStarts(sandbox) == \E level \in {"SINGLE_THREADED", "MULTI_THREADED"} : StartSandbox(sandbox, level)

-----------------------------------------------------------------------------
(* Every variable keeps its type: first where Main is, then what it changes. *)
LEMMA FirstTry == 0 \in 0..(kMaxIterations - 1)
  BY EntryAssumption

LEMMA InitType == EntryInit => EntryTypeOK
<1> SUFFICES ASSUME EntryInit PROVE EntryTypeOK
  OBVIOUS
<1>1. PcTypeOK
  BY FirstTry DEF EntryInit, PcTypeOK, Steps
<1>2. caps \in [Threads -> SUBSET Capabilities]
  BY DEF EntryInit
<1>3. DataTypeOK
  BY <1>2 DEF EntryInit, DataTypeOK, Threads
<1> QED
  BY <1>1, <1>3 DEF EntryTypeOK

LEMMA DieType == PcTypeOK /\ Die => PcTypeOK'
  BY DEF PcTypeOK, Die, Steps

LEMMA GotoType ==
  ASSUME NEW step \in Steps, NEW with \in {NoOne} \union Workers \union Sandboxes,
         step \in {"appear", "join", "joinAndWatch", "vanish"} => with \in Workers,
         step \in {"assert", "install"} => with \in Sandboxes,
         Goto(step, with)
  PROVE  PcTypeOK'
  BY FirstTry DEF PcTypeOK, Goto

LEMMA PcTypeStep == EntryTypeOK /\ [EntryNext]_entryVars => PcTypeOK'
<1> SUFFICES ASSUME EntryTypeOK, [EntryNext]_entryVars PROVE PcTypeOK'
  OBVIOUS
<1>0. PcTypeOK
  BY DEF EntryTypeOK
<1>1. CASE UNCHANGED pcVars
  BY <1>0, <1>1 DEF PcTypeOK, pcVars
<1>2. ASSUME NEW t \in Workers, StartThread(t) PROVE PcTypeOK'
  <2>1. Goto("appear", t) /\ "appear" \in Steps
    BY <1>2 DEF StartThread, Steps
  <2> QED
    BY <2>1, GotoType
<1>3. ASSUME NEW t \in Workers, NEW step \in {"join", "joinAndWatch"}, StopThread(t, step)
      PROVE PcTypeOK'
  <2>1. Goto(step, t) /\ step \in Steps
    BY <1>3 DEF StopThread, Steps
  <2> QED
    BY <2>1, GotoType
<1>4. CASE Goto("idle", NoOne)
  <2>1. "idle" \in Steps
    BY DEF Steps
  <2> QED
    BY <1>4, <2>1, GotoType
<1>5. CASE Join
  <2>1. Goto("idle", NoOne) \/ (Goto("vanish", arg) /\ arg \in Workers /\ "vanish" \in Steps)
    BY <1>0, <1>5 DEF Join, PcTypeOK, Steps
  <2> QED
    BY <1>4, <2>1, GotoType
<1>6. CASE RunWhileTrue
  <2>1. CASE Die
    BY <1>0, <2>1, DieType
  <2>2. CASE tries + 1 # kMaxIterations /\ tries' = tries + 1 /\ UNCHANGED <<pc, arg>>
    <3>1. tries' \in 0..(kMaxIterations - 1)
      BY <1>0, <2>2, EntryAssumption DEF PcTypeOK
    <3> QED
      BY <1>0, <2>2, <3>1 DEF PcTypeOK
  <2> QED
    BY <1>6, <2>1, <2>2 DEF RunWhileTrue
<1>7. CASE AssertSingleThreaded
  <2>1. Goto("install", arg) /\ arg \in Sandboxes /\ "install" \in Steps
    BY <1>0, <1>7 DEF AssertSingleThreaded, PcTypeOK, Steps
  <2> QED
    BY <2>1, GotoType
<1>8. CASE DropFileSystemAccess
  <2>1. Die \/ (Goto("chrooted", NoOne) /\ "chrooted" \in Steps)
    BY <1>8 DEF DropFileSystemAccess, Steps
  <2> QED
    BY <1>0, <2>1, DieType, GotoType
<1>9. ASSUME NEW sandbox \in Sandboxes, MainStarts(sandbox) PROVE PcTypeOK'
  <2>1. \/ Die
        \/ Goto("assert", sandbox) /\ "assert" \in Steps
        \/ Goto("install", sandbox) /\ "install" \in Steps
    BY <1>9 DEF MainStarts, StartSandbox, Steps
  <2> QED
    BY <1>0, <2>1, DieType, GotoType
<1>10. CASE WatchEnds \/ HasOpenDirectory \/ InstallFilter
  BY <1>0, <1>4, <1>10, DieType DEF WatchEnds, HasOpenDirectory, InstallFilter
<1>11. ASSUME NEW cs \in SUBSET Capabilities, SetCapabilities(cs) PROVE PcTypeOK'
  BY <1>0, <1>1, <1>11, DieType DEF SetCapabilities
<1>12. CASE \/ DropAllCapabilitiesOnCurrentThread \/ MoveToNewUserNS \/ OpenDirectory
            \/ CloseDirectory \/ OpenProc
  BY <1>0, <1>1, <1>12, DieType
     DEF DropAllCapabilitiesOnCurrentThread, MoveToNewUserNS, OpenDirectory, CloseDirectory, OpenProc
<1>13. ASSUME NEW t \in Workers, WorkerLeaves(t) \/ TaskAppears(t) \/ TaskVanishes(t)
       PROVE PcTypeOK'
  BY <1>1, <1>13 DEF WorkerLeaves, TaskAppears, TaskVanishes, pcVars
<1>14. ASSUME NEW sandbox \in Sandboxes, SetProcFd(sandbox) PROVE PcTypeOK'
  BY <1>1, <1>14 DEF SetProcFd, pcVars
<1>15. CASE UNCHANGED entryVars
  BY <1>1, <1>15 DEF entryVars
<1> QED
  BY <1>2, <1>3, <1>5, <1>6, <1>7, <1>8, <1>9, <1>10, <1>11, <1>12, <1>13, <1>14, <1>15
     DEF EntryNext, MainStep, MainStarts

LEMMA DataTypeStep == EntryTypeOK /\ [EntryNext]_entryVars => DataTypeOK'
<1> SUFFICES ASSUME EntryTypeOK, [EntryNext]_entryVars PROVE DataTypeOK'
  OBVIOUS
<1>0. DataTypeOK /\ PcTypeOK
  BY DEF EntryTypeOK
<1> USE <1>0 DEF DataTypeOK, Threads
<1>1. ASSUME NEW t \in Workers, StartThread(t) PROVE DataTypeOK'
  BY <1>1 DEF StartThread
<1>2. ASSUME NEW t \in Workers, WorkerLeaves(t) PROVE DataTypeOK'
  BY <1>2 DEF WorkerLeaves
<1>3. ASSUME NEW t \in Workers, TaskAppears(t) \/ TaskVanishes(t) PROVE DataTypeOK'
  BY <1>3 DEF TaskAppears, TaskVanishes, credentialVars, sandboxVars
<1>4. CASE UNCHANGED <<threadVars, credentialVars, sandboxVars>>
  BY <1>4 DEF threadVars, credentialVars, sandboxVars
<1>5. ASSUME NEW t \in Workers, NEW step \in {"join", "joinAndWatch"}, StopThread(t, step)
      PROVE DataTypeOK'
  BY <1>4, <1>5 DEF StopThread
<1>6. CASE Join \/ WatchEnds
  BY <1>6 DEF Join, WatchEnds, credentialVars, sandboxVars
<1>7. CASE RunWhileTrue \/ AssertSingleThreaded \/ HasOpenDirectory
  BY <1>4, <1>7 DEF RunWhileTrue, AssertSingleThreaded, HasOpenDirectory
<1>8. CASE InstallFilter
  <2>1. pc = "install" => arg \in Sandboxes
    BY DEF PcTypeOK
  <2>2. started' \subseteq Sandboxes /\ proc_fds' \subseteq {Main} \union Sandboxes
    BY <1>8, <2>1 DEF InstallFilter
  <2>3. filters' \in [Threads -> SUBSET Sandboxes]
    BY <1>8, <2>1 DEF InstallFilter
  <2> QED
    BY <1>8, <2>2, <2>3 DEF InstallFilter, threadVars, credentialVars
<1>9. ASSUME NEW cs \in SUBSET Capabilities, SetCapabilities(cs) PROVE DataTypeOK'
  BY <1>9 DEF SetCapabilities, SetOwn, threadVars, sandboxVars
<1>10. CASE DropAllCapabilitiesOnCurrentThread \/ MoveToNewUserNS
  BY <1>10 DEF DropAllCapabilitiesOnCurrentThread, MoveToNewUserNS, SetOwn, threadVars, sandboxVars
<1>11. CASE DropFileSystemAccess \/ OpenDirectory \/ CloseDirectory
  BY <1>11 DEF DropFileSystemAccess, OpenDirectory, CloseDirectory, threadVars, sandboxVars
<1>12. CASE OpenProc
  BY <1>12 DEF OpenProc, threadVars, credentialVars
<1>13. ASSUME NEW sandbox \in Sandboxes, SetProcFd(sandbox) PROVE DataTypeOK'
  BY <1>13 DEF SetProcFd, threadVars, credentialVars
<1>14. ASSUME NEW sandbox \in Sandboxes, NEW level, StartSandbox(sandbox, level)
       PROVE DataTypeOK'
  <2>1. Probed \subseteq BOOLEAN
    BY DEF Probed
  <2>2. must_sync' \in BOOLEAN /\ proc_fds' \subseteq {Main} \union Sandboxes
    BY <1>14, <2>1 DEF StartSandbox
  <2> QED
    BY <1>14, <2>2 DEF StartSandbox, threadVars, credentialVars
<1>15. CASE UNCHANGED entryVars
  BY <1>4, <1>15 DEF entryVars
<1> QED
  BY <1>1, <1>2, <1>3, <1>5, <1>6, <1>7, <1>8, <1>9, <1>10, <1>11, <1>12, <1>13, <1>14, <1>15
     DEF EntryNext, MainStep

LEMMA TypeStep == EntryTypeOK /\ [EntryNext]_entryVars => EntryTypeOK'
  BY PcTypeStep, DataTypeStep DEF EntryTypeOK

(* Type correctness of the specification.                                    *)
THEOREM EntryTypeCorrect == EntrySpec => []EntryTypeOK
  BY InitType, TypeStep, PTL DEF EntrySpec, EntrySafety

-----------------------------------------------------------------------------
(* What /proc shows: but for the worker that is being started every worker   *)
(* that runs is listed.                                                      *)
LEMMA InitSeen == EntryInit => ProcSeen
  BY DEF EntryInit, ProcSeen

LEMMA SeenStep == EntryTypeOK /\ ProcSeen /\ [EntryNext]_entryVars => ProcSeen'
<1> SUFFICES ASSUME EntryTypeOK, ProcSeen, [EntryNext]_entryVars PROVE ProcSeen'
  OBVIOUS
<1> USE EntryAssumption DEF EntryTypeOK, DataTypeOK, PcTypeOK, ProcSeen
<1>1. ASSUME NEW t \in Workers, StartThread(t) PROVE ProcSeen'
  BY <1>1 DEF StartThread, Goto
<1>2. ASSUME NEW t \in Workers, WorkerLeaves(t) PROVE ProcSeen'
  BY <1>2 DEF WorkerLeaves, pcVars
<1>3. ASSUME NEW t \in Workers, TaskAppears(t) PROVE ProcSeen'
  BY <1>3 DEF TaskAppears, pcVars
<1>4. ASSUME NEW t \in Workers, TaskVanishes(t) PROVE ProcSeen'
  BY <1>4 DEF TaskVanishes, pcVars
<1>5. ASSUME NEW t \in Workers, NEW step \in {"join", "joinAndWatch"}, StopThread(t, step)
      PROVE ProcSeen'
  BY <1>5 DEF StopThread, Goto, threadVars
<1>6. CASE Join
  BY <1>6 DEF Join, Goto
<1>7. CASE RunWhileTrue
  BY <1>7 DEF RunWhileTrue, Die, threadVars
<1>8. CASE WatchEnds
  BY <1>8 DEF WatchEnds, Waits, Goto
<1>9. CASE UNCHANGED threadVars /\ (UNCHANGED pcVars \/ pc' = "died")
  BY <1>9 DEF threadVars, pcVars
<1>10. CASE UNCHANGED threadVars /\ pc # "appear" /\ pc # "died" /\ pc' # "appear"
  BY <1>10 DEF threadVars
<1>11. ASSUME AssertSingleThreaded \/ HasOpenDirectory \/ InstallFilter \/ DropFileSystemAccess
       PROVE ProcSeen'
  BY <1>11, <1>9, <1>10
     DEF AssertSingleThreaded, HasOpenDirectory, InstallFilter, DropFileSystemAccess, Goto, Die
<1>12. ASSUME NEW cs \in SUBSET Capabilities, SetCapabilities(cs) PROVE ProcSeen'
  BY <1>12, <1>9 DEF SetCapabilities, Die
<1>13. ASSUME DropAllCapabilitiesOnCurrentThread \/ MoveToNewUserNS \/ OpenDirectory
                \/ CloseDirectory \/ OpenProc
       PROVE ProcSeen'
  BY <1>13, <1>9
     DEF DropAllCapabilitiesOnCurrentThread, MoveToNewUserNS, OpenDirectory, CloseDirectory,
         OpenProc, Die
<1>14. ASSUME NEW sandbox \in Sandboxes, SetProcFd(sandbox) PROVE ProcSeen'
  BY <1>14, <1>9 DEF SetProcFd
<1>15. ASSUME NEW sandbox \in Sandboxes, NEW level \in {"SINGLE_THREADED", "MULTI_THREADED"},
              StartSandbox(sandbox, level)
       PROVE ProcSeen'
  BY <1>15, <1>9, <1>10 DEF StartSandbox, Goto, Die
<1>16. CASE UNCHANGED entryVars
  BY <1>16, <1>9 DEF entryVars
<1> QED
  BY <1>1, <1>2, <1>3, <1>4, <1>5, <1>6, <1>7, <1>8, <1>11, <1>12, <1>13, <1>14, <1>15, <1>16
     DEF EntryNext, MainStep

(* StopThreadAndWatchProcFS and StartThreadAndWatchProcFS keep what          *)
(* IsSingleThreaded looks at in step with the threads.                       *)
THEOREM ProcAgreesAlways == EntrySpec => []ProcAgrees
<1>1. EntryTypeOK /\ ProcSeen => ProcAgrees
  BY DEF EntryTypeOK, DataTypeOK, ProcSeen, ProcAgrees, Running
<1> QED
  BY <1>1, InitType, TypeStep, InitSeen, SeenStep, PTL DEF EntrySpec, EntrySafety

-----------------------------------------------------------------------------
(* Capabilities.                                                             *)
LEMMA InitCaps == EntryInit => CapsWithinLimit
  BY EntryAssumption DEF EntryInit, CapsWithinLimit, Threads, Running

(* Main alone: a call made when /proc lists no worker.                       *)
LEMMA Alone ==
  ASSUME EntryTypeOK, ProcSeen, task = {}, pc \notin {"appear", "died"}
  PROVE  \A t \in Workers : thread[t] # "running"
  BY DEF EntryTypeOK, DataTypeOK, ProcSeen

LEMMA CapsStep ==
  EntryTypeOK /\ ProcSeen /\ CapsWithinLimit /\ [EntryNext]_entryVars => CapsWithinLimit'
<1> SUFFICES ASSUME EntryTypeOK, ProcSeen, CapsWithinLimit, [EntryNext]_entryVars
             PROVE CapsWithinLimit'
  OBVIOUS
<1> USE EntryAssumption DEF CapsWithinLimit, Running, Threads
<1>0. /\ thread \in [Workers -> {"new", "running", "left", "joined", "gone"}]
      /\ caps \in [Threads -> SUBSET Capabilities] /\ limit \subseteq Capabilities
  BY DEF EntryTypeOK, DataTypeOK
<1>1. ASSUME NEW t \in Workers, StartThread(t) PROVE CapsWithinLimit'
  BY <1>0, <1>1 DEF StartThread
<1>2. ASSUME NEW t \in Workers, WorkerLeaves(t) PROVE CapsWithinLimit'
  BY <1>0, <1>2 DEF WorkerLeaves
<1>3. CASE UNCHANGED <<caps, limit>> /\ \A t \in Workers : thread'[t] = "running" => thread[t] = "running"
  BY <1>3
<1>4. ASSUME NEW t \in Workers, TaskAppears(t) \/ TaskVanishes(t) PROVE CapsWithinLimit'
  BY <1>3, <1>4 DEF TaskAppears, TaskVanishes, credentialVars
<1>5. ASSUME NEW t \in Workers, NEW step \in {"join", "joinAndWatch"}, StopThread(t, step)
      PROVE CapsWithinLimit'
  BY <1>3, <1>5 DEF StopThread, threadVars, credentialVars
<1>6. CASE Join \/ WatchEnds
  BY <1>0, <1>3, <1>6 DEF Join, WatchEnds, credentialVars
<1>7. CASE RunWhileTrue \/ AssertSingleThreaded \/ HasOpenDirectory \/ InstallFilter
  BY <1>3, <1>7
     DEF RunWhileTrue, AssertSingleThreaded, HasOpenDirectory, InstallFilter, threadVars, credentialVars
<1>8. ASSUME NEW cs \in SUBSET Capabilities, SetCapabilities(cs) PROVE CapsWithinLimit'
  <2>1. CASE ~IsSingleThreaded /\ UNCHANGED <<caps, limit>>
    BY <1>3, <1>8, <2>1 DEF SetCapabilities, threadVars
  <2>2. CASE IsSingleThreaded /\ SetOwn(cs) /\ limit' = cs
    <3>1. \A t \in Workers : thread'[t] # "running"
      BY <1>8, <2>2, Alone DEF SetCapabilities, IsSingleThreaded, threadVars
    <3> QED
      BY <1>0, <2>2, <3>1 DEF SetOwn
  <2> QED
    BY <1>8, <2>1, <2>2 DEF SetCapabilities
<1>9. CASE DropAllCapabilitiesOnCurrentThread
  BY <1>0, <1>9 DEF DropAllCapabilitiesOnCurrentThread, SetOwn, threadVars
<1>10. CASE MoveToNewUserNS
  BY <1>0, <1>10 DEF MoveToNewUserNS, SetOwn, threadVars
<1>11. CASE DropFileSystemAccess \/ OpenDirectory \/ CloseDirectory \/ OpenProc
  BY <1>3, <1>11 DEF DropFileSystemAccess, OpenDirectory, CloseDirectory, OpenProc, threadVars, credentialVars
<1>12. ASSUME NEW sandbox \in Sandboxes, SetProcFd(sandbox) \/ MainStarts(sandbox)
       PROVE CapsWithinLimit'
  BY <1>3, <1>12 DEF SetProcFd, MainStarts, StartSandbox, threadVars, credentialVars
<1>13. CASE UNCHANGED entryVars
  BY <1>3, <1>13 DEF entryVars, threadVars, credentialVars
<1> QED
  BY <1>1, <1>2, <1>4, <1>5, <1>6, <1>7, <1>8, <1>9, <1>10, <1>11, <1>12, <1>13
     DEF EntryNext, MainStep, MainStarts

(* After SetCapabilities has returned true no thread has more, though capset *)
(* changes one thread and /proc lags behind.                                 *)
THEOREM CapabilitiesDropped == EntrySpec => []CapsWithinLimit
  BY InitType, TypeStep, InitSeen, SeenStep, InitCaps, CapsStep, PTL DEF EntrySpec, EntrySafety

-----------------------------------------------------------------------------
(* Filters.  A filter for Main only is installed with nobody else running.   *)
LEMMA InitSync == EntryInit => SyncNeeded
  BY DEF EntryInit, SyncNeeded

LEMMA SyncStep == EntryTypeOK /\ ProcSeen /\ SyncNeeded /\ [EntryNext]_entryVars => SyncNeeded'
<1> SUFFICES ASSUME EntryTypeOK, ProcSeen, SyncNeeded, [EntryNext]_entryVars, pc' = "install"
             PROVE must_sync' \/ \A t \in Workers : thread'[t] # "running"
  BY DEF SyncNeeded
<1> USE DEF SyncNeeded
<1>1. CASE pc = "install" /\ must_sync' = must_sync
           /\ \A t \in Workers : thread'[t] = "running" => thread[t] = "running"
  BY <1>1
<1>2. ASSUME NEW t \in Workers,
             \/ StartThread(t) \/ WorkerLeaves(t)
             \/ \E step \in {"join", "joinAndWatch"} : StopThread(t, step)
      PROVE FALSE
  BY <1>2 DEF StartThread, WorkerLeaves, StopThread, Goto, pcVars
<1>3. ASSUME NEW t \in Workers, TaskAppears(t) \/ TaskVanishes(t)
      PROVE pc = "install" /\ UNCHANGED <<must_sync, thread>>
  BY <1>3 DEF TaskAppears, TaskVanishes, sandboxVars, pcVars
<1>4. ASSUME Join \/ RunWhileTrue \/ WatchEnds \/ HasOpenDirectory \/ InstallFilter PROVE FALSE
  BY <1>4 DEF Join, RunWhileTrue, WatchEnds, HasOpenDirectory, InstallFilter, Goto, Die
<1>5. CASE AssertSingleThreaded
  BY <1>5, Alone DEF AssertSingleThreaded, Waits, IsSingleThreaded, threadVars
<1>6. ASSUME \/ \E cs \in SUBSET Capabilities : SetCapabilities(cs)
             \/ DropAllCapabilitiesOnCurrentThread \/ MoveToNewUserNS \/ DropFileSystemAccess \/ OpenProc
             \/ \E sandbox \in Sandboxes : SetProcFd(sandbox)
      PROVE FALSE
  BY <1>6 DEF SetCapabilities, DropAllCapabilitiesOnCurrentThread, MoveToNewUserNS,
              DropFileSystemAccess, OpenProc, SetProcFd, Goto, Die, pcVars
<1>7. CASE OpenDirectory \/ CloseDirectory
  BY <1>1, <1>7 DEF OpenDirectory, CloseDirectory, threadVars, sandboxVars, pcVars
<1>8. ASSUME NEW sandbox \in Sandboxes, MainStarts(sandbox) PROVE must_sync'
  <2>1. PICK level \in {"SINGLE_THREADED", "MULTI_THREADED"} : StartSandbox(sandbox, level)
    BY <1>8 DEF MainStarts
  <2>2. level # "SINGLE_THREADED" /\ pc' # "died"
    BY <2>1 DEF StartSandbox, Goto, Die
  <2> QED
    BY <2>1, <2>2 DEF StartSandbox, Die
<1>9. CASE UNCHANGED entryVars
  BY <1>1, <1>9 DEF entryVars, threadVars, sandboxVars, pcVars
<1> QED
  BY <1>1, <1>2, <1>3, <1>4, <1>5, <1>6, <1>7, <1>8, <1>9 DEF EntryNext, MainStep, MainStarts

LEMMA InitFilters == EntryInit => FilterOnAllThreads
  BY DEF EntryInit, FilterOnAllThreads

LEMMA FilterStep ==
  EntryTypeOK /\ SyncNeeded /\ FilterOnAllThreads /\ [EntryNext]_entryVars => FilterOnAllThreads'
<1> SUFFICES ASSUME EntryTypeOK, SyncNeeded, FilterOnAllThreads, [EntryNext]_entryVars
             PROVE FilterOnAllThreads'
  OBVIOUS
<1> USE EntryAssumption DEF FilterOnAllThreads, Running, Threads
<1>0. /\ thread \in [Workers -> {"new", "running", "left", "joined", "gone"}]
      /\ filters \in [Threads -> SUBSET Sandboxes]
  BY DEF EntryTypeOK, DataTypeOK
<1>1. ASSUME NEW t \in Workers, StartThread(t) PROVE FilterOnAllThreads'
  BY <1>0, <1>1 DEF StartThread
<1>2. ASSUME NEW t \in Workers, WorkerLeaves(t) PROVE FilterOnAllThreads'
  BY <1>0, <1>2 DEF WorkerLeaves
<1>3. CASE UNCHANGED <<filters, started>> /\ \A t \in Workers : thread'[t] = "running" => thread[t] = "running"
  BY <1>3
<1>4. ASSUME NEW t \in Workers, TaskAppears(t) \/ TaskVanishes(t) PROVE FilterOnAllThreads'
  BY <1>3, <1>4 DEF TaskAppears, TaskVanishes, sandboxVars
<1>5. ASSUME NEW t \in Workers, NEW step \in {"join", "joinAndWatch"}, StopThread(t, step)
      PROVE FilterOnAllThreads'
  BY <1>3, <1>5 DEF StopThread, threadVars, sandboxVars
<1>6. CASE Join \/ WatchEnds
  BY <1>0, <1>3, <1>6 DEF Join, WatchEnds, sandboxVars
<1>7. CASE RunWhileTrue \/ AssertSingleThreaded \/ HasOpenDirectory
  BY <1>3, <1>7 DEF RunWhileTrue, AssertSingleThreaded, HasOpenDirectory, threadVars, sandboxVars
<1>8. CASE InstallFilter
  <2>1. CASE UNCHANGED <<filters, started>>
    BY <1>3, <1>8, <2>1 DEF InstallFilter, threadVars
  <2>2. CASE /\ filters' = [t \in Threads |->
                             IF t = Main \/ (must_sync /\ t \in Running)
                             THEN filters[Main] \union {arg} ELSE filters[t]]
             /\ started' = started \union {arg}
    <3>1. started \subseteq filters[Main] /\ thread' = thread
      BY <1>8 DEF InstallFilter, threadVars
    <3>2. must_sync \/ \A t \in Workers : thread[t] # "running"
      BY <1>8 DEF InstallFilter, SyncNeeded
    <3> QED
      BY <1>0, <2>2, <3>1, <3>2
  <2> QED
    BY <1>8, <2>1, <2>2 DEF InstallFilter
<1>9. ASSUME \/ \E cs \in SUBSET Capabilities : SetCapabilities(cs)
             \/ DropAllCapabilitiesOnCurrentThread \/ MoveToNewUserNS \/ DropFileSystemAccess
             \/ OpenDirectory \/ CloseDirectory \/ OpenProc
      PROVE FilterOnAllThreads'
  BY <1>3, <1>9 DEF SetCapabilities, DropAllCapabilitiesOnCurrentThread, MoveToNewUserNS,
       DropFileSystemAccess, OpenDirectory, CloseDirectory, OpenProc, threadVars, sandboxVars
<1>10. ASSUME NEW sandbox \in Sandboxes, SetProcFd(sandbox) \/ MainStarts(sandbox)
       PROVE FilterOnAllThreads'
  BY <1>3, <1>10 DEF SetProcFd, MainStarts, StartSandbox, threadVars
<1>11. CASE UNCHANGED entryVars
  BY <1>3, <1>11 DEF entryVars, threadVars, sandboxVars
<1> QED
  BY <1>1, <1>2, <1>4, <1>5, <1>6, <1>7, <1>8, <1>9, <1>10, <1>11 DEF EntryNext, MainStep, MainStarts

(* The filter of a sandbox that has started is on every thread that runs,    *)
(* whichever level was asked for.                                            *)
THEOREM FiltersEverywhere == EntrySpec => []FilterOnAllThreads
  BY InitType, TypeStep, InitSeen, SeenStep, InitSync, SyncStep, InitFilters, FilterStep, PTL
     DEF EntrySpec, EntrySafety

-----------------------------------------------------------------------------
(* The way out.  A sandbox that has started keeps no descriptor of /proc,    *)
(* since its descriptor is closed before its filter is installed.            *)
LEMMA InitApart == EntryInit => ProcFdsApart
  BY DEF EntryInit, ProcFdsApart

LEMMA ApartStep == EntryTypeOK /\ ProcFdsApart /\ [EntryNext]_entryVars => ProcFdsApart'
<1> SUFFICES ASSUME EntryTypeOK, ProcFdsApart, [EntryNext]_entryVars PROVE ProcFdsApart'
  OBVIOUS
<1> USE EntryAssumption DEF ProcFdsApart
<1>1. CASE UNCHANGED <<proc_fds, started>>
  BY <1>1
<1>2. ASSUME NEW t \in Workers,
             \/ StartThread(t) \/ WorkerLeaves(t) \/ TaskAppears(t) \/ TaskVanishes(t)
             \/ \E step \in {"join", "joinAndWatch"} : StopThread(t, step)
      PROVE ProcFdsApart'
  BY <1>1, <1>2 DEF StartThread, WorkerLeaves, TaskAppears, TaskVanishes, StopThread, sandboxVars
<1>3. CASE Join \/ RunWhileTrue \/ WatchEnds \/ AssertSingleThreaded \/ HasOpenDirectory
  BY <1>1, <1>3 DEF Join, RunWhileTrue, WatchEnds, AssertSingleThreaded, HasOpenDirectory, sandboxVars
<1>4. CASE InstallFilter
  <2>1. pc = "install" /\ arg \in Sandboxes
    BY <1>4 DEF InstallFilter, EntryTypeOK, PcTypeOK
  <2> QED
    BY <1>4, <2>1 DEF InstallFilter
<1>5. ASSUME \/ \E cs \in SUBSET Capabilities : SetCapabilities(cs)
             \/ DropAllCapabilitiesOnCurrentThread \/ MoveToNewUserNS \/ DropFileSystemAccess
             \/ OpenDirectory \/ CloseDirectory
      PROVE ProcFdsApart'
  BY <1>1, <1>5 DEF SetCapabilities, DropAllCapabilitiesOnCurrentThread, MoveToNewUserNS,
       DropFileSystemAccess, OpenDirectory, CloseDirectory, sandboxVars
<1>6. CASE OpenProc
  BY <1>6 DEF OpenProc
<1>7. ASSUME NEW sandbox \in Sandboxes, SetProcFd(sandbox) \/ MainStarts(sandbox)
      PROVE ProcFdsApart'
  BY <1>7 DEF SetProcFd, MainStarts, StartSandbox
<1>8. CASE UNCHANGED entryVars
  BY <1>1, <1>8 DEF entryVars, sandboxVars
<1> QED
  BY <1>2, <1>3, <1>4, <1>5, <1>6, <1>7, <1>8 DEF EntryNext, MainStep, MainStarts

LEMMA InitWayOut == EntryInit => NoWayOut
  BY DEF EntryInit, NoWayOut

LEMMA WayOutStep ==
  ProcFdsApart /\ ProcFdsApart' /\ NoWayOut /\ [EntryNext]_entryVars => NoWayOut'
<1> SUFFICES ASSUME ProcFdsApart, ProcFdsApart', NoWayOut, [EntryNext]_entryVars,
                    chrooted', pc' \notin {"chrooted", "died"}
             PROVE ~dir_open' /\ \A one, two \in proc_fds' : one = two
  BY DEF NoWayOut, ProcFdsApart
<1> USE DEF NoWayOut
<1>1. CASE UNCHANGED <<chrooted, dir_open>> /\ proc_fds' \subseteq proc_fds
           /\ pc \notin {"chrooted", "died"}
  BY <1>1
<1>2. ASSUME NEW t \in Workers,
             \/ StartThread(t) \/ WorkerLeaves(t) \/ TaskAppears(t) \/ TaskVanishes(t)
             \/ \E step \in {"join", "joinAndWatch"} : StopThread(t, step)
      PROVE UNCHANGED <<chrooted, dir_open, proc_fds>> /\ pc \notin {"chrooted", "died"}
  BY <1>2 DEF StartThread, WorkerLeaves, TaskAppears, TaskVanishes, StopThread,
              credentialVars, sandboxVars, pcVars
<1>3. CASE Join \/ RunWhileTrue \/ WatchEnds \/ AssertSingleThreaded
  BY <1>1, <1>3 DEF Join, RunWhileTrue, WatchEnds, AssertSingleThreaded, credentialVars, sandboxVars
<1>4. CASE HasOpenDirectory
  BY <1>4 DEF HasOpenDirectory, Die, credentialVars, sandboxVars
<1>5. CASE InstallFilter
  BY <1>1, <1>5 DEF InstallFilter, credentialVars
<1>6. ASSUME \/ \E cs \in SUBSET Capabilities : SetCapabilities(cs)
             \/ DropAllCapabilitiesOnCurrentThread \/ MoveToNewUserNS
      PROVE UNCHANGED <<chrooted, dir_open, proc_fds>> /\ pc \notin {"chrooted", "died"}
  BY <1>6 DEF SetCapabilities, DropAllCapabilitiesOnCurrentThread, MoveToNewUserNS, sandboxVars
<1>7. CASE DropFileSystemAccess
  BY <1>7 DEF DropFileSystemAccess, Goto, Die
<1>8. CASE OpenDirectory
  BY <1>8 DEF OpenDirectory
<1>9. CASE CloseDirectory
  BY <1>9 DEF CloseDirectory, sandboxVars, pcVars
<1>10. CASE OpenProc
  BY <1>10 DEF OpenProc, credentialVars, Die
<1>11. ASSUME NEW sandbox \in Sandboxes, SetProcFd(sandbox) PROVE ~dir_open' /\ \A one, two \in proc_fds' : one = two
  <2>1. Main \in proc_fds /\ chrooted /\ ~dir_open /\ dir_open' = dir_open
        /\ proc_fds' = (proc_fds \ {Main}) \union {sandbox}
    BY <1>11 DEF SetProcFd, credentialVars, pcVars
  <2>2. proc_fds = {Main}
    BY <1>11, <2>1 DEF SetProcFd
  <2> QED
    BY <2>1, <2>2
<1>12. ASSUME NEW sandbox \in Sandboxes, MainStarts(sandbox) PROVE ~dir_open' /\ \A one, two \in proc_fds' : one = two
  <2>1. /\ sandbox \in proc_fds \/ ~chrooted
        /\ proc_fds' = proc_fds \union {sandbox}
        /\ UNCHANGED <<chrooted, dir_open>> /\ pc = "idle"
    BY <1>12 DEF MainStarts, StartSandbox, Die, credentialVars
  <2> QED
    BY <1>1, <2>1
<1>13. CASE UNCHANGED entryVars
  BY <1>1, <1>13 DEF entryVars, credentialVars, sandboxVars, pcVars
<1> QED
  BY <1>1, <1>2, <1>3, <1>4, <1>5, <1>6, <1>7, <1>8, <1>9, <1>10, <1>11, <1>12, <1>13
     DEF EntryNext, MainStep, MainStarts

(* After DropFileSystemAccess no directory is open but the one descriptor of *)
(* /proc, and no sandbox that has started keeps that.                        *)
THEOREM FileSystemDropped == EntrySpec => []NoWayOut
<1>1. EntrySafety => [](EntryTypeOK /\ ProcFdsApart)
  BY InitType, TypeStep, InitApart, ApartStep, PTL DEF EntrySafety
<1>2. EntryInit => NoWayOut
  BY InitWayOut
<1> QED
  BY <1>1, <1>2, WayOutStep, PTL DEF EntrySpec, EntrySafety

-----------------------------------------------------------------------------
(* Nothing comes back.  In a chroot unshare is refused, and capset adds none *)
(* to a limit of none.                                                       *)
LEMMA LimitStaysEmpty ==
  ASSUME CapsWithinLimit, [EntryNext]_entryVars, chrooted, limit = {}
  PROVE  limit' = {}
<1>1. caps[Main] = {}
  BY DEF CapsWithinLimit, Threads
<1>2. ASSUME NEW cs \in SUBSET Capabilities, SetCapabilities(cs) PROVE limit' = {}
  BY <1>1, <1>2 DEF SetCapabilities
<1>3. ~MoveToNewUserNS
  BY DEF MoveToNewUserNS
<1>4. ASSUME NEW t \in Workers,
             \/ StartThread(t) \/ WorkerLeaves(t) \/ TaskAppears(t) \/ TaskVanishes(t)
             \/ \E step \in {"join", "joinAndWatch"} : StopThread(t, step)
      PROVE limit' = {}
  BY <1>4 DEF StartThread, WorkerLeaves, TaskAppears, TaskVanishes, StopThread, credentialVars
<1>5. ASSUME MainStep \/ DropAllCapabilitiesOnCurrentThread \/ DropFileSystemAccess
             \/ OpenDirectory \/ CloseDirectory \/ OpenProc
      PROVE limit' = {}
  BY <1>5 DEF MainStep, Join, RunWhileTrue, WatchEnds, AssertSingleThreaded, HasOpenDirectory,
       InstallFilter, DropAllCapabilitiesOnCurrentThread, DropFileSystemAccess, OpenDirectory,
       CloseDirectory, OpenProc, credentialVars
<1>6. ASSUME NEW sandbox \in Sandboxes, SetProcFd(sandbox) \/ MainStarts(sandbox)
      PROVE limit' = {}
  BY <1>6 DEF SetProcFd, MainStarts, StartSandbox, credentialVars
<1>7. CASE UNCHANGED entryVars
  BY <1>7 DEF entryVars, credentialVars
<1> QED
  BY <1>2, <1>3, <1>4, <1>5, <1>6, <1>7 DEF EntryNext, MainStarts

(* A process that gave up its root and its capabilities gets none again.     *)
THEOREM StaysLockedIn == EntrySpec => StaysLocked
<1>1. EntrySafety => []CapsWithinLimit
  BY InitType, TypeStep, InitSeen, SeenStep, InitCaps, CapsStep, PTL DEF EntrySafety
<1>2. CapsWithinLimit /\ CapsWithinLimit' /\ [EntryNext]_entryVars =>
        [chrooted /\ limit = {} => \A t \in Threads : t = Main \/ t \in Running' => caps'[t] = {}]_entryVars
  BY LimitStaysEmpty DEF CapsWithinLimit
<1> QED
  BY <1>1, <1>2, PTL DEF EntrySpec, EntrySafety, StaysLocked
================================================================================
