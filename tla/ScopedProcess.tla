----------------------------- MODULE ScopedProcess -----------------------------
(***************************************************************************)
(* A child process that runs a closure and then pauses (ScopedProcess).    *)
(* The parent learns by a byte in a pipe that the closure has run, by      *)
(* waitid how the child ended, and kills and reaps it in the destructor.   *)
(* The closure may end the child or fork children of its own, which keep   *)
(* the end of the pipe open; anybody may signal the child.                 *)
(*                                                                         *)
(* The identifier of a child that was reaped may be another process's at   *)
(* once.  Nothing else in the parent waits for children.                   *)
(***************************************************************************)
EXTENDS Naturals, Sequences

CONSTANTS
  ExitCodes,     \* codes a closure ends the child with
  Signals,       \* signals that end a process; SIGKILL is one
  SIGKILL,
  MaxCalls       \* bound: calls of WaitForClosureToRun, and of WaitForExit

ASSUME ScopedAssumption ==
  /\ SIGKILL \in Signals /\ ExitCodes \intersect Signals = {}
  /\ MaxCalls \in Nat

Endings == ExitCodes \union Signals
Alive == {"closure", "returned", "paused"}

VARIABLES
  child,       \* "closure", "returned" (and not told), "paused", "zombie" or "reaped"
  ended,       \* how it ended, "not" before
  ran,         \* the closure has returned
  heir,        \* a process that the closure forked has the writing end
  bytes,       \* in the pipe
  parent,      \* "idle", in a call, in the destructor ("reap"), or "gone"
  reads,       \* answers of WaitForClosureToRun
  exits,       \* answers of WaitForExit
  killed       \* whom the destructor has signalled

childVars == <<child, ended, ran, heir>>
scopedVars == <<childVars, bytes, parent, reads, exits, killed>>

ScopedTypeOK ==
  /\ child \in Alive \union {"zombie", "reaped"}
  /\ IF child \in Alive THEN ended = "not" ELSE ended \in Endings
  /\ ran \in BOOLEAN /\ heir \in BOOLEAN /\ bytes \in 0..1
  /\ parent \in {"idle", "read", "wait", "reap", "gone"}
  /\ reads \in Seq(BOOLEAN) /\ exits \in Seq(Endings)
  /\ killed \in {"none", "child", "stranger"}

(* After the constructor: the parent has closed its writing end.             *)
ScopedInit ==
  /\ child = "closure" /\ ended = "not" /\ ran = FALSE /\ heir = FALSE /\ bytes = 0
  /\ parent = "idle" /\ reads = <<>> /\ exits = <<>> /\ killed = "none"

-----------------------------------------------------------------------------
(* The child.                                                                *)
Ends(how) == child' = "zombie" /\ ended' = how

ClosureForks ==
  /\ child = "closure" /\ ~heir /\ heir' = TRUE
  /\ UNCHANGED <<child, ended, ran, bytes, parent, reads, exits, killed>>

HeirEnds ==
  /\ heir /\ heir' = FALSE
  /\ UNCHANGED <<child, ended, ran, bytes, parent, reads, exits, killed>>

ClosureEnds(code) ==
  /\ child = "closure" /\ Ends(code)
  /\ UNCHANGED <<ran, heir, bytes, parent, reads, exits, killed>>

ClosureReturns ==
  /\ child = "closure" /\ child' = "returned" /\ ran' = TRUE
  /\ UNCHANGED <<ended, heir, bytes, parent, reads, exits, killed>>

NotifyParent ==
  /\ child = "returned" /\ child' = "paused" /\ bytes' = bytes + 1
  /\ UNCHANGED <<ended, ran, heir, parent, reads, exits, killed>>

Signalled(signal) ==
  /\ child \in Alive /\ Ends(signal)
  /\ UNCHANGED <<ran, heir, bytes, parent, reads, exits, killed>>

ChildNext ==
  \/ ClosureForks \/ HeirEnds \/ ClosureReturns \/ NotifyParent
  \/ \E code \in ExitCodes : ClosureEnds(code)
  \/ \E signal \in Signals : Signalled(signal)

-----------------------------------------------------------------------------
(* The parent.                                                               *)
WaitForClosureToRun ==
  /\ parent = "idle" /\ Len(reads) < MaxCalls /\ parent' = "read"
  /\ UNCHANGED <<childVars, bytes, reads, exits, killed>>

ReadByte ==
  /\ parent = "read" /\ bytes > 0
  /\ bytes' = bytes - 1 /\ reads' = Append(reads, TRUE)
  /\ parent' = "idle"
  /\ UNCHANGED <<childVars, exits, killed>>

(* The pipe has no writer any more.                                          *)
ReadEndOfFile ==
  /\ parent = "read" /\ bytes = 0
  /\ child \notin Alive /\ ~heir
  /\ reads' = Append(reads, FALSE)
  /\ parent' = "idle"
  /\ UNCHANGED <<childVars, bytes, exits, killed>>

WaitForExit ==
  /\ parent = "idle" /\ Len(exits) < MaxCalls /\ parent' = "wait"
  /\ UNCHANGED <<childVars, bytes, reads, exits, killed>>

(* Mutant: the child is reaped. *)
WaitReturnsReaping ==
  /\ parent = "wait" /\ child = "zombie"
  /\ child' = "reaped"
  /\ exits' = Append(exits, ended) /\ parent' = "idle"
  /\ UNCHANGED <<ended, ran, heir, bytes, reads, killed>>

(* WNOWAIT leaves the child a zombie.                                        *)
WaitReturns ==
  /\ parent = "wait" /\ child = "zombie"
  /\ exits' = Append(exits, ended) /\ parent' = "idle"
  /\ UNCHANGED <<childVars, bytes, reads, killed>>

(* The identifier is that of the child, a zombie included, until it is       *)
(* reaped.                                                                   *)
Destructor ==
  /\ parent = "idle" /\ parent' = "reap"
  /\ killed' = IF child = "reaped" THEN "stranger" ELSE "child"
  /\ IF child \in Alive THEN Ends(SIGKILL) ELSE UNCHANGED <<child, ended>>
  /\ UNCHANGED <<ran, heir, bytes, reads, exits>>

Reap ==
  /\ parent = "reap" /\ child = "zombie"
  /\ child' = "reaped" /\ parent' = "gone"
  /\ UNCHANGED <<ended, ran, heir, bytes, reads, exits, killed>>

ParentStep == ReadByte \/ ReadEndOfFile \/ WaitReturns \/ Reap

ScopedNext == ChildNext \/ ParentStep \/ WaitForClosureToRun \/ WaitForExit \/ Destructor

(* The parent goes on when it can, and the child writes its byte; whether    *)
(* the closure returns and who is signalled is open.                         *)
ScopedFairness == WF_scopedVars(ParentStep) /\ WF_scopedVars(NotifyParent)

ScopedSafety == ScopedInit /\ [][ScopedNext]_scopedVars
ScopedSpec == ScopedSafety /\ ScopedFairness

-----------------------------------------------------------------------------
(* WaitForClosureToRun answers true only when the closure has run, and once; *)
(* it answers false only when the child has ended (scoped_process.h:38),     *)
(* which it may have after the closure ran.  Every answer of WaitForExit is  *)
(* how the child ended.                                                      *)
AnswersAreTrue ==
  /\ \A i \in DOMAIN reads : IF reads[i] THEN ran /\ i = 1 ELSE child \notin Alive
  /\ \A i \in DOMAIN exits : exits[i] = ended

(* The destructor signals its own child, not a process that has its          *)
(* identifier by then (scoped_process.cc:64).                                *)
KillsItsChild == killed # "stranger"

(* The first WaitForClosureToRun ends once the closure has, unless a process *)
(* that the closure left behind keeps the pipe open.                         *)
FirstReadEnds ==
  parent = "read" /\ reads = <<>> /\ child # "closure" /\ ~heir ~> parent # "read"

(* "If this object is destroyed, the child will be destroyed, even if the    *)
(* closure did not finish running" (scoped_process.h:17).                    *)
ChildDestroyed == parent = "reap" ~> parent = "gone" /\ child = "reaped"

(* What the parent is told of its child is true, and what it does to it: its *)
(* answers come of the closure and of the end of the child, the identifier   *)
(* it signals is still the child's, and with the object the child is gone    *)
(* (scoped_process.cc:61-111).                                               *)
ScopedInv ==
  /\ ScopedTypeOK /\ AnswersAreTrue /\ KillsItsChild
  /\ parent = "gone" => child = "reaped"
================================================================================
