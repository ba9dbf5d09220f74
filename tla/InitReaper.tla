------------------------------ MODULE InitReaper ------------------------------
(***************************************************************************)
(* A process that becomes the init process of what it forks                *)
(* (CreateInitProcessReaper).  It runs a callback, tells its natural child *)
(* to continue, and then reaps every child it has or is given, until the   *)
(* natural one ends, whose exit code it hands on.                          *)
(*                                                                         *)
(* Others are the children the callback made and the processes that are    *)
(* given to init when their parents end.  Init itself is not signalled.    *)
(***************************************************************************)
EXTENDS Naturals

CONSTANTS
  Codes,      \* exit codes, 0 is one
  Killed,     \* how a process ends by a signal, no exit code
  Others

ASSUME ReaperAssumption == 0 \in Codes /\ Killed \notin Codes

VARIABLES
  init,        \* "callback", "send", "reap", "exited" or "crashed"
  called_back, \* the callback has run
  go,          \* bytes in the socket
  natural,     \* "waits" (for the byte), "continues", "refused", "zombie" or "reaped"
  ending,      \* how the natural child ended
  other,       \* of each of Others: "none", "alive", "zombie", "reaped"
  exit_code

reaperVars == <<init, called_back, go, natural, ending, other, exit_code>>

ReaperTypeOK ==
  /\ init \in {"callback", "send", "reap", "exited", "crashed"}
  /\ called_back \in BOOLEAN /\ go \in 0..1
  /\ natural \in {"waits", "continues", "refused", "zombie", "reaped"}
  /\ ending \in Codes \union {Killed} /\ exit_code \in Codes
  /\ other \in [Others -> {"none", "alive", "zombie", "reaped"}]

(* After the fork.                                                           *)
ReaperInit ==
  /\ init = "callback" /\ called_back = FALSE /\ go = 0
  /\ natural = "waits" /\ ending = Killed
  /\ other = [p \in Others |-> "none"] /\ exit_code = 0

-----------------------------------------------------------------------------
(* Init.                                                                     *)
(* Mutant: the child is told before the callback runs. *)
RunCallbackLate ==
  /\ init = "callback"
  /\ init' = "send"
  /\ go' = 1
  /\ UNCHANGED <<called_back, natural, ending, other, exit_code>>

RunCallback ==
  /\ init = "callback"
  /\ \/ init' = "send" /\ called_back' = TRUE
     \/ init' = "crashed" /\ UNCHANGED called_back
  /\ UNCHANGED <<go, natural, ending, other, exit_code>>

(* A child that has ended cannot be told: the CHECK fails.                   *)
TellChild ==
  /\ init = "send"
  /\ IF natural = "zombie" THEN init' = "crashed" /\ UNCHANGED go
     ELSE init' = "reap" /\ go' = 1
  /\ UNCHANGED <<called_back, natural, ending, other, exit_code>>

(* Mutant: only the natural child is waited for. *)
ReapOtherNever(p) ==
  /\ init = "reap" /\ other[p] = "zombie" /\ natural = "reaped"
  /\ other' = [other EXCEPT ![p] = "reaped"]
  /\ UNCHANGED <<init, called_back, go, natural, ending, exit_code>>

ReapOther(p) ==
  /\ init = "reap" /\ other[p] = "zombie"
  /\ other' = [other EXCEPT ![p] = "reaped"]
  /\ UNCHANGED <<init, called_back, go, natural, ending, exit_code>>

ReapNatural ==
  /\ init = "reap" /\ natural = "zombie"
  /\ natural' = "reaped"
  /\ exit_code' = IF ending = Killed THEN 0 ELSE ending
  /\ init' = "exited"
  /\ UNCHANGED <<called_back, go, ending, other>>

-----------------------------------------------------------------------------
(* The natural child and others.                                             *)

(* Mutant: the child goes on whatever read returns. *)
ContinueAnyway ==
  /\ natural = "waits"
  /\ \/ go = 1 /\ go' = 0
     \/ go = 0 /\ init = "crashed" /\ UNCHANGED go
  /\ natural' = "continues"
  /\ UNCHANGED <<init, called_back, ending, other, exit_code>>

Continue ==
  /\ natural = "waits"
  /\ \/ go = 1 /\ go' = 0 /\ natural' = "continues"
     \/ go = 0 /\ init = "crashed" /\ natural' = "refused" /\ UNCHANGED go
  /\ UNCHANGED <<init, called_back, ending, other, exit_code>>

NaturalEnds(how) ==
  /\ natural \in {"waits", "continues", "refused"}
  /\ natural = "waits" => how = Killed
  /\ natural' = "zombie" /\ ending' = how
  /\ UNCHANGED <<init, called_back, go, other, exit_code>>

OtherAppears(p) ==
  /\ other[p] = "none"
  /\ init = "callback" \/ natural = "continues"
  /\ other' = [other EXCEPT ![p] = "alive"]
  /\ UNCHANGED <<init, called_back, go, natural, ending, exit_code>>

OtherEnds(p) ==
  /\ other[p] = "alive"
  /\ other' = [other EXCEPT ![p] = "zombie"]
  /\ UNCHANGED <<init, called_back, go, natural, ending, exit_code>>

InitStep == RunCallback \/ TellChild \/ ReapNatural \/ \E p \in Others : ReapOther(p)

ReaperNext ==
  \/ InitStep \/ Continue
  \/ \E how \in Codes \union {Killed} : NaturalEnds(how)
  \/ \E p \in Others : OtherAppears(p) \/ OtherEnds(p)

(* Init runs when it can, and so does the child while it waits.              *)
ReaperFairness == WF_reaperVars(InitStep) /\ WF_reaperVars(Continue)

ReaperSafety == ReaperInit /\ [][ReaperNext]_reaperVars
ReaperSpec == ReaperSafety /\ ReaperFairness

-----------------------------------------------------------------------------
(* The child returns true from the call only when the callback has run in    *)
(* the parent, and then it has its init as long as it lives                  *)
(* (init_process_reaper.cc:83); otherwise it returns false.                  *)
ReaperWatches == natural = "continues" => called_back /\ init = "reap"

(* "Exit with the same exit code as our child. Exit with 0 if we got         *)
(* signaled" (init_process_reaper.cc:77), after that child and no earlier.   *)
ExitCodeHandedOn ==
  init = "exited" =>
    natural = "reaped" /\ exit_code = IF ending = Killed THEN 0 ELSE ending

(* Once the callback has run, init crashes only when its child was killed    *)
(* while that child waited (init_process_reaper.cc:60): there is nothing     *)
(* left to be the init process of but what the callback made.                *)
CrashesWithoutChild == init = "crashed" /\ called_back => natural = "zombie" /\ ending = Killed

(* Every child that ends is reaped, or init ends (init_process_reaper.cc:64).*)
EndedIsReaped ==
  \A p \in Others : other[p] = "zombie" ~> other[p] = "reaped" \/ init \in {"exited", "crashed"}

(* Init does not outlive its natural child.                                  *)
InitEnds == natural = "zombie" ~> init \in {"exited", "crashed"}

(* The child that continues has its init, and init ends with that child and  *)
(* its exit code, or crashes because there is no child to tell               *)
(* (init_process_reaper.cc:42-83).                                           *)
ReaperInv == ReaperTypeOK /\ ReaperWatches /\ ExitCodeHandedOn /\ CrashesWithoutChild
================================================================================
