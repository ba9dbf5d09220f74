----------------------------- MODULE TrapRegistry -----------------------------
(***************************************************************************)
(* The traps of a seccomp sandbox (Trap): Add gives a handler the          *)
(* identifier that a filter returns for it, and the SIGSYS handler finds   *)
(* it again in an array.  The array grows while filters of earlier         *)
(* policies are in force, so that any system call of Add may itself trap:  *)
(* the handler then reads the array in whatever state Add has left it.     *)
(* Handlers nest when a trap's function makes system calls that trap.      *)
(*                                                                         *)
(* One thread: callers of Add see to it that no other thread takes a trap  *)
(* meanwhile.  The program leaves SIGBUS unblocked outside of handlers.    *)
(***************************************************************************)
EXTENDS Naturals, Sequences

CONSTANTS
  Keys,        \* trap keys: function, argument and whether it is safe
  Safe,        \* the safe ones
  NoKey,       \* an entry of the array that was not written
  Increment,   \* kCapacityIncrement
  MaxTraps,    \* SECCOMP_RET_DATA, the largest identifier
  MaxNesting   \* bound: handlers that run inside one another

ASSUME TrapAssumption ==
  /\ Safe \subseteq Keys /\ NoKey \notin Keys
  /\ Increment \in Nat \ {0} /\ MaxTraps \in Nat /\ MaxNesting \in Nat

VARIABLES
  debugging,           \* CHROME_SANDBOX_DEBUGGING is set
  trap_array,          \* what trap_array_ points to
  trap_array_size,
  trap_array_capacity,
  trap_ids,
  has_unsafe_traps,
  new_array,           \* what Add has allocated, <<>> when it has not
  switches,            \* arrays trap_array_ has pointed to before this one
  freed,               \* how many of them are deleted
  adding,              \* where Add is
  key,                 \* its argument
  frames,              \* activations of the SIGSYS handler, the innermost last
  sigbus,              \* SIGBUS is blocked
  answer,              \* what the last Add returned
  ran                  \* identifier and key of the last function called

arrayVars == <<trap_array, trap_array_size, trap_array_capacity, trap_ids, new_array, switches, freed>>
handlerVars == <<frames, sigbus, ran>>
registryVars == <<debugging, arrayVars, has_unsafe_traps, adding, key, handlerVars, answer>>

AddSteps == {"idle", "allocate", "copy", "switch", "delete", "remember", "store", "count", "died"}
Entries == Keys \union {NoKey}
Frame == [id : Nat, blocked : BOOLEAN, running : BOOLEAN, array : Nat, trap : Entries]

RegistryTypeOK ==
  /\ debugging \in BOOLEAN /\ has_unsafe_traps \in BOOLEAN /\ sigbus \in BOOLEAN
  /\ trap_array \in Seq(Entries) /\ new_array \in Seq(Entries)
  /\ trap_array_size \in 0..MaxTraps /\ trap_array_size <= Len(trap_array)
  /\ trap_array_capacity \in Nat
  /\ DOMAIN trap_ids \subseteq Keys
  /\ \A k \in DOMAIN trap_ids : trap_ids[k] \in 1..(trap_array_size + 1)
  /\ switches \in Nat /\ freed \in Nat
  /\ adding \in AddSteps /\ key \in Entries
  /\ frames \in Seq(Frame)
  /\ answer \in 0..MaxTraps
  /\ ran \in {<<>>} \union (Nat \X Entries)

Unwritten(n) == [i \in 1..n |-> NoKey]

RegistryInit ==
  /\ debugging \in BOOLEAN
  /\ trap_array = <<>> /\ trap_array_size = 0 /\ trap_array_capacity = 0
  /\ trap_ids = [k \in {} |-> 0]
  /\ has_unsafe_traps = FALSE
  /\ new_array = <<>> /\ switches = 0 /\ freed = 0
  /\ adding = "idle" /\ key = NoKey
  /\ frames = <<>> /\ sigbus = FALSE
  /\ answer = 0 /\ ran = <<>>

-----------------------------------------------------------------------------
(* Add, as far as the next point where a system call may trap.               *)
Program == frames = <<>>    \* no handler is on the stack

Full == trap_array_size >= trap_array_capacity

Add(k) ==
  /\ Program /\ adding = "idle"
  /\ key' = k
  /\ \/ /\ k \notin Safe /\ ~debugging
        /\ adding' = "died" /\ UNCHANGED answer
     \/ /\ k \in Safe \/ debugging
        /\ k \in DOMAIN trap_ids
        /\ answer' = trap_ids[k] /\ UNCHANGED adding
     \/ /\ k \in Safe \/ debugging
        /\ k \notin DOMAIN trap_ids
        /\ adding' = IF trap_array_size >= MaxTraps THEN "died"
                     ELSE IF Full THEN "allocate" ELSE "remember"
        /\ UNCHANGED answer
  /\ UNCHANGED <<debugging, arrayVars, has_unsafe_traps, handlerVars>>

Allocate ==
  /\ Program /\ adding = "allocate"
  /\ trap_array_capacity' = trap_array_capacity + Increment
  /\ new_array' = Unwritten(trap_array_capacity')
  /\ adding' = "copy"
  /\ UNCHANGED <<debugging, trap_array, trap_array_size, trap_ids, switches, freed,
                 has_unsafe_traps, key, handlerVars, answer>>

(* Mutant: the last entry is not copied. *)
CopyButLast ==
  /\ Program /\ adding = "copy"
  /\ new_array' = [i \in DOMAIN new_array |->
                     IF i < trap_array_size THEN trap_array[i] ELSE new_array[i]]
  /\ adding' = "switch"
  /\ UNCHANGED <<debugging, trap_array, trap_array_size, trap_array_capacity, trap_ids,
                 switches, freed, has_unsafe_traps, key, handlerVars, answer>>

(* Mutant: the old array is deleted before the pointer is switched. *)
CopyAndDelete ==
  /\ Program /\ adding = "copy"
  /\ new_array' = [i \in DOMAIN new_array |->
                     IF i <= trap_array_size THEN trap_array[i] ELSE new_array[i]]
  /\ freed' = switches + 1
  /\ adding' = "switch"
  /\ UNCHANGED <<debugging, trap_array, trap_array_size, trap_array_capacity, trap_ids,
                 switches, has_unsafe_traps, key, handlerVars, answer>>

CopyEntries ==
  /\ Program /\ adding = "copy"
  /\ new_array' = [i \in DOMAIN new_array |->
                     IF i <= trap_array_size THEN trap_array[i] ELSE new_array[i]]
  /\ adding' = "switch"
  /\ UNCHANGED <<debugging, trap_array, trap_array_size, trap_array_capacity, trap_ids,
                 switches, freed, has_unsafe_traps, key, handlerVars, answer>>

SwitchArray ==
  /\ Program /\ adding = "switch"
  /\ trap_array' = new_array
  /\ new_array' = <<>>
  /\ switches' = switches + 1
  /\ adding' = "delete"
  /\ UNCHANGED <<debugging, trap_array_size, trap_array_capacity, trap_ids, freed,
                 has_unsafe_traps, key, handlerVars, answer>>

DeleteArray ==
  /\ Program /\ adding = "delete"
  /\ freed' = switches
  /\ adding' = "remember"
  /\ UNCHANGED <<debugging, trap_array, trap_array_size, trap_array_capacity, trap_ids,
                 new_array, switches, has_unsafe_traps, key, handlerVars, answer>>

Remember ==
  /\ Program /\ adding = "remember"
  /\ trap_ids' = [k \in DOMAIN trap_ids \union {key} |->
                    IF k = key THEN trap_array_size + 1 ELSE trap_ids[k]]
  /\ adding' = "store"
  /\ UNCHANGED <<debugging, trap_array, trap_array_size, trap_array_capacity, new_array,
                 switches, freed, has_unsafe_traps, key, handlerVars, answer>>

Store ==
  /\ Program /\ adding = "store"
  /\ trap_array' = [trap_array EXCEPT ![trap_array_size + 1] = key]
  /\ adding' = "count"
  /\ UNCHANGED <<debugging, trap_array_size, trap_array_capacity, trap_ids, new_array,
                 switches, freed, has_unsafe_traps, key, handlerVars, answer>>

AddReturns ==
  /\ Program /\ adding = "count"
  /\ trap_array_size' = trap_array_size + 1
  /\ answer' = trap_array_size'
  /\ adding' = "idle"
  /\ UNCHANGED <<debugging, trap_array, trap_array_capacity, trap_ids, new_array,
                 switches, freed, has_unsafe_traps, key, handlerVars>>

EnableUnsafeTraps ==
  /\ Program /\ adding = "idle"
  /\ has_unsafe_traps' = (has_unsafe_traps \/ debugging)
  /\ UNCHANGED <<debugging, arrayVars, adding, key, handlerVars, answer>>

-----------------------------------------------------------------------------
(* The SIGSYS handler.                                                       *)
Innermost == frames[Len(frames)]
Without == SubSeq(frames, 1, Len(frames) - 1)

(* A system call of the program or of a trap's function traps with an        *)
(* identifier, or with one no filter was given.                              *)
Trapped(id) ==
  /\ adding # "died" /\ Len(frames) < MaxNesting
  /\ ~Program => Innermost.running
  /\ frames' = Append(frames, [id |-> id, blocked |-> sigbus, running |-> FALSE,
                               array |-> 0, trap |-> NoKey])
  /\ UNCHANGED <<debugging, arrayVars, has_unsafe_traps, adding, key, sigbus, ran, answer>>

Handling == ~Program /\ adding # "died"
Entered == Handling /\ ~Innermost.running
Expected == Innermost.id \in 1..trap_array_size
Nested == has_unsafe_traps /\ Innermost.blocked

Unexpected ==
  /\ Entered /\ ~Expected
  /\ frames' = Without
  /\ UNCHANGED <<debugging, arrayVars, has_unsafe_traps, adding, key, sigbus, ran, answer>>

(* Inside an unsafe trap the system call is made after all, except clone.    *)
DirectCall ==
  /\ Entered /\ Expected /\ Nested
  /\ \/ frames' = Without /\ UNCHANGED adding
     \/ adding' = "died" /\ UNCHANGED frames
  /\ UNCHANGED <<debugging, arrayVars, has_unsafe_traps, key, sigbus, ran, answer>>

(* Mutant: every handler blocks SIGBUS. *)
CallFunctionBlocking ==
  /\ Entered /\ Expected /\ ~Nested
  /\ LET trap == trap_array[Innermost.id] IN
     /\ frames' = Append(Without, [Innermost EXCEPT !.running = TRUE, !.array = switches,
                                                    !.trap = trap])
     /\ sigbus' = TRUE
     /\ ran' = <<Innermost.id, trap>>
  /\ UNCHANGED <<debugging, arrayVars, has_unsafe_traps, adding, key, answer>>

CallFunction ==
  /\ Entered /\ Expected /\ ~Nested
  /\ LET trap == trap_array[Innermost.id] IN
     /\ frames' = Append(Without, [Innermost EXCEPT !.running = TRUE, !.array = switches,
                                                    !.trap = trap])
     /\ sigbus' = (sigbus \/ trap \notin Safe)
     /\ ran' = <<Innermost.id, trap>>
  /\ UNCHANGED <<debugging, arrayVars, has_unsafe_traps, adding, key, answer>>

(* The kernel restores the mask of the context that trapped.                 *)
HandlerReturns ==
  /\ Handling /\ Innermost.running
  /\ frames' = Without
  /\ sigbus' = Innermost.blocked
  /\ UNCHANGED <<debugging, arrayVars, has_unsafe_traps, adding, key, ran, answer>>

SigSys == Unexpected \/ DirectCall \/ CallFunction \/ HandlerReturns

RegistryNext ==
  \/ \E k \in Keys : Add(k)
  \/ Allocate \/ CopyEntries \/ SwitchArray \/ DeleteArray \/ Remember \/ Store \/ AddReturns
  \/ EnableUnsafeTraps
  \/ \E id \in 0..(trap_array_size + 1) : Trapped(id)
  \/ SigSys

RegistrySpec == RegistryInit /\ [][RegistryNext]_registryVars

-----------------------------------------------------------------------------
(* Every array a handler works on is alive, the one it finds behind the      *)
(* pointer included (trap.cc:345): a trap never reads what Add has deleted.  *)
ArrayAlive == \A i \in 1..Len(frames) : frames[i].running => frames[i].array >= freed

(* A system call that a filter denies is made after all only inside the      *)
(* function of an unsafe trap (trap.cc:195).                                 *)
DirectOnlyInUnsafe ==
  [][DirectCall => \E i \in 1..(Len(frames) - 1) :
       frames[i].running /\ frames[i].trap \notin Safe]_registryVars

(* The array as identifiers see it.                                          *)
Visible == [i \in 1..trap_array_size |-> trap_array[i]]

Ids == INSTANCE TrapIds WITH keys <- Visible

(* Whatever Add is doing to the array when a system call traps, identifiers  *)
(* stay what they were and the function that runs is the one that was added  *)
(* under the identifier (trap.cc:308).                                       *)
KeepsIds == Ids!IdsSpec
================================================================================
