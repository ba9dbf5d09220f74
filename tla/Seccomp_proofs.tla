----------------------------- MODULE Seccomp_proofs -----------------------------
(***************************************************************************)
(* Proofs about two parts of the seccomp filters.  First the registry of   *)
(* traps, for any keys, sizes of arrays and number of traps: the array,    *)
(* its inverse and its size agree at every step of Add (ArrayInv), no      *)
(* handler reads a deleted array (Alive), the signal mask tells the truth  *)
(* (MaskTells), and the registry implements TrapIds.  Then the assembler,  *)
(* for any words, reach of branches and requests: every node does what was *)
(* asked for (Memoised), and so does whatever stands for it (Assembled).   *)
(***************************************************************************)
EXTENDS CodeGen, TrapRegistry, SequenceTheorems, FiniteSetTheorems, TLAPS

(* Where the array is as long as trap_array_capacity, where there is a copy  *)
(* of it, where there is room in it for one more key, and where trap_ids has *)
(* that key.                                                                 *)
Settled == {"idle", "allocate", "delete", "remember", "store", "count"}
Copying == {"copy", "switch"}
Unknown == {"allocate", "copy", "switch", "delete", "remember"}
Roomy == {"delete", "remember", "store", "count"}
Known == {"store", "count"}

SizesOK ==
  /\ adding \in Settled => trap_array_capacity = Len(trap_array)
  /\ adding \in Copying => Len(new_array) = trap_array_capacity /\ trap_array_size < trap_array_capacity
  /\ adding \in Roomy => trap_array_size < Len(trap_array)
  /\ adding \in Unknown \union Known => trap_array_size < MaxTraps

KeyOK ==
  /\ adding \in Unknown \union Known => key \in Keys
  /\ adding \in Unknown => key \notin DOMAIN trap_ids
  /\ adding \in Known => key \in DOMAIN trap_ids /\ trap_ids[key] = trap_array_size + 1
  /\ adding = "count" => trap_array[trap_array_size + 1] = key

InverseOK ==
  /\ adding = "switch" => \A i \in 1..trap_array_size : new_array[i] = trap_array[i]
  /\ \A i \in 1..trap_array_size : trap_array[i] \in DOMAIN trap_ids /\ trap_ids[trap_array[i]] = i
  /\ \A k \in DOMAIN trap_ids :
       \/ adding \in Known \union {"died"} /\ k = key
       \/ trap_ids[k] \in 1..trap_array_size /\ trap_array[trap_ids[k]] = k

ArrayInv == RegistryTypeOK /\ SizesOK /\ KeyOK /\ InverseOK

-----------------------------------------------------------------------------
(* Steps of Add.                                                             *)
LEMMA InitArray == RegistryInit => ArrayInv
<1> SUFFICES ASSUME RegistryInit PROVE ArrayInv
  OBVIOUS
<1>1. /\ trap_array = <<>> /\ trap_array_size = 0 /\ trap_array_capacity = 0 /\ new_array = <<>>
      /\ DOMAIN trap_ids = {} /\ adding = "idle" /\ key = NoKey /\ answer = 0 /\ MaxTraps \in Nat
  BY TrapAssumption DEF RegistryInit
<1>2. SizesOK /\ KeyOK /\ InverseOK
  BY <1>1 DEF SizesOK, KeyOK, InverseOK, Settled, Copying, Unknown, Roomy, Known
<1>3. ran \in {<<>>} \union (Nat \X Entries)
  BY Zenon DEF RegistryInit
<1>4. /\ debugging \in BOOLEAN /\ has_unsafe_traps \in BOOLEAN /\ sigbus \in BOOLEAN
      /\ switches \in Nat /\ freed \in Nat
  BY DEF RegistryInit
<1>5. frames \in Seq(Frame) /\ trap_array \in Seq(Entries) /\ new_array \in Seq(Entries)
  BY <1>1, EmptySeq DEF RegistryInit
<1>6. /\ adding \in AddSteps /\ key \in Entries /\ answer \in 0..MaxTraps
      /\ trap_array_size \in 0..MaxTraps /\ trap_array_size <= Len(trap_array)
      /\ trap_array_capacity \in Nat
  BY <1>1, EmptySeq DEF AddSteps, Entries
<1>7. RegistryTypeOK
  BY <1>1, <1>3, <1>4, <1>5, <1>6 DEF RegistryTypeOK
<1> QED
  BY <1>2, <1>7 DEF ArrayInv

LEMMA IsSeq ==
  ASSUME NEW S, NEW n \in Nat, NEW f \in [1..n -> S]
  PROVE  f \in Seq(S) /\ Len(f) = n
<1>1. f = [i \in 1..n |-> f[i]] /\ \A i \in 1..n : f[i] \in S
  OBVIOUS
<1>2. [i \in 1..n |-> f[i]] \in Seq(S) /\ Len([i \in 1..n |-> f[i]]) = n
  BY <1>1
<1> QED
  BY <1>1, <1>2

LEMMA UnwrittenSeq ==
  ASSUME NEW n \in Nat
  PROVE  Unwritten(n) \in Seq(Entries) /\ Len(Unwritten(n)) = n
  BY DEF Unwritten, Entries

LEMMA AddArray == ASSUME ArrayInv, NEW k \in Keys, Add(k) PROVE ArrayInv'
<1> USE DEF ArrayInv
<1>0. RegistryTypeOK /\ SizesOK /\ InverseOK /\ adding = "idle"
  BY DEF Add
<1>1. SizesOK' /\ KeyOK' /\ InverseOK'
  <2>1. adding' \in {"idle", "died", "allocate", "remember"} /\ key' = k
        /\ UNCHANGED arrayVars
    BY <1>0 DEF Add
  <2>2. adding' \in {"allocate", "remember"} =>
          k \notin DOMAIN trap_ids /\ trap_array_size < MaxTraps
    BY <1>0, TrapAssumption DEF Add, RegistryTypeOK
  <2>3. adding' = "remember" => trap_array_size < trap_array_capacity
    BY <1>0, <2>1 DEF Add, Full, RegistryTypeOK, arrayVars
  <2>4. trap_array_capacity = Len(trap_array)
    BY <1>0 DEF SizesOK, Settled
  <2>5. SizesOK' /\ KeyOK'
    BY <2>1, <2>2, <2>3, <2>4 DEF arrayVars, SizesOK, KeyOK, Settled, Copying, Unknown, Roomy, Known
  <2>6. InverseOK'
    BY <1>0, <2>1 DEF arrayVars, InverseOK, Known
  <2> QED
    BY <2>5, <2>6
<1>2. answer' \in 0..MaxTraps
  BY <1>0, TrapAssumption DEF Add, RegistryTypeOK, InverseOK, Known
<1>3. adding' \in AddSteps /\ key' \in Entries
  BY <1>0 DEF Add, AddSteps, Entries
<1>4. RegistryTypeOK'
  BY <1>0, <1>2, <1>3 DEF Add, RegistryTypeOK, arrayVars, handlerVars
<1> QED
  BY <1>1, <1>4

LEMMA AllocateArray == ASSUME ArrayInv, Allocate PROVE ArrayInv'
<1>0. /\ trap_array_capacity' = trap_array_capacity + Increment
      /\ trap_array_capacity \in Nat /\ trap_array_capacity' \in Nat
      /\ trap_array_size \in Nat /\ trap_array_size <= trap_array_capacity
  BY TrapAssumption DEF Allocate, ArrayInv, RegistryTypeOK, SizesOK, Settled
<1>1. new_array' \in Seq(Entries) /\ Len(new_array') = trap_array_capacity'
  BY <1>0, UnwrittenSeq DEF Allocate
<1>2. RegistryTypeOK'
  BY <1>0, <1>1 DEF Allocate, ArrayInv, RegistryTypeOK, handlerVars, AddSteps
<1>3. SizesOK' /\ KeyOK' /\ InverseOK'
  BY <1>0, <1>1, TrapAssumption
     DEF Allocate, ArrayInv, SizesOK, KeyOK, InverseOK, Settled, Copying, Unknown, Roomy, Known
<1> QED
  BY <1>2, <1>3 DEF ArrayInv

LEMMA CopyArray == ASSUME ArrayInv, CopyEntries PROVE ArrayInv'
<1>0. /\ trap_array \in Seq(Entries) /\ new_array \in Seq(Entries)
      /\ trap_array_size \in Nat /\ trap_array_size <= Len(trap_array)
      /\ Len(new_array) = trap_array_capacity /\ trap_array_size < trap_array_capacity
  BY DEF CopyEntries, ArrayInv, RegistryTypeOK, SizesOK, Copying
<1>1. /\ new_array' \in Seq(Entries) /\ Len(new_array') = Len(new_array)
      /\ \A i \in 1..trap_array_size : new_array'[i] = trap_array[i]
  <2>1. new_array' = [i \in 1..Len(new_array) |->
                        IF i <= trap_array_size THEN trap_array[i] ELSE new_array[i]]
    BY <1>0 DEF CopyEntries
  <2>2. \A i \in 1..Len(new_array) : new_array'[i] \in Entries
    BY <1>0, <2>1
  <2>3. new_array' \in [1..Len(new_array) -> Entries] /\ Len(new_array) \in Nat
    BY <1>0, <2>1, <2>2
  <2>4. new_array' \in Seq(Entries) /\ Len(new_array') = Len(new_array)
    BY <2>3, IsSeq
  <2> QED
    BY <1>0, <2>1, <2>4
<1>2. RegistryTypeOK'
  BY <1>1 DEF CopyEntries, ArrayInv, RegistryTypeOK, handlerVars, AddSteps
<1>3. SizesOK' /\ KeyOK' /\ InverseOK'
  BY <1>0, <1>1
     DEF CopyEntries, ArrayInv, SizesOK, KeyOK, InverseOK, Settled, Copying, Unknown, Roomy, Known
<1> QED
  BY <1>2, <1>3 DEF ArrayInv

LEMMA SwitchedArray == ASSUME ArrayInv, SwitchArray PROVE ArrayInv'
<1>1. RegistryTypeOK'
  BY DEF SwitchArray, ArrayInv, RegistryTypeOK, SizesOK, Copying, handlerVars, AddSteps
<1>2. SizesOK' /\ KeyOK' /\ InverseOK'
  BY DEF SwitchArray, ArrayInv, RegistryTypeOK, SizesOK, KeyOK, InverseOK, Settled, Copying, Unknown, Roomy, Known
<1> QED
  BY <1>1, <1>2 DEF ArrayInv

LEMMA DeletedArray == ASSUME ArrayInv, DeleteArray PROVE ArrayInv'
  BY DEF DeleteArray, ArrayInv, RegistryTypeOK, SizesOK, KeyOK, InverseOK, Settled, Copying, Unknown,
         Roomy, Known, handlerVars, AddSteps

LEMMA RememberedKey == ASSUME ArrayInv, Remember PROVE ArrayInv'
<1>0. key \in Keys /\ key \notin DOMAIN trap_ids /\ trap_array_size \in Nat
  BY DEF Remember, ArrayInv, RegistryTypeOK, KeyOK, Unknown
<1>1. RegistryTypeOK'
  BY <1>0 DEF Remember, ArrayInv, RegistryTypeOK, handlerVars, AddSteps
<1>2. SizesOK' /\ KeyOK'
  BY <1>0 DEF Remember, ArrayInv, SizesOK, KeyOK, Settled, Copying, Unknown, Roomy, Known
<1>3. InverseOK'
  BY <1>0 DEF Remember, ArrayInv, RegistryTypeOK, InverseOK, Known
<1> QED
  BY <1>1, <1>2, <1>3 DEF ArrayInv

LEMMA StoredKey == ASSUME ArrayInv, Store PROVE ArrayInv'
<1>0. /\ key \in Keys /\ trap_array_size \in Nat /\ trap_array_size < Len(trap_array)
      /\ trap_array \in Seq(Entries)
  BY DEF Store, ArrayInv, RegistryTypeOK, SizesOK, KeyOK, Unknown, Known, Roomy
<1>1. /\ trap_array' \in Seq(Entries) /\ Len(trap_array') = Len(trap_array)
      /\ \A i \in 1..trap_array_size : trap_array'[i] = trap_array[i]
      /\ trap_array'[trap_array_size + 1] = key
  BY <1>0 DEF Store, Entries
<1>2. RegistryTypeOK'
  BY <1>0, <1>1 DEF Store, ArrayInv, RegistryTypeOK, handlerVars, AddSteps
<1>3. SizesOK' /\ KeyOK'
  BY <1>0, <1>1 DEF Store, ArrayInv, SizesOK, KeyOK, Settled, Copying, Unknown, Roomy, Known
<1>4. InverseOK'
  BY <1>0, <1>1 DEF Store, ArrayInv, InverseOK, Known
<1> QED
  BY <1>2, <1>3, <1>4 DEF ArrayInv

LEMMA ReturnedArray == ASSUME ArrayInv, AddReturns PROVE ArrayInv'
<1>0. /\ trap_array_size \in Nat /\ trap_array_size < Len(trap_array) /\ trap_array_size < MaxTraps
      /\ trap_array \in Seq(Entries)
      /\ trap_array_size' = trap_array_size + 1
  BY DEF AddReturns, ArrayInv, RegistryTypeOK, SizesOK, Unknown, Known, Roomy
<1>1. RegistryTypeOK'
  BY <1>0, TrapAssumption DEF AddReturns, ArrayInv, RegistryTypeOK, handlerVars, AddSteps
<1>2. SizesOK' /\ KeyOK'
  BY <1>0 DEF AddReturns, ArrayInv, SizesOK, KeyOK, Settled, Copying, Unknown, Roomy, Known
<1>3. InverseOK'
  BY <1>0 DEF AddReturns, ArrayInv, RegistryTypeOK, InverseOK, KeyOK, Known
<1> QED
  BY <1>1, <1>2, <1>3 DEF ArrayInv

-----------------------------------------------------------------------------
(* Steps of the handler: they leave the array alone.                         *)
Handler == (\E id \in 0..(trap_array_size + 1) : Trapped(id)) \/ SigSys
Reading == UNCHANGED <<debugging, arrayVars, has_unsafe_traps, key, answer>>

LEMMA HandlerReads == ASSUME Handler PROVE Reading /\ adding' \in {adding, "died"}
  BY DEF Handler, Trapped, SigSys, Unexpected, DirectCall, CallFunction, HandlerReturns, Reading

LEMMA FramesOnTop ==
  ASSUME frames \in Seq(Frame), frames # <<>>
  PROVE  /\ Len(frames) \in Nat \ {0}
         /\ Innermost \in Frame /\ Innermost = frames[Len(frames)]
         /\ Without \in Seq(Frame) /\ Len(Without) = Len(frames) - 1
         /\ \A i \in 1..(Len(frames) - 1) : Without[i] = frames[i]
<1>1. Len(frames) \in Nat \ {0}
  BY EmptySeq
<1>2. \A i \in 1..Len(frames) : frames[i] \in Frame
  BY ElementOfSeq
<1>3. \A i \in 1..(Len(frames) - 1) : frames[i] \in Frame
  BY <1>1, <1>2
<1>4. /\ Without \in Seq(Frame) /\ Len(Without) = Len(frames) - 1
      /\ \A i \in 1..(Len(frames) - 1) : Without[i] = frames[i]
  <2> DEFINE n == Len(frames) - 1
  <2>0. n \in Nat
    BY <1>1
  <2>2. \A i \in 1..n : frames[i] \in Frame
    BY <1>3
  <2> HIDE DEF n
  <2>1. n \in Int /\ 1 \in Int /\ n - 1 + 1 = n /\ (IF 1 <= n THEN n - 1 + 1 ELSE 0) = n
    BY <2>0
  <2>3. /\ SubSeq(frames, 1, n) \in Seq(Frame) /\ Len(SubSeq(frames, 1, n)) = n
        /\ \A i \in 1..(n - 1 + 1) : SubSeq(frames, 1, n)[i] = frames[1 + i - 1]
    BY <2>1, <2>2, SubSeqProperties
  <2>4. \A i \in 1..n : SubSeq(frames, 1, n)[i] = frames[i]
    BY <2>1, <2>3
  <2> QED
    BY <2>3, <2>4 DEF Without, n
<1> QED
  BY <1>1, <1>2, <1>4 DEF Innermost

(* What a handler that calls a function puts on the stack.                   *)
LEMMA Calls ==
  ASSUME RegistryTypeOK, CallFunction
  PROVE  /\ trap_array[Innermost.id] \in Entries /\ Innermost.id \in 1..trap_array_size
         /\ \E frame \in Frame :
              /\ frames' = Append(Without, frame) /\ frame.array = switches
              /\ frame.trap = trap_array[Innermost.id] /\ frame.blocked = Innermost.blocked
              /\ frame.running
<1>1. Innermost \in Frame /\ Innermost.id \in 1..trap_array_size
  BY FramesOnTop DEF CallFunction, Entered, Handling, Expected, Program, RegistryTypeOK
<1>2. trap_array[Innermost.id] \in Entries
  BY <1>1, ElementOfSeq DEF RegistryTypeOK
<1> DEFINE frame == [Innermost EXCEPT !.running = TRUE, !.array = switches,
                                      !.trap = trap_array[Innermost.id]]
<1>3. /\ frame \in Frame /\ frame.array = switches /\ frame.running
      /\ frame.trap = trap_array[Innermost.id] /\ frame.blocked = Innermost.blocked
  BY <1>1, <1>2 DEF Frame, RegistryTypeOK
<1>4. frames' = Append(Without, frame)
  BY DEF CallFunction
<1> QED
  BY <1>1, <1>2, <1>3, <1>4

LEMMA HandlerTypes ==
  ASSUME RegistryTypeOK, Handler
  PROVE  frames' \in Seq(Frame) /\ sigbus' \in BOOLEAN /\ ran' \in {<<>>} \union (Nat \X Entries)
<1>0. frames \in Seq(Frame) /\ sigbus \in BOOLEAN /\ ran \in {<<>>} \union (Nat \X Entries)
  BY DEF RegistryTypeOK
<1>1. ASSUME NEW id \in 0..(trap_array_size + 1), Trapped(id)
      PROVE  frames' \in Seq(Frame) /\ UNCHANGED <<sigbus, ran>>
  <2>1. [id |-> id, blocked |-> sigbus, running |-> FALSE, array |-> 0, trap |-> NoKey] \in Frame
    BY <1>0 DEF Frame, Entries
  <2> QED
    BY <1>0, <1>1, <2>1, AppendProperties DEF Trapped
<1>2. ASSUME Unexpected \/ DirectCall
      PROVE  frames' \in Seq(Frame) /\ UNCHANGED <<sigbus, ran>>
  BY <1>0, <1>2, FramesOnTop DEF Unexpected, DirectCall, Entered, Handling, Program
<1>3. CASE CallFunction
  <2>1. Without \in Seq(Frame)
    BY <1>0, <1>3, FramesOnTop DEF CallFunction, Entered, Handling, Program
  <2>2. frames' \in Seq(Frame)
    BY <1>3, <2>1, Calls, AppendProperties
  <2>3. /\ sigbus' = (sigbus \/ trap_array[Innermost.id] \notin Safe)
        /\ ran' = <<Innermost.id, trap_array[Innermost.id]>>
    BY <1>3 DEF CallFunction
  <2>4. Innermost.id \in Nat
    BY <1>3, Calls DEF RegistryTypeOK
  <2>5. ran' \in Nat \X Entries
    BY <1>3, <2>3, <2>4, Calls
  <2>6. sigbus' \in BOOLEAN
    BY <2>3
  <2> QED
    BY <2>2, <2>5, <2>6
<1>4. CASE HandlerReturns
  <2>1. frames # <<>> /\ frames' = Without /\ sigbus' = Innermost.blocked /\ ran' = ran
    BY <1>4 DEF HandlerReturns, Handling, Program
  <2>2. Without \in Seq(Frame) /\ Innermost \in Frame
    BY <1>0, <2>1, FramesOnTop
  <2>3. Innermost.blocked \in BOOLEAN
    BY <2>2 DEF Frame
  <2> QED
    BY <1>0, <2>1, <2>2, <2>3
<1> QED
  BY <1>0, <1>1, <1>2, <1>3, <1>4 DEF Handler, SigSys

LEMMA HandlerArray == ASSUME ArrayInv, Handler PROVE ArrayInv'
<1>1. Reading /\ adding' \in {adding, "died"}
  BY HandlerReads
<1>2. RegistryTypeOK'
  <2>1. RegistryTypeOK
    BY DEF ArrayInv
  <2>2. adding' \in AddSteps
    BY <1>1, <2>1 DEF RegistryTypeOK, AddSteps
  <2> QED
    BY <1>1, <2>1, <2>2, HandlerTypes DEF RegistryTypeOK, Reading, arrayVars
<1>3. SizesOK' /\ KeyOK' /\ InverseOK'
  BY <1>1 DEF ArrayInv, SizesOK, KeyOK, InverseOK, Reading, arrayVars, Settled, Copying, Unknown, Roomy, Known
<1> QED
  BY <1>2, <1>3 DEF ArrayInv

LEMMA ArrayStep == ArrayInv /\ [RegistryNext]_registryVars => ArrayInv'
<1> SUFFICES ASSUME ArrayInv, [RegistryNext]_registryVars PROVE ArrayInv'
  OBVIOUS
<1>1. CASE EnableUnsafeTraps
  BY <1>1 DEF EnableUnsafeTraps, ArrayInv, RegistryTypeOK, SizesOK, KeyOK, InverseOK, arrayVars, handlerVars
<1>2. CASE UNCHANGED registryVars
  BY <1>2 DEF registryVars, ArrayInv, RegistryTypeOK, SizesOK, KeyOK, InverseOK, arrayVars, handlerVars
<1> QED
  BY <1>1, <1>2, AddArray, AllocateArray, CopyArray, SwitchedArray, DeletedArray, RememberedKey,
     StoredKey, ReturnedArray, HandlerArray DEF RegistryNext, Handler

(* Type correctness of the specification.                                    *)
THEOREM RegistryTypeCorrect == RegistrySpec => []RegistryTypeOK
<1>1. ArrayInv => RegistryTypeOK
  BY DEF ArrayInv
<1> QED
  BY <1>1, InitArray, ArrayStep, PTL DEF RegistrySpec

-----------------------------------------------------------------------------
(* The array a handler works on.  Add goes on when no handler runs, and the  *)
(* array that trap_array_ points to is never a deleted one.                  *)
Alive ==
  /\ freed <= switches
  /\ \A i \in 1..Len(frames) : frames[i].running => frames[i].array >= freed

LEMMA InitAlive == RegistryInit => Alive
  BY EmptySeq DEF RegistryInit, Alive

LEMMA AliveStep == ArrayInv /\ Alive /\ [RegistryNext]_registryVars => Alive'
<1> SUFFICES ASSUME ArrayInv, Alive, [RegistryNext]_registryVars PROVE Alive'
  OBVIOUS
<1>0. freed \in Nat /\ switches \in Nat /\ frames \in Seq(Frame)
  BY DEF ArrayInv, RegistryTypeOK
<1>1. CASE UNCHANGED <<frames, freed, switches>>
  BY <1>1 DEF Alive
<1>2. ASSUME \/ \E k \in Keys : Add(k)
             \/ Allocate \/ CopyEntries \/ Remember \/ Store \/ AddReturns \/ EnableUnsafeTraps
      PROVE UNCHANGED <<frames, freed, switches>>
  BY <1>2 DEF Add, Allocate, CopyEntries, Remember, Store, AddReturns, EnableUnsafeTraps, arrayVars,
              handlerVars
<1>3. CASE SwitchArray \/ DeleteArray
  <2>1. frames = <<>> /\ frames' = frames /\ freed' <= switches'
    BY <1>0, <1>3 DEF SwitchArray, DeleteArray, Program, Alive, handlerVars
  <2> QED
    BY <2>1, EmptySeq DEF Alive
<1>4. ASSUME NEW id \in 0..(trap_array_size + 1), Trapped(id) PROVE Alive'
  <2> DEFINE frame == [id |-> id, blocked |-> sigbus, running |-> FALSE, array |-> 0, trap |-> NoKey]
  <2>1. frames' = Append(frames, frame) /\ UNCHANGED <<freed, switches>>
    BY <1>4 DEF Trapped, arrayVars
  <2>2. frame \in Frame /\ ~frame.running
    BY <1>0 DEF Frame, Entries, ArrayInv, RegistryTypeOK
  <2> HIDE DEF frame
  <2> QED
    BY <1>0, <2>1, <2>2, AppendProperties DEF Alive
<1>5. ASSUME UNCHANGED <<freed, switches>>, frames # <<>>, frames' = Without PROVE Alive'
  BY <1>0, <1>5, FramesOnTop DEF Alive
<1>6. CASE Unexpected \/ DirectCall \/ HandlerReturns
  BY <1>1, <1>5, <1>6
     DEF Unexpected, DirectCall, HandlerReturns, Entered, Handling, Program, arrayVars
<1>7. CASE CallFunction
  <2>1. UNCHANGED <<freed, switches>> /\ frames # <<>>
    BY <1>7 DEF CallFunction, Entered, Handling, Program, arrayVars
  <2>2. PICK frame \in Frame : frames' = Append(Without, frame) /\ frame.array = switches
    BY <1>7, Calls DEF ArrayInv
  <2>3. /\ Without \in Seq(Frame) /\ Len(Without) = Len(frames) - 1 /\ Len(frames) \in Nat
        /\ \A i \in 1..(Len(frames) - 1) : Without[i] = frames[i]
    BY <1>0, <2>1, FramesOnTop
  <2>4. /\ Len(frames') = Len(frames) /\ frames'[Len(frames)] = frame
        /\ \A i \in 1..(Len(frames) - 1) : frames'[i] = frames[i]
    BY <2>2, <2>3, AppendProperties
  <2> QED
    BY <1>0, <2>1, <2>2, <2>3, <2>4 DEF Alive
<1>8. CASE UNCHANGED registryVars
  BY <1>1, <1>8 DEF registryVars, arrayVars, handlerVars
<1> QED
  BY <1>1, <1>2, <1>3, <1>4, <1>6, <1>7, <1>8 DEF RegistryNext, SigSys

(* No trap reads an array that Add has deleted, however deep handlers nest.  *)
THEOREM TrapsReadLiveArrays == RegistrySpec => []ArrayAlive
<1>1. Alive => ArrayAlive
  BY DEF Alive, ArrayAlive
<1> QED
  BY <1>1, InitArray, ArrayStep, InitAlive, AliveStep, PTL DEF RegistrySpec

-----------------------------------------------------------------------------
(* The refinement.  The array as identifiers see it is a sequence of keys.   *)
LEMMA FirstEntries ==
  ASSUME NEW n \in Nat, NEW array, \A i \in 1..n : array[i] \in Keys
  PROVE  /\ [i \in 1..n |-> array[i]] \in Seq(Keys) /\ Len([i \in 1..n |-> array[i]]) = n
         /\ \A i \in 1..n : [j \in 1..n |-> array[j]][i] = array[i]
<1>1. [i \in 1..n |-> array[i]] \in [1..n -> Keys]
  OBVIOUS
<1> QED
  BY <1>1, IsSeq

LEMMA VisibleSeq ==
  ASSUME RegistryTypeOK, InverseOK
  PROVE  /\ Visible \in Seq(Keys) /\ Len(Visible) = trap_array_size
         /\ \A i \in 1..trap_array_size : Visible[i] = trap_array[i]
<1>1. \A i \in 1..trap_array_size : trap_array[i] \in Keys
  BY DEF RegistryTypeOK, InverseOK
<1>2. trap_array_size \in Nat
  BY DEF RegistryTypeOK
<1> QED
  BY <1>1, <1>2, FirstEntries DEF Visible

LEMMA InitIds == RegistryInit => Ids!IdsInit
<1> SUFFICES ASSUME RegistryInit PROVE Visible = <<>> /\ answer = 0 /\ ran = <<>>
  BY DEF Ids!IdsInit
<1>1. Visible \in Seq(Keys) /\ Len(Visible) = 0
  BY InitArray, VisibleSeq DEF ArrayInv, RegistryInit
<1> QED
  BY <1>1, EmptySeq DEF RegistryInit

(* An array that begins with the same entries looks the same.                *)
LEMMA SameVisible ==
  ASSUME RegistryTypeOK, trap_array_size' = trap_array_size,
         \A i \in 1..trap_array_size : trap_array'[i] = trap_array[i]
  PROVE  Visible' = Visible
  BY DEF Visible, RegistryTypeOK

LEMMA IdsStep == ArrayInv /\ ArrayInv' /\ [RegistryNext]_registryVars => [Ids!IdsNext]_(Ids!idVars)
<1> SUFFICES ASSUME ArrayInv, ArrayInv', [RegistryNext]_registryVars
             PROVE Ids!IdsNext \/ UNCHANGED <<Visible, answer, ran>>
  BY DEF Ids!idVars
<1>0. /\ RegistryTypeOK /\ InverseOK /\ trap_array_size \in Nat
      /\ Visible \in Seq(Keys) /\ Len(Visible) = trap_array_size
      /\ \A i \in 1..trap_array_size : Visible[i] = trap_array[i]
  BY VisibleSeq DEF ArrayInv, RegistryTypeOK
<1>1. ASSUME UNCHANGED <<trap_array, trap_array_size>> PROVE Visible' = Visible
  BY <1>1 DEF Visible
<1>2. ASSUME NEW k \in Keys, Add(k) PROVE Ids!IdsNext \/ UNCHANGED <<Visible, answer, ran>>
  <2>1. UNCHANGED <<Visible, ran>>
    BY <1>1, <1>2 DEF Add, arrayVars, handlerVars
  <2>2. CASE k \in DOMAIN trap_ids /\ answer' = trap_ids[k]
    <3>1. trap_ids[k] \in 1..trap_array_size /\ trap_array[trap_ids[k]] = k
      BY <1>0, <1>2, <2>2 DEF Add, InverseOK, Known
    <3>2. Ids!Register(k)
      BY <1>0, <2>1, <2>2, <3>1 DEF Ids!Register, Ids!WithKey, Ids!Ids
    <3> QED
      BY <3>2 DEF Ids!IdsNext
  <2> QED
    BY <1>2, <2>1, <2>2 DEF Add
<1>3. CASE Allocate \/ CopyEntries \/ DeleteArray \/ Remember \/ EnableUnsafeTraps
  BY <1>1, <1>3 DEF Allocate, CopyEntries, DeleteArray, Remember, EnableUnsafeTraps, arrayVars, handlerVars
<1>4. CASE SwitchArray
  BY <1>0, <1>4, SameVisible DEF SwitchArray, InverseOK, handlerVars
<1>5. CASE Store
  <2>1. \A i \in 1..trap_array_size : trap_array'[i] = trap_array[i]
    BY <1>0, <1>5 DEF Store, RegistryTypeOK
  <2> QED
    BY <1>0, <1>5, <2>1, SameVisible DEF Store, handlerVars
<1>6. CASE AddReturns
  <2>1. /\ trap_array_size' = trap_array_size + 1 /\ answer' = trap_array_size + 1 /\ ran' = ran
        /\ trap_array' = trap_array /\ key \in Keys /\ trap_array[trap_array_size + 1] = key
        /\ trap_ids[key] = trap_array_size + 1
    BY <1>6 DEF AddReturns, ArrayInv, KeyOK, Known, Unknown, handlerVars
  <2>2. \A i \in 1..trap_array_size : trap_array[i] # key
    BY <1>0, <2>1 DEF InverseOK
  <2>3. /\ Visible' \in Seq(Keys) /\ Len(Visible') = trap_array_size + 1
        /\ \A i \in 1..(trap_array_size + 1) : Visible'[i] = trap_array[i]
    <3>1. trap_array_size' \in Nat /\ \A i \in 1..trap_array_size' : trap_array'[i] \in Keys
      BY <1>0, <2>1 DEF RegistryTypeOK, InverseOK
    <3> QED
      BY <2>1, <3>1, FirstEntries DEF Visible
  <2>4. Visible' = Append(Visible, key)
    <3>1. /\ Append(Visible, key) \in Seq(Keys) /\ Len(Append(Visible, key)) = trap_array_size + 1
          /\ \A i \in 1..trap_array_size : Append(Visible, key)[i] = Visible[i]
          /\ Append(Visible, key)[trap_array_size + 1] = key
      BY <1>0, <2>1, AppendProperties
    <3>2. \A i \in 1..(trap_array_size + 1) : Visible'[i] = Append(Visible, key)[i]
      BY <1>0, <2>1, <2>3, <3>1
    <3> QED
      BY <2>3, <3>1, <3>2, SeqEqual
  <2>5. Ids!Register(key)
    BY <1>0, <2>1, <2>2, <2>3, <2>4 DEF Ids!Register, Ids!WithKey, Ids!Ids
  <2> QED
    BY <2>1, <2>5 DEF Ids!IdsNext
<1>7. CASE Handler
  <2>1. Visible' = Visible /\ answer' = answer
    BY <1>1, <1>7, HandlerReads DEF Reading, arrayVars
  <2>2. CASE CallFunction
    <3>1. /\ Innermost.id \in 1..trap_array_size
          /\ ran' = <<Innermost.id, trap_array[Innermost.id]>>
      BY <1>0, <2>2, Calls DEF CallFunction
    <3>2. Ids!RunHandler(Innermost.id) /\ Innermost.id \in Ids!Ids(Visible)
      BY <1>0, <2>1, <3>1 DEF Ids!RunHandler, Ids!Ids
    <3> QED
      BY <3>2 DEF Ids!IdsNext
  <2> QED
    BY <1>7, <2>1, <2>2 DEF Handler, Trapped, SigSys, Unexpected, DirectCall, HandlerReturns
<1>8. CASE UNCHANGED registryVars
  BY <1>1, <1>8 DEF registryVars, arrayVars, handlerVars
<1> QED
  BY <1>2, <1>3, <1>4, <1>5, <1>6, <1>7, <1>8 DEF RegistryNext, Handler

(* The registry keeps what it promises the compiler of policies: identifiers *)
(* stay what they were, and a trap runs the function of its identifier.      *)
THEOREM RegistryKeepsIds == RegistrySpec => KeepsIds
  BY InitArray, ArrayStep, InitIds, IdsStep, PTL DEF RegistrySpec, KeepsIds, Ids!IdsSpec

-----------------------------------------------------------------------------
(* The mask tells of the stack: SIGBUS is blocked where the function of an   *)
(* unsafe trap runs further out, and nowhere else.                           *)
UnsafeRuns(stack, n) == \E j \in 1..n : stack[j].running /\ stack[j].trap \notin Safe

MaskTells ==
  /\ sigbus => UnsafeRuns(frames, Len(frames))
  /\ \A i \in 1..Len(frames) : frames[i].blocked => UnsafeRuns(frames, i - 1)

LEMMA InitMask == RegistryInit => MaskTells
  BY EmptySeq DEF RegistryInit, MaskTells

LEMMA MaskStep == ArrayInv /\ MaskTells /\ [RegistryNext]_registryVars => MaskTells'
<1> SUFFICES ASSUME ArrayInv, MaskTells, [RegistryNext]_registryVars PROVE MaskTells'
  OBVIOUS
<1>0. frames \in Seq(Frame) /\ RegistryTypeOK /\ Len(frames) \in Nat
  BY DEF ArrayInv, RegistryTypeOK
<1>1. CASE UNCHANGED <<frames, sigbus>>
  BY <1>1 DEF MaskTells, UnsafeRuns
<1>2. ASSUME NEW id \in 0..(trap_array_size + 1), Trapped(id) PROVE MaskTells'
  <2> DEFINE frame == [id |-> id, blocked |-> sigbus, running |-> FALSE, array |-> 0, trap |-> NoKey]
  <2>1. frames' = Append(frames, frame) /\ sigbus' = sigbus
    BY <1>2 DEF Trapped
  <2>2. frame \in Frame /\ frame.blocked = sigbus
    BY <1>0 DEF Frame, Entries, RegistryTypeOK
  <2> HIDE DEF frame
  <2>3. /\ Len(frames') = Len(frames) + 1 /\ frames'[Len(frames) + 1] = frame
        /\ \A i \in 1..Len(frames) : frames'[i] = frames[i]
    BY <1>0, <2>1, <2>2, AppendProperties
  <2>4. \A i \in 0..Len(frames) : UnsafeRuns(frames, i) => UnsafeRuns(frames', i)
    BY <1>0, <2>3 DEF UnsafeRuns
  <2>5. sigbus => UnsafeRuns(frames', Len(frames)) /\ UnsafeRuns(frames', Len(frames'))
    BY <1>0, <2>3, <2>4 DEF MaskTells, UnsafeRuns
  <2>6. ASSUME NEW i \in 1..Len(frames'), frames'[i].blocked PROVE UnsafeRuns(frames', i - 1)
    <3>1. CASE i = Len(frames) + 1
      BY <1>0, <2>2, <2>3, <2>5, <2>6, <3>1
    <3>2. CASE i \in 1..Len(frames)
      BY <1>0, <2>3, <2>4, <2>6, <3>2 DEF MaskTells
    <3> QED
      BY <1>0, <2>3, <3>1, <3>2
  <2> QED
    BY <2>1, <2>5, <2>6 DEF MaskTells
<1>3. ASSUME frames # <<>>, frames' = Without,
             sigbus' => UnsafeRuns(frames, Len(frames) - 1)
      PROVE MaskTells'
  <2>1. /\ Len(frames) \in Nat \ {0} /\ Len(frames') = Len(frames) - 1
        /\ \A i \in 1..(Len(frames) - 1) : frames'[i] = frames[i]
    BY <1>0, <1>3, FramesOnTop
  <2>2. \A i \in 0..(Len(frames) - 1) : UnsafeRuns(frames, i) => UnsafeRuns(frames', i)
    BY <2>1 DEF UnsafeRuns
  <2> QED
    BY <1>3, <2>1, <2>2 DEF MaskTells
<1>4. ASSUME frames # <<>>, ~Innermost.running, sigbus PROVE UnsafeRuns(frames, Len(frames) - 1)
  <2>1. Len(frames) \in Nat \ {0} /\ ~frames[Len(frames)].running
    BY <1>0, <1>4, FramesOnTop
  <2>2. PICK j \in 1..Len(frames) : frames[j].running /\ frames[j].trap \notin Safe
    BY <1>4 DEF MaskTells, UnsafeRuns
  <2>3. j \in 1..(Len(frames) - 1)
    BY <2>1, <2>2
  <2> QED
    BY <2>2, <2>3 DEF UnsafeRuns
<1>5. CASE Unexpected \/ DirectCall
  BY <1>1, <1>3, <1>4, <1>5 DEF Unexpected, DirectCall, Entered, Handling, Program
<1>6. CASE HandlerReturns
  <2>1. frames # <<>> /\ frames' = Without /\ sigbus' = Innermost.blocked
    BY <1>6 DEF HandlerReturns, Handling, Program
  <2>2. Len(frames) \in Nat \ {0} /\ Innermost = frames[Len(frames)]
    BY <1>0, <2>1, FramesOnTop
  <2> QED
    BY <1>3, <2>1, <2>2 DEF MaskTells
<1>7. CASE CallFunction
  <2>1. frames # <<>> /\ ~Innermost.running /\ sigbus' = (sigbus \/ trap_array[Innermost.id] \notin Safe)
    BY <1>7 DEF CallFunction, Entered, Handling, Program
  <2>2. PICK frame \in Frame :
          /\ frames' = Append(Without, frame) /\ frame.trap = trap_array[Innermost.id]
          /\ frame.blocked = Innermost.blocked /\ frame.running
    BY <1>0, <1>7, Calls
  <2>3. /\ Without \in Seq(Frame) /\ Len(Without) = Len(frames) - 1 /\ Len(frames) \in Nat \ {0}
        /\ \A i \in 1..(Len(frames) - 1) : Without[i] = frames[i]
        /\ Innermost = frames[Len(frames)]
    BY <1>0, <2>1, FramesOnTop
  <2>4. /\ Len(frames') = Len(frames) /\ frames'[Len(frames)] = frame
        /\ \A i \in 1..(Len(frames) - 1) : frames'[i] = frames[i]
    BY <2>2, <2>3, AppendProperties
  <2>5. \A i \in 0..(Len(frames) - 1) : UnsafeRuns(frames, i) => UnsafeRuns(frames', i)
    BY <2>3, <2>4, SMTT(20) DEF UnsafeRuns
  <2>6. ASSUME sigbus' PROVE UnsafeRuns(frames', Len(frames'))
    <3>1. CASE sigbus
      BY <1>4, <2>1, <2>3, <2>4, <2>5, <3>1 DEF UnsafeRuns
    <3>2. CASE trap_array[Innermost.id] \notin Safe
      BY <2>2, <2>3, <2>4, <3>2 DEF UnsafeRuns
    <3> QED
      BY <2>1, <2>6, <3>1, <3>2
  <2>7. ASSUME NEW i \in 1..Len(frames'), frames'[i].blocked PROVE UnsafeRuns(frames', i - 1)
    <3>1. frames[i].blocked
      BY <2>2, <2>3, <2>4, <2>7
    <3>2. UnsafeRuns(frames, i - 1) /\ i - 1 \in 0..(Len(frames) - 1)
      BY <2>3, <2>4, <3>1 DEF MaskTells
    <3> QED
      BY <2>5, <3>2
  <2> QED
    BY <2>6, <2>7 DEF MaskTells
<1>8. ASSUME \/ \E k \in Keys : Add(k)
             \/ Allocate \/ CopyEntries \/ SwitchArray \/ DeleteArray \/ Remember \/ Store
             \/ AddReturns \/ EnableUnsafeTraps \/ UNCHANGED registryVars
      PROVE UNCHANGED <<frames, sigbus>>
  BY <1>8 DEF Add, Allocate, CopyEntries, SwitchArray, DeleteArray, Remember, Store, AddReturns,
              EnableUnsafeTraps, registryVars, handlerVars
<1> QED
  BY <1>1, <1>2, <1>5, <1>6, <1>7, <1>8 DEF RegistryNext, SigSys

(* A system call that was denied is made after all only where the function   *)
(* of an unsafe trap runs: the mask that a handler tests is the one that an  *)
(* unsafe trap has set.                                                      *)
THEOREM DirectCallsInUnsafeTraps == RegistrySpec => DirectOnlyInUnsafe
<1>1. ASSUME ArrayInv, MaskTells, DirectCall
      PROVE  \E i \in 1..(Len(frames) - 1) : frames[i].running /\ frames[i].trap \notin Safe
  <2>1. frames # <<>> /\ Innermost.blocked
    BY <1>1 DEF DirectCall, Entered, Handling, Program, Nested
  <2>2. Len(frames) \in Nat \ {0} /\ Innermost = frames[Len(frames)]
    BY <1>1, <2>1, FramesOnTop DEF ArrayInv, RegistryTypeOK
  <2> QED
    BY <1>1, <2>1, <2>2 DEF MaskTells, UnsafeRuns
<1>2. ArrayInv /\ MaskTells =>
        [DirectCall => \E i \in 1..(Len(frames) - 1) :
           frames[i].running /\ frames[i].trap \notin Safe]_registryVars
  BY <1>1
<1> QED
  BY <1>2, InitArray, ArrayStep, InitMask, MaskStep, PTL DEF RegistrySpec, DirectOnlyInUnsafe

-----------------------------------------------------------------------------
(* The assembler, from here on.                                              *)

(* A function given by its values.                                           *)
On(f, S) == f = [x \in S |-> f[x]]
Agree(f, g, S) == \A x \in S : f[x] = g[x]

LEMMA Into ==
  ASSUME NEW S, NEW V, NEW f, On(f, S), \A x \in S : f[x] \in V
  PROVE  f \in [S -> V]
  BY DEF On

LEMMA SameFunction ==
  ASSUME NEW S, NEW f, NEW g, On(f, S), On(g, S), Agree(f, g, S)
  PROVE  f = g
  BY DEF On, Agree

LEMMA LeastNumber ==
  ASSUME NEW T \in SUBSET Nat, T # {}
  PROVE  \E x \in T : \A y \in T : x <= y
<1> DEFINE R == OpToRel(<, Nat)
<1>1. IsWellFoundedOn(R, Nat)
  BY NatLessThanWellFounded
<1>2. \A x, y \in Nat : y < x => <<y, x>> \in R
  BY DEF OpToRel
<1> HIDE DEF R
<1>3. PICK x \in T : \A y \in T : ~(<<y, x>> \in R)
  BY <1>1, WFMin
<1>4. ASSUME NEW y \in T PROVE x <= y
  <2>1. x \in Nat /\ y \in Nat /\ ~(y < x)
    BY <1>2, <1>3
  <2> QED
    BY <2>1
<1> QED
  BY <1>4

(* Induction over an initial segment of the numbers.                         *)
LEMMA Segment ==
  ASSUME NEW n \in Nat, NEW G \in SUBSET (0..n), 0 \in G,
         \A i \in 0..n : i > 0 /\ i - 1 \in G => i \in G
  PROVE  G = 0..n
<1> SUFFICES ASSUME (0..n) \ G # {} PROVE FALSE
  OBVIOUS
<1>1. PICK x \in (0..n) \ G : \A y \in (0..n) \ G : x <= y
  <2>1. (0..n) \ G \in SUBSET Nat
    OBVIOUS
  <2> QED
    BY <2>1, LeastNumber
<1>2. x > 0 /\ x - 1 \in 0..n
  BY <1>1
<1>3. x - 1 \in G
  BY <1>1, <1>2
<1> QED
  BY <1>1, <1>2, <1>3

(* A function by recursion over all smaller numbers: step says what it is at *)
(* a number from what a function is below that number.                       *)
LooksBack(step, n, X) ==
  \A i \in 0..n : \A f, g \in [0..n -> X] :
    (\A j \in 0..n : j < i => f[j] = g[j]) => step[<<i, f>>] = step[<<i, g>>]

Follows(f, step, n) == \A i \in 0..n : f[i] = step[<<i, f>>]

LEMMA Courses ==
  ASSUME NEW n \in Nat, NEW X, X # {}, NEW step \in [(0..n) \X [0..n -> X] -> X],
         LooksBack(step, n, X)
  PROVE  \E f \in [0..n -> X] : Follows(f, step, n)
<1> USE DEF LooksBack, Follows
<1> DEFINE Upto(f, k) == \A i \in 0..n : i <= k => f[i] = step[<<i, f>>]
           G == {k \in 0..n : \E f \in [0..n -> X] : Upto(f, k)}
<1>1. ASSUME NEW f \in [0..n -> X], NEW k \in 0..n, \A i \in 0..n : i < k => f[i] = step[<<i, f>>]
      PROVE  k \in G
  <2> DEFINE g == [i \in 0..n |-> IF i = k THEN step[<<k, f>>] ELSE f[i]]
  <2>1. step[<<k, f>>] \in X
    OBVIOUS
  <2>2. g \in [0..n -> X]
    BY <2>1
  <2>3. \A i \in 0..n : i < k => g[i] = f[i]
    OBVIOUS
  <2>4. g[k] = step[<<k, f>>]
    OBVIOUS
  <2> HIDE DEF g
  <2>5. ASSUME NEW i \in 0..n, i <= k PROVE g[i] = step[<<i, g>>]
    <3>1. \A j \in 0..n : j < i => f[j] = g[j]
      BY <2>3, <2>5
    <3>2. step[<<i, f>>] = step[<<i, g>>]
      BY <2>2, <3>1
    <3>3. g[i] = step[<<i, f>>]
      <4>1. CASE i = k
        BY <2>4, <4>1
      <4>2. CASE i < k
        BY <1>1, <2>3, <4>2
      <4> QED
        BY <2>5, <4>1, <4>2
    <3> QED
      BY <3>2, <3>3
  <2> QED
    BY <2>2, <2>5
<1>2. PICK x \in X : TRUE
  OBVIOUS
<1>3. 0 \in G
  <2> DEFINE f == [i \in 0..n |-> x]
  <2>1. f \in [0..n -> X] /\ 0 \in 0..n
    OBVIOUS
  <2>2. \A i \in 0..n : ~(i < 0)
    OBVIOUS
  <2> HIDE DEF f, G
  <2> QED
    BY <1>1, <2>1, <2>2
<1>4. ASSUME NEW k \in 0..n, k > 0, k - 1 \in G PROVE k \in G
  <2>1. PICK f \in [0..n -> X] : Upto(f, k - 1)
    BY <1>4
  <2>2. \A i \in 0..n : i < k => f[i] = step[<<i, f>>]
    BY <2>1
  <2> HIDE DEF G
  <2> QED
    BY <1>1, <2>2
<1>5. n \in G
  <2>1. G \in SUBSET (0..n)
    OBVIOUS
  <2> HIDE DEF G
  <2>2. G = 0..n
    BY <1>3, <1>4, <2>1, Segment
  <2> QED
    BY <2>2
<1>6. PICK f \in [0..n -> X] : Upto(f, n)
  BY <1>5
<1> QED
  BY <1>6

-----------------------------------------------------------------------------
(* Words.                                                                    *)
LEMMA PowerFacts ==
  /\ Power \in [0..WordBits -> Nat] /\ Power[0] = 1
  /\ \A i \in 1..WordBits : Power[i] = 2 * Power[i - 1]
  /\ \A i \in 0..WordBits : Power[i] >= 1
  /\ Top \in Nat /\ Top >= 2
<1> DEFINE n == WordBits
           step == [p \in (0..n) \X [0..n -> Nat] |-> IF p[1] = 0 THEN 1 ELSE 2 * p[2][p[1] - 1]]
<1>0. n \in Nat /\ n >= 1
  BY CodeGenAssumption
<1>1. \A i \in 0..n, f \in [0..n -> Nat] : step[<<i, f>>] = IF i = 0 THEN 1 ELSE 2 * f[i - 1]
  OBVIOUS
<1>2. \A i \in 0..n : i # 0 => i - 1 \in 0..n /\ i - 1 < i
  BY <1>0
<1>3. step \in [(0..n) \X [0..n -> Nat] -> Nat]
  <2>1. ASSUME NEW p \in (0..n) \X [0..n -> Nat]
        PROVE  (IF p[1] = 0 THEN 1 ELSE 2 * p[2][p[1] - 1]) \in Nat
    <3>1. p[1] \in 0..n /\ p[2] \in [0..n -> Nat]
      OBVIOUS
    <3>2. p[1] # 0 => p[2][p[1] - 1] \in Nat
      BY <1>2, <3>1
    <3> QED
      BY <3>2
  <2> QED
    BY <2>1
<1> HIDE DEF step, n
<1>4. LooksBack(step, n, Nat)
  <2> SUFFICES ASSUME NEW i \in 0..n, NEW f \in [0..n -> Nat], NEW g \in [0..n -> Nat],
                      \A j \in 0..n : j < i => f[j] = g[j]
               PROVE  step[<<i, f>>] = step[<<i, g>>]
    BY DEF LooksBack
  <2>1. i # 0 => f[i - 1] = g[i - 1]
    BY <1>2
  <2>2. step[<<i, f>>] = IF i = 0 THEN 1 ELSE 2 * f[i - 1]
    BY <1>1
  <2>3. step[<<i, g>>] = IF i = 0 THEN 1 ELSE 2 * g[i - 1]
    BY <1>1
  <2> QED
    BY <2>1, <2>2, <2>3
<1>5. PICK f \in [0..n -> Nat] : Follows(f, step, n)
  <2>1. Nat # {}
    OBVIOUS
  <2> QED
    BY <1>0, <1>3, <1>4, <2>1, Courses
<1>6. f = [i \in 0..n |-> IF i = 0 THEN 1 ELSE 2 * f[i - 1]]
  BY <1>1, <1>5 DEF Follows
<1>7. Power = [i \in 0..n |-> IF i = 0 THEN 1 ELSE 2 * Power[i - 1]]
  BY <1>6 DEF Power, n
<1>8. 0 \in 0..n /\ n \in 0..n
  BY <1>0
<1>9. \A i \in 0..n : Power[i] = IF i = 0 THEN 1 ELSE 2 * Power[i - 1]
  BY <1>7
<1> DEFINE G == {i \in 0..n : Power[i] \in Nat /\ Power[i] >= 1 /\ (i > 0 => Power[i] >= 2)}
<1>10. 0 \in G
  BY <1>8, <1>9
<1>11. ASSUME NEW i \in 0..n, i > 0, i - 1 \in G PROVE i \in G
  <2>1. Power[i] = 2 * Power[i - 1] /\ Power[i - 1] \in Nat /\ Power[i - 1] >= 1
    BY <1>9, <1>11
  <2> QED
    BY <2>1
<1>12. G = 0..n
  <2>1. G \in SUBSET (0..n)
    OBVIOUS
  <2> HIDE DEF G
  <2> QED
    BY <1>0, <1>10, <1>11, <2>1, Segment
<1>13. \A i \in 0..n : Power[i] \in Nat /\ Power[i] >= 1 /\ (i > 0 => Power[i] >= 2)
  BY <1>12
<1>14. Power \in [0..n -> Nat]
  BY <1>7, <1>13
<1>15. Power[n] \in Nat /\ Power[n] >= 2
  BY <1>0, <1>8, <1>13
<1>16. \A i \in 1..n : i \in 0..n /\ i # 0
  BY <1>0
<1> QED
  BY <1>8, <1>9, <1>13, <1>14, <1>15, <1>16 DEF Top, n

(* A conjunction adds up the powers of the bits that both words have.        *)
Shared(a, b, i) == IF Bit(a, i - 1) /\ Bit(b, i - 1) THEN Power[i - 1] ELSE 0
Sums(a, b, sum) ==
  /\ sum[0] = 0 /\ BitAnd(a, b) = sum[WordBits]
  /\ \A i \in 1..WordBits : sum[i] = sum[i - 1] + Shared(a, b, i)

LEMMA ShareFacts ==
  ASSUME NEW a, NEW b, NEW i \in 1..WordBits
  PROVE  Shared(a, b, i) \in Nat /\ Shared(a, b, i) <= Power[i - 1] /\ Power[i - 1] \in Nat
<1>1. Power[i - 1] \in Nat
  BY PowerFacts, CodeGenAssumption
<1>2. Shared(a, b, i) = Power[i - 1] \/ Shared(a, b, i) = 0
  BY DEF Shared
<1> QED
  BY <1>1, <1>2

LEMMA BitAndSum ==
  ASSUME NEW a, NEW b
  PROVE  \E sum : Sums(a, b, sum)
<1> DEFINE n == WordBits
           Share(i) == Shared(a, b, i)
           share == [i \in 1..n |-> Share(i)]
           step == [p \in (0..n) \X [0..n -> Nat] |->
                      IF p[1] = 0 THEN 0 ELSE p[2][p[1] - 1] + share[p[1]]]
<1>0. n \in Nat
  BY CodeGenAssumption
<1>1. \A i \in 0..n : i # 0 => i - 1 \in 0..n /\ i - 1 < i /\ i \in 1..n
  BY <1>0
<1>2. \A i \in 1..n : share[i] \in Nat
  BY ShareFacts
<1>3. \A i \in 1..n : share[i] = Share(i)
  OBVIOUS
<1> HIDE DEF share
<1>4. \A i \in 0..n, f \in [0..n -> Nat] :
        step[<<i, f>>] = IF i = 0 THEN 0 ELSE f[i - 1] + share[i]
  OBVIOUS
<1>5. step \in [(0..n) \X [0..n -> Nat] -> Nat]
  <2>1. ASSUME NEW p \in (0..n) \X [0..n -> Nat]
        PROVE  (IF p[1] = 0 THEN 0 ELSE p[2][p[1] - 1] + share[p[1]]) \in Nat
    <3>1. p[1] \in 0..n /\ p[2] \in [0..n -> Nat]
      OBVIOUS
    <3>2. p[1] # 0 => p[2][p[1] - 1] \in Nat /\ share[p[1]] \in Nat
      BY <1>1, <1>2, <3>1
    <3> QED
      BY <3>2
  <2> QED
    BY <2>1
<1> HIDE DEF step, n
<1>6. LooksBack(step, n, Nat)
  <2> SUFFICES ASSUME NEW i \in 0..n, NEW f \in [0..n -> Nat], NEW g \in [0..n -> Nat],
                      \A j \in 0..n : j < i => f[j] = g[j]
               PROVE  step[<<i, f>>] = step[<<i, g>>]
    BY DEF LooksBack
  <2>1. i # 0 => f[i - 1] = g[i - 1]
    BY <1>1
  <2>2. step[<<i, f>>] = IF i = 0 THEN 0 ELSE f[i - 1] + share[i]
    BY <1>4
  <2>3. step[<<i, g>>] = IF i = 0 THEN 0 ELSE g[i - 1] + share[i]
    BY <1>4
  <2> QED
    BY <2>1, <2>2, <2>3
<1>7. PICK f \in [0..n -> Nat] : Follows(f, step, n)
  <2>1. Nat # {}
    OBVIOUS
  <2> QED
    BY <1>0, <1>5, <1>6, <2>1, Courses
<1>8. f = [i \in 0..n |-> IF i = 0 THEN 0 ELSE f[i - 1] + Share(i)]
  <2> HIDE DEF Share
  <2>1. ASSUME NEW i \in 0..n PROVE f[i] = IF i = 0 THEN 0 ELSE f[i - 1] + Share(i)
    <3>1. f[i] = IF i = 0 THEN 0 ELSE f[i - 1] + share[i]
      BY <1>4, <1>7 DEF Follows
    <3>2. i # 0 => share[i] = Share(i)
      BY <1>1, <1>3
    <3> QED
      BY <3>1, <3>2
  <2> QED
    BY <1>7, <2>1
<1> DEFINE sum == CHOOSE g : g = [i \in 0..n |-> IF i = 0 THEN 0 ELSE g[i - 1] + Share(i)]
<1>9. BitAnd(a, b) = sum[n]
  BY DEF BitAnd, Shared, n
<1> HIDE DEF Share
<1>10. sum = [i \in 0..n |-> IF i = 0 THEN 0 ELSE sum[i - 1] + Share(i)]
  BY <1>8
<1> HIDE DEF sum
<1>11. \A i \in 0..n : sum[i] = IF i = 0 THEN 0 ELSE sum[i - 1] + share[i]
  BY <1>1, <1>3, <1>10
<1>12. \A i \in 1..n : i \in 0..n /\ i # 0 /\ share[i] = Share(i)
  BY <1>0, <1>3
<1>13. 0 \in 0..n
  BY <1>0
<1>14. sum[0] = 0 /\ \A i \in 1..n : sum[i] = sum[i - 1] + Share(i)
  BY <1>11, <1>12, <1>13
<1> QED
  BY <1>9, <1>14 DEF Sums, Share, n

LEMMA BitAndFacts == \A a, b : BitAnd(a, b) \in Word
<1> SUFFICES ASSUME NEW a, NEW b PROVE BitAnd(a, b) \in Word
  OBVIOUS
<1> DEFINE n == WordBits
<1>0. n \in Nat /\ 0 \in 0..n /\ n \in 0..n
  BY CodeGenAssumption
<1>1. PICK sum : Sums(a, b, sum)
  BY BitAndSum
<1> DEFINE G == {i \in 0..n : sum[i] \in Nat /\ sum[i] < Power[i]}
<1>2. 0 \in G
  BY <1>0, <1>1, PowerFacts DEF Sums
<1>3. ASSUME NEW i \in 0..n, i > 0, i - 1 \in G PROVE i \in G
  <2>1. i \in 1..n
    BY <1>0, <1>3
  <2>2. sum[i] = sum[i - 1] + Shared(a, b, i) /\ sum[i - 1] \in Nat /\ sum[i - 1] < Power[i - 1]
    BY <1>1, <1>3, <2>1 DEF Sums
  <2>3. Shared(a, b, i) \in Nat /\ Shared(a, b, i) <= Power[i - 1] /\ Power[i - 1] \in Nat
    BY <2>1, ShareFacts
  <2>4. Power[i] = 2 * Power[i - 1]
    BY <2>1, PowerFacts
  <2>5. sum[i] \in Nat /\ sum[i] < Power[i]
    BY <2>2, <2>3, <2>4
  <2> QED
    BY <2>5
<1>4. n \in G
  <2>1. G \in SUBSET (0..n)
    OBVIOUS
  <2> HIDE DEF G
  <2>2. G = 0..n
    BY <1>0, <1>2, <1>3, <2>1, Segment
  <2> QED
    BY <1>0, <2>2
<1>5. sum[n] \in Nat /\ sum[n] < Top
  BY <1>4 DEF Top
<1> QED
  BY <1>1, <1>5, PowerFacts DEF Word, Sums

-----------------------------------------------------------------------------
(* The machine.                                                              *)
Codes == {"RET", "LD", "AND", "JA"} \union Branches

(* What the free caller asks for, and what the compiler does.                *)
AllReturns == Returns \union ({"ALLOW", "ERRNO", "KILL", "TRACE", "TRAP"} \X Nat)
AllSteps == ({"LD"} \X Fields) \union ({"AND"} \X Word)
AllTests == Branches \X Word
Insns ==
  {insn \in [code : Codes, k : AllReturns \union Fields \union Nat, jt : Nat, jf : Nat] :
     (insn.code = "LD" => insn.k \in Fields) /\ (insn.code = "JA" => insn.k \in Nat)}
Datas == [Fields -> Word]

LEMMA InsnFacts ==
  ASSUME NEW program \in Seq(Insns), NEW ip \in 1..Len(program)
  PROVE  /\ program[ip] \in Insns /\ program[ip].code \in Codes
         /\ program[ip].jt \in Nat /\ program[ip].jf \in Nat
         /\ program[ip].code = "LD" => program[ip].k \in Fields
         /\ program[ip].code = "JA" => program[ip].k \in Nat
<1>1. program[ip] \in Insns
  OBVIOUS
<1> QED
  BY <1>1 DEF Insns

LEMMA AccFacts ==
  /\ Word \subseteq 0..Top /\ NoAccumulator \in 0..Top /\ NoAccumulator \notin Word /\ Top \in Nat
  /\ \A data \in Datas, field \in Fields : data[field] \in 0..Top
  /\ \A acc \in 0..Top : \A k : Masked(acc, k) \in 0..Top
<1>1. Word \subseteq 0..Top /\ NoAccumulator \in 0..Top /\ NoAccumulator \notin Word /\ Top \in Nat
  BY PowerFacts DEF Word, NoAccumulator
<1> QED
  BY <1>1, BitAndFacts DEF Datas, Masked

(* What a jump finds: a result behind the instruction, or nothing.           *)
Landing(after, ip, distance, acc) ==
  IF distance + 1 >= ip THEN Invalid ELSE after[ip - 1 - distance][acc]

LEMMA ExecutedAt ==
  ASSUME NEW program, NEW data, NEW after, NEW ip \in Nat, NEW acc \in 0..Top
  PROVE  LET here == Executed(program, data, after, ip)[acc]
             insn == program[ip]
         IN  /\ ip = 0 => here = Invalid
             /\ ip > 0 /\ insn.code = "RET" => here = insn.k
             /\ ip > 0 /\ insn.code = "LD" => here = after[ip - 1][data[insn.k]]
             /\ ip > 0 /\ insn.code = "AND" => here = after[ip - 1][Masked(acc, insn.k)]
             /\ ip > 0 /\ insn.code = "JA" => here = Landing(after, ip, insn.k, acc)
             /\ ip > 0 /\ insn.code \in Branches /\ Refused(insn, ip, acc) => here = Invalid
             /\ ip > 0 /\ insn.code \in Branches /\ ~Refused(insn, ip, acc) =>
                  here = Landing(after, ip,
                           IF Taken(insn.code, insn.k, acc) THEN insn.jt ELSE insn.jf, acc)
<1> DEFINE here == Executed(program, data, after, ip)[acc]
           insn == program[ip]
           distance == IF Taken(insn.code, insn.k, acc) THEN insn.jt ELSE insn.jf
<1>1. /\ ip = 0 => here = Invalid
      /\ ip > 0 /\ insn.code = "RET" => here = insn.k
      /\ ip > 0 /\ insn.code = "LD" => here = after[ip - 1][data[insn.k]]
      /\ ip > 0 /\ insn.code = "AND" => here = after[ip - 1][Masked(acc, insn.k)]
      /\ ip > 0 /\ insn.code = "JA" => here = Landing(after, ip, insn.k, acc)
      /\ ip > 0 /\ insn.code \in Branches /\ Refused(insn, ip, acc) => here = Invalid
      /\ ip > 0 /\ insn.code \in Branches /\ ~Refused(insn, ip, acc) =>
           here = after[ip - 1 - distance][acc]
  <2> DEFINE code == insn.code
             behind == ip > 0
             loaded == after[ip - 1][data[insn.k]]
             masked == after[ip - 1][Masked(acc, insn.k)]
             jumped == IF insn.k + 1 >= ip THEN Invalid ELSE after[ip - 1 - insn.k][acc]
             refused == Refused(insn, ip, acc)
             taken == after[ip - 1 - distance][acc]
  <2>1. here = CASE ip = 0 -> Invalid
                 [] behind /\ code = "RET" -> insn.k
                 [] behind /\ code = "LD" -> loaded
                 [] behind /\ code = "AND" -> masked
                 [] behind /\ code = "JA" -> jumped
                 [] behind /\ code \in Branches -> IF refused THEN Invalid ELSE taken
    BY Zenon DEF Executed
  <2>2. ip = 0 <=> ~behind
    OBVIOUS
  <2> HIDE DEF here, insn, distance, code, behind, loaded, masked, jumped, refused, taken
  <2>3. ip = 0 => here = Invalid
    BY <2>1, <2>2
  <2>4. behind /\ code = "RET" => here = insn.k
    BY <2>1, <2>2 DEF Branches
  <2>5. behind /\ code = "LD" => here = loaded
    BY <2>1, <2>2 DEF Branches
  <2>6. behind /\ code = "AND" => here = masked
    BY <2>1, <2>2 DEF Branches
  <2>7. behind /\ code = "JA" => here = jumped
    BY <2>1, <2>2 DEF Branches
  <2>8. behind /\ code \in Branches => here = IF refused THEN Invalid ELSE taken
    BY <2>1, <2>2 DEF Branches
  <2>9. jumped = Landing(after, ip, insn.k, acc)
    BY DEF jumped, Landing
  <2> QED
    BY <2>3, <2>4, <2>5, <2>6, <2>7, <2>8, <2>9
    DEF code, behind, loaded, masked, refused, taken
<1>2. ~Refused(insn, ip, acc) => Landing(after, ip, distance, acc) = after[ip - 1 - distance][acc]
  BY DEF Refused, Landing
<1> HIDE DEF here
<1> QED
  BY <1>1, <1>2 DEF here

LEMMA ExecutedFunction ==
  ASSUME NEW program, NEW data, NEW after, NEW ip
  PROVE  On(Executed(program, data, after, ip), 0..Top)
<1> DEFINE E(acc) ==
     LET insn == program[ip]
     IN  CASE ip = 0 -> Invalid
           [] ip > 0 /\ insn.code = "RET" -> insn.k
           [] ip > 0 /\ insn.code = "LD" -> after[ip - 1][data[insn.k]]
           [] ip > 0 /\ insn.code = "AND" -> after[ip - 1][Masked(acc, insn.k)]
           [] ip > 0 /\ insn.code = "JA" ->
                IF insn.k + 1 >= ip THEN Invalid ELSE after[ip - 1 - insn.k][acc]
           [] ip > 0 /\ insn.code \in Branches ->
                IF Refused(insn, ip, acc) THEN Invalid
                ELSE after[ip - 1 - (IF Taken(insn.code, insn.k, acc) THEN insn.jt ELSE insn.jf)][acc]
<1>1. Executed(program, data, after, ip) = [acc \in 0..Top |-> E(acc)]
  BY DEF Executed
<1> HIDE DEF E
<1> QED
  BY <1>1 DEF On

LEMMA ExecutedAnd ==
  ASSUME NEW program, NEW data, NEW after, NEW ip \in Nat, NEW acc \in 0..Top,
         ip > 0, program[ip].code = "AND"
  PROVE  Executed(program, data, after, ip)[acc] = after[ip - 1][Masked(acc, program[ip].k)]
  BY ExecutedAt

LEMMA ExecutedTyped ==
  ASSUME NEW program \in Seq(Insns), NEW data \in Datas, NEW ip \in 0..Len(program),
         NEW V, Invalid \in V, \A i \in 1..Len(program) : program[i].k \in V,
         NEW after \in [0..Len(program) -> [0..Top -> V]]
  PROVE  Executed(program, data, after, ip) \in [0..Top -> V]
<1> DEFINE here == Executed(program, data, after, ip)
<1>1. \A i \in 0..Len(program), acc \in 0..Top : after[i][acc] \in V
  OBVIOUS
<1>2. On(here, 0..Top)
  BY ExecutedFunction
<1>3. ASSUME NEW acc \in 0..Top PROVE here[acc] \in V
  <2>1. Len(program) \in Nat /\ ip \in Nat
    OBVIOUS
  <2>2. CASE ip = 0
    BY <2>1, <2>2, ExecutedAt
  <2>3. CASE ip > 0
    <3> DEFINE insn == program[ip]
    <3>0. ip \in 1..Len(program) /\ ip - 1 \in 0..Len(program)
      BY <2>1, <2>3
    <3>1. insn.code \in Codes /\ insn.jt \in Nat /\ insn.jf \in Nat
          /\ (insn.code = "LD" => insn.k \in Fields) /\ (insn.code = "JA" => insn.k \in Nat)
      BY <3>0, InsnFacts
    <3>2. \A distance \in Nat : Landing(after, ip, distance, acc) \in V
      <4>1. \A distance \in Nat : ~(distance + 1 >= ip) => ip - 1 - distance \in 0..Len(program)
        BY <2>1
      <4> QED
        BY <1>1, <4>1 DEF Landing
    <3> HIDE DEF here, insn
    <3>3. CASE insn.code = "RET"
      <4>1. here = here /\ here[acc] = insn.k
        BY <2>1, <2>3, <3>3, ExecutedAt DEF here, insn
      <4> QED
        BY <3>0, <4>1 DEF insn
    <3>4. CASE insn.code = "LD"
      <4>1. here[acc] = after[ip - 1][data[insn.k]]
        BY <2>1, <2>3, <3>4, ExecutedAt DEF here, insn
      <4> QED
        BY <1>1, <3>0, <3>1, <3>4, <4>1, AccFacts
    <3>5. CASE insn.code = "AND"
      <4>1. here[acc] = after[ip - 1][Masked(acc, insn.k)]
        BY <2>1, <2>3, <3>5, ExecutedAnd DEF here, insn
      <4> QED
        BY <1>1, <3>0, <3>1, <4>1, AccFacts
    <3>6. CASE insn.code = "JA"
      <4>1. here[acc] = Landing(after, ip, insn.k, acc)
        BY <2>1, <2>3, <3>6, ExecutedAt DEF here, insn
      <4> QED
        BY <3>1, <3>2, <3>6, <4>1
    <3>7. CASE insn.code \in Branches
      <4>1. \/ here[acc] = Invalid
            \/ here[acc] = Landing(after, ip,
                             IF Taken(insn.code, insn.k, acc) THEN insn.jt ELSE insn.jf, acc)
        BY <2>1, <2>3, <3>7, ExecutedAt DEF here, insn
      <4> QED
        BY <3>1, <3>2, <4>1
    <3> QED
      BY <3>1, <3>3, <3>4, <3>5, <3>6, <3>7 DEF Codes
  <2> QED
    BY <2>1, <2>2, <2>3
<1> HIDE DEF here
<1>4. here \in [0..Top -> V]
  BY <1>2, <1>3, Into
<1> QED
  BY <1>4 DEF here

(* Nothing but what is behind an instruction decides what it does.           *)
LEMMA ExecutedBack ==
  ASSUME NEW program, NEW longer, NEW data, NEW ip \in Nat, NEW after, NEW other,
         ip > 0 => longer[ip] = program[ip],
         ip > 0 => /\ program[ip].code \in Codes
                   /\ program[ip].jt \in Nat /\ program[ip].jf \in Nat
                   /\ (program[ip].code = "JA" => program[ip].k \in Nat),
         \A j \in Nat : j < ip => after[j] = other[j]
  PROVE  Executed(longer, data, after, ip) = Executed(program, data, other, ip)
<1> DEFINE left == Executed(longer, data, after, ip)
           right == Executed(program, data, other, ip)
           insn == program[ip]
<1>1. On(left, 0..Top) /\ On(right, 0..Top)
  BY ExecutedFunction
<1>2. ASSUME NEW acc \in 0..Top PROVE left[acc] = right[acc]
  <2>1. CASE ip = 0
    BY <2>1, ExecutedAt
  <2>2. CASE ip > 0
    <3>0. ip - 1 \in Nat /\ ip - 1 < ip /\ longer[ip] = insn
      BY <2>2
    <3>1. after[ip - 1] = other[ip - 1]
      BY <3>0
    <3>2. \A distance \in Nat : Landing(after, ip, distance, acc) = Landing(other, ip, distance, acc)
      <4>1. \A distance \in Nat : ~(distance + 1 >= ip) => ip - 1 - distance \in Nat /\ ip - 1 - distance < ip
        OBVIOUS
      <4> QED
        BY <4>1 DEF Landing
    <3>3. insn.code \in Codes /\ insn.jt \in Nat /\ insn.jf \in Nat /\ (insn.code = "JA" => insn.k \in Nat)
      BY <2>2
    <3> HIDE DEF left, right, insn
    <3>4. CASE insn.code = "RET"
      BY <2>2, <3>0, <3>4, ExecutedAt DEF left, right, insn
    <3>5. CASE insn.code = "LD"
      BY <2>2, <3>0, <3>1, <3>5, ExecutedAt DEF left, right, insn
    <3>6. CASE insn.code = "AND"
      BY <2>2, <3>0, <3>1, <3>6, ExecutedAt DEF left, right, insn
    <3>7. CASE insn.code = "JA"
      <4>1. left[acc] = Landing(after, ip, insn.k, acc)
        BY <2>2, <3>0, <3>7, ExecutedAt DEF left, insn
      <4>2. right[acc] = Landing(other, ip, insn.k, acc)
        BY <2>2, <3>7, ExecutedAt DEF right, insn
      <4> QED
        BY <3>2, <3>3, <3>7, <4>1, <4>2
    <3>8. CASE insn.code \in Branches /\ Refused(insn, ip, acc)
      BY <2>2, <3>0, <3>8, ExecutedAt DEF left, right, insn
    <3>9. CASE insn.code \in Branches /\ ~Refused(insn, ip, acc)
      <4> DEFINE distance == IF Taken(insn.code, insn.k, acc) THEN insn.jt ELSE insn.jf
      <4>1. left[acc] = Landing(after, ip, distance, acc)
        BY <2>2, <3>0, <3>9, ExecutedAt DEF left, insn
      <4>2. right[acc] = Landing(other, ip, distance, acc)
        BY <2>2, <3>9, ExecutedAt DEF right, insn
      <4>3. distance \in Nat
        BY <3>3
      <4> HIDE DEF distance
      <4> QED
        BY <3>2, <4>1, <4>2, <4>3
    <3> QED
      BY <3>3, <3>4, <3>5, <3>6, <3>7, <3>8, <3>9 DEF Codes
  <2> QED
    BY <2>1, <2>2
<1> HIDE DEF left, right
<1>3. Agree(left, right, 0..Top)
  BY <1>2 DEF Agree
<1>4. left = right
  BY <1>1, <1>3, SameFunction
<1> QED
  BY <1>4 DEF left, right

LEMMA ResultsFacts ==
  ASSUME NEW program \in Seq(Insns), NEW data \in Datas
  PROVE  LET results == Results(program, data) IN
         results = [ip \in 0..Len(program) |-> Executed(program, data, results, ip)]
<1> DEFINE n == Len(program)
           V == {Invalid} \union {program[i].k : i \in 1..n}
           X == [0..Top -> V]
           step == [p \in (0..n) \X [0..n -> X] |-> Executed(program, data, p[2], p[1])]
<1>0. n \in Nat
  OBVIOUS
<1>1. step \in [(0..n) \X [0..n -> X] -> X]
  <2>1. Invalid \in V /\ \A i \in 1..n : program[i].k \in V
    OBVIOUS
  <2> HIDE DEF V
  <2>2. ASSUME NEW p \in (0..n) \X [0..n -> X] PROVE Executed(program, data, p[2], p[1]) \in X
    <3>1. p[1] \in 0..n /\ p[2] \in [0..n -> X]
      OBVIOUS
    <3> QED
      BY <2>1, <3>1, ExecutedTyped
  <2> QED
    BY <2>2
<1>2. \A i \in 0..n, f \in [0..n -> X] : step[<<i, f>>] = Executed(program, data, f, i)
  OBVIOUS
<1>3. X # {}
  <2>1. [acc \in 0..Top |-> Invalid] \in X
    OBVIOUS
  <2> QED
    BY <2>1
<1> HIDE DEF step, X
<1>4. LooksBack(step, n, X)
  <2> SUFFICES ASSUME NEW i \in 0..n, NEW f \in [0..n -> X], NEW g \in [0..n -> X],
                      \A j \in 0..n : j < i => f[j] = g[j]
               PROVE  step[<<i, f>>] = step[<<i, g>>]
    BY DEF LooksBack
  <2>1. i \in Nat /\ \A j \in Nat : j < i => f[j] = g[j]
    BY <1>0
  <2>2. i > 0 => i \in 1..n
    BY <1>0
  <2>3. i > 0 => /\ program[i].code \in Codes /\ program[i].jt \in Nat /\ program[i].jf \in Nat
                 /\ (program[i].code = "JA" => program[i].k \in Nat)
    BY <2>2, InsnFacts
  <2>4. Executed(program, data, f, i) = Executed(program, data, g, i)
    BY <2>1, <2>3, ExecutedBack
  <2> QED
    BY <1>2, <2>4
<1>5. PICK f \in [0..n -> X] : Follows(f, step, n)
  BY <1>0, <1>1, <1>3, <1>4, Courses
<1>6. f = [ip \in 0..n |-> Executed(program, data, f, ip)]
  BY <1>2, <1>5 DEF Follows
<1> QED
  BY <1>6 DEF Results

LEMMA RowFacts ==
  ASSUME NEW program \in Seq(Insns), NEW data \in Datas, NEW ip \in 0..Len(program)
  PROVE  /\ Results(program, data)[ip] = Executed(program, data, Results(program, data), ip)
         /\ On(Results(program, data)[ip], 0..Top)
<1> DEFINE results == Results(program, data)
<1>1. results = [i \in 0..Len(program) |-> Executed(program, data, results, i)]
  BY ResultsFacts
<1> HIDE DEF results
<1>2. results[ip] = Executed(program, data, results, ip)
  BY <1>1
<1>3. On(results[ip], 0..Top)
  BY <1>2, ExecutedFunction
<1> QED
  BY <1>2, <1>3 DEF results

(* A program that grows keeps what its instructions do.                      *)
LEMMA ResultsKept ==
  ASSUME NEW program \in Seq(Insns), NEW insn \in Insns, NEW data \in Datas,
         NEW ip \in 0..Len(program)
  PROVE  Results(Append(program, insn), data)[ip] = Results(program, data)[ip]
<1> DEFINE n == Len(program)
           longer == Append(program, insn)
           after == Results(longer, data)
           other == Results(program, data)
           G == {i \in 0..n : \A j \in 0..i : after[j] = other[j]}
<1>0. n \in Nat /\ longer \in Seq(Insns) /\ Len(longer) = n + 1
      /\ \A i \in 1..n : longer[i] = program[i]
  OBVIOUS
<1>1. \A i \in 0..n : /\ after[i] = Executed(longer, data, after, i)
                      /\ other[i] = Executed(program, data, other, i)
  <2> SUFFICES ASSUME NEW i \in 0..n
               PROVE  /\ after[i] = Executed(longer, data, after, i)
                      /\ other[i] = Executed(program, data, other, i)
    OBVIOUS
  <2>1. i \in 0..Len(longer)
    BY <1>0
  <2>2. after[i] = Executed(longer, data, after, i)
    BY <1>0, <2>1, RowFacts
  <2> QED
    BY <2>2, RowFacts
<1>2. \A i \in 1..n : /\ program[i].code \in Codes
                      /\ program[i].jt \in Nat /\ program[i].jf \in Nat
                      /\ (program[i].code = "JA" => program[i].k \in Nat)
  BY InsnFacts
<1> HIDE DEF n, longer, after, other
<1>3. ASSUME NEW i \in 0..n, \A j \in Nat : j < i => after[j] = other[j]
      PROVE  after[i] = other[i]
  <2>1. i \in Nat /\ (i > 0 => i \in 1..n)
    BY <1>0
  <2>2. i > 0 => longer[i] = program[i]
    BY <1>0, <2>1
  <2>3. i > 0 => /\ program[i].code \in Codes
                 /\ program[i].jt \in Nat /\ program[i].jf \in Nat
                 /\ (program[i].code = "JA" => program[i].k \in Nat)
    BY <1>2, <2>1
  <2>4. Executed(longer, data, after, i) = Executed(program, data, other, i)
    BY <1>3, <2>1, <2>2, <2>3, ExecutedBack
  <2> QED
    BY <1>1, <2>4
<1>4. 0 \in G
  <2>1. 0 \in 0..n /\ \A j \in Nat : ~(j < 0)
    BY <1>0
  <2>2. after[0] = other[0]
    BY <1>3, <2>1
  <2> QED
    BY <2>1, <2>2
<1>5. ASSUME NEW i \in 0..n, i > 0, i - 1 \in G PROVE i \in G
  <2>1. \A j \in Nat : j < i => after[j] = other[j]
    BY <1>0, <1>5
  <2>2. after[i] = other[i]
    BY <1>3, <2>1
  <2> QED
    BY <1>0, <2>1, <2>2
<1>6. G = 0..n
  <2>1. G \in SUBSET (0..n)
    OBVIOUS
  <2> HIDE DEF G
  <2> QED
    BY <1>0, <1>4, <1>5, <2>1, Segment
<1>7. after[ip] = other[ip]
  <2>1. ip \in 0..n /\ ip \in 0..ip
    BY <1>0 DEF n
  <2> QED
    BY <1>6, <2>1
<1> QED
  BY <1>7 DEF after, other, longer

-----------------------------------------------------------------------------
(* What CodeGen keeps true of its program.                                   *)
Requests ==
  ({"RET"} \X AllReturns \X {kNullNode} \X {kNullNode})
    \union {<<step[1], step[2], jt, kNullNode>> : step \in AllSteps, jt \in Nat}
    \union {<<test[1], test[2], jt, jf>> : test \in AllTests, jt \in Nat, jf \in Nat}

Gens ==
  [program : Seq(Insns), equivalent : Seq(Nat), memos : UNION {[K -> Nat] : K \in SUBSET Requests}]

Row(g, data, node) == Results(g.program, data)[node]

Fits(g) ==
  \A n \in Nodes(g) :
    LET insn == g.program[n] IN
    /\ insn.code \in Branches =>
         /\ insn.jt <= BranchRange /\ insn.jf <= BranchRange
         /\ insn.jt + 1 < n /\ insn.jf + 1 < n
    /\ insn.code = "JA" => insn.k + 1 < n

(* A node that stands for another one does the same.                         *)
Stand(g) ==
  /\ Len(g.equivalent) = Len(g.program)
  /\ \A n \in Nodes(g) :
       /\ g.equivalent[n] \in Nodes(g)
       /\ \A data \in Datas : Row(g, data, g.equivalent[n]) = Row(g, data, n)

Assembled(g) == g \in Gens /\ Fits(g) /\ Stand(g)

(* A request asks for nodes that were given, it has its own node, behind     *)
(* them, and this one does what was asked for.                               *)
GivenIn(g) == {g.memos[asked] : asked \in DOMAIN g.memos}
Asks(g, asked, node) ==
  /\ asked[1] # "RET" => asked[3] \in GivenIn(g) /\ asked[3] < node
  /\ asked[1] \in Branches => asked[4] \in GivenIn(g) /\ asked[4] < node
Answers(g, asked, node) ==
  \A data \in Datas : Row(g, data, node) = Explained(asked, data, Results(g.program, data))

Memoised(g) ==
  /\ \A asked \in DOMAIN g.memos :
       /\ g.memos[asked] \in Nodes(g)
       /\ Asks(g, asked, g.memos[asked])
       /\ Answers(g, asked, g.memos[asked])
  /\ \A asked, other \in DOMAIN g.memos : g.memos[asked] = g.memos[other] => asked = other

GenIInv == Assembled(gen) /\ Memoised(gen)

(* h is g with instructions added.                                           *)
Grown(g, h) ==
  /\ h.memos = g.memos /\ Len(g.program) <= Len(h.program)
  /\ \A data \in Datas, ip \in 0..Len(g.program) : Row(h, data, ip) = Row(g, data, ip)

LEMMA GensFacts ==
  ASSUME NEW g, g \in Gens
  PROVE  /\ g = [program |-> g.program, equivalent |-> g.equivalent, memos |-> g.memos]
         /\ g.program \in Seq(Insns) /\ Len(g.program) \in Nat /\ g.equivalent \in Seq(Nat)
         /\ DOMAIN g.memos \subseteq Requests /\ g.memos \in [DOMAIN g.memos -> Nat]
  BY DEF Gens

LEMMA NodeNumbers ==
  ASSUME NEW g, Assembled(g), NEW n \in Nodes(g)
  PROVE  /\ n \in Nat /\ n > 0 /\ n <= Len(g.program) /\ n \in 0..Len(g.program)
         /\ Len(g.program) \in Nat
         /\ Offset(g, n) \in Nat /\ Offset(g, n) = Len(g.program) - n
         /\ g.equivalent[n] \in Nodes(g)
  BY GensFacts DEF Assembled, Stand, Nodes, Offset

LEMMA Transitive ==
  ASSUME NEW f, NEW g, NEW h, Assembled(f), Assembled(g), Assembled(h), Grown(f, g), Grown(g, h)
  PROVE  Grown(f, h)
<1>1. Len(f.program) \in Nat /\ Len(g.program) \in Nat /\ Len(h.program) \in Nat
  BY GensFacts DEF Assembled
<1>2. Len(f.program) <= Len(h.program) /\ 0..Len(f.program) \subseteq 0..Len(g.program)
  BY <1>1 DEF Grown
<1> QED
  BY <1>2 DEF Grown

InsnOf(code, k, jt, jf) == [code |-> code, k |-> k, jt |-> jt, jf |-> jf]
Fitting(n, code, k, jt, jf) ==
  /\ code \in Branches => /\ jt <= BranchRange /\ jf <= BranchRange
                          /\ jt + 1 < n /\ jf + 1 < n
  /\ code = "JA" => k + 1 < n

LEMMA AppendStep ==
  ASSUME NEW g, Assembled(g), NEW code, NEW k, NEW jt, NEW jf,
         InsnOf(code, k, jt, jf) \in Insns,
         Fitting(Len(g.program) + 1, code, k, jt, jf),
         NEW h, h = AppendInsn(g, code, k, jt, jf)
  PROVE  /\ Assembled(h) /\ Grown(g, h)
         /\ Len(h.program) = Len(g.program) + 1
         /\ h.program[Len(g.program) + 1] = InsnOf(code, k, jt, jf)
<1> DEFINE n == Len(g.program)
           insn == InsnOf(code, k, jt, jf)
<1>1. /\ g = [program |-> g.program, equivalent |-> g.equivalent, memos |-> g.memos]
      /\ g.program \in Seq(Insns) /\ n \in Nat /\ g.equivalent \in Seq(Nat)
      /\ Len(g.equivalent) = n
  BY GensFacts DEF Assembled, Stand
<1>2. h = [program |-> Append(g.program, insn), equivalent |-> Append(g.equivalent, n + 1),
           memos |-> g.memos]
  BY <1>1 DEF AppendInsn, InsnOf
<1> HIDE DEF insn
<1>3. insn \in Insns
  BY DEF insn
<1>4. /\ h.program = Append(g.program, insn) /\ h.memos = g.memos
      /\ h.equivalent = Append(g.equivalent, n + 1)
  BY <1>2
<1>5. /\ h.program \in Seq(Insns) /\ Len(h.program) = n + 1 /\ h.program[n + 1] = insn
      /\ \A i \in 1..n : h.program[i] = g.program[i]
  BY <1>1, <1>3, <1>4
<1>6. /\ h.equivalent \in Seq(Nat) /\ Len(h.equivalent) = n + 1 /\ h.equivalent[n + 1] = n + 1
      /\ \A i \in 1..n : h.equivalent[i] = g.equivalent[i]
  BY <1>1, <1>4
<1>7. h \in Gens
  BY <1>2, <1>4, <1>5, <1>6 DEF Assembled, Gens
<1>8. \A i \in Nodes(h) : i = n + 1 \/ i \in Nodes(g)
  BY <1>1, <1>5 DEF Nodes
<1>9. Grown(g, h)
  <2>1. ASSUME NEW data \in Datas, NEW ip \in 0..n PROVE Row(h, data, ip) = Row(g, data, ip)
    BY <1>1, <1>3, <1>4, ResultsKept DEF Row
  <2> QED
    BY <1>1, <1>4, <1>5, <2>1 DEF Grown
<1>10. Fits(h)
  <2> SUFFICES ASSUME NEW i \in Nodes(h)
               PROVE  LET it == h.program[i] IN
                      /\ it.code \in Branches =>
                           /\ it.jt <= BranchRange /\ it.jf <= BranchRange
                           /\ it.jt + 1 < i /\ it.jf + 1 < i
                      /\ it.code = "JA" => it.k + 1 < i
    BY DEF Fits
  <2>1. CASE i \in Nodes(g)
    BY <1>5, <2>1 DEF Assembled, Fits, Nodes
  <2>2. CASE i = n + 1
    <3>1. h.program[i] = insn /\ Fitting(i, code, k, jt, jf)
      BY <1>5, <2>2
    <3> QED
      BY <3>1 DEF insn, InsnOf, Fitting
  <2> QED
    BY <1>8, <2>1, <2>2
<1>11. Stand(h)
  <2> SUFFICES ASSUME NEW i \in Nodes(h)
               PROVE  /\ h.equivalent[i] \in Nodes(h)
                      /\ \A data \in Datas : Row(h, data, h.equivalent[i]) = Row(h, data, i)
    BY <1>5, <1>6 DEF Stand
  <2>1. CASE i \in Nodes(g)
    <3>1. /\ h.equivalent[i] = g.equivalent[i] /\ g.equivalent[i] \in Nodes(g)
          /\ \A data \in Datas : Row(g, data, g.equivalent[i]) = Row(g, data, i)
      BY <1>6, <2>1 DEF Assembled, Stand, Nodes
    <3>2. i \in 0..n /\ g.equivalent[i] \in 0..n /\ g.equivalent[i] \in Nodes(h)
      BY <1>1, <1>5, <2>1, <3>1 DEF Nodes
    <3> QED
      BY <1>9, <3>1, <3>2 DEF Grown
  <2>2. CASE i = n + 1
    BY <1>6, <2>2
  <2> QED
    BY <1>8, <2>1, <2>2
<1> QED
  BY <1>5, <1>7, <1>9, <1>10, <1>11 DEF Assembled, insn

(* What the last instruction does, by what is behind it.                     *)
LEMMA NewRow ==
  ASSUME NEW g, NEW h, Assembled(g), Assembled(h), Grown(g, h), Len(h.program) = Len(g.program) + 1,
         NEW data \in Datas
  PROVE  LET n == Len(g.program) + 1
         IN  /\ n \in Nat /\ n > 0 /\ n \in Nodes(h)
             /\ Row(h, data, n) = Executed(h.program, data, Results(h.program, data), n)
             /\ On(Row(h, data, n), 0..Top)
             /\ \A ip \in 0..Len(g.program) : Results(h.program, data)[ip] = Row(g, data, ip)
<1>1. Len(g.program) \in Nat /\ h.program \in Seq(Insns)
  BY GensFacts DEF Assembled
<1>2. LET n == Len(g.program) + 1 IN n \in Nat /\ n > 0 /\ n \in Nodes(h) /\ n \in 0..Len(h.program)
  BY <1>1 DEF Nodes
<1> QED
  BY <1>1, <1>2, RowFacts DEF Row, Grown

(* A jump does what its target does, and stands for it.                      *)
JumpAdded(g, target, h, i) ==
  /\ h = AppendInsn(g, "JA", Offset(g, target), 0, 0)
  /\ i = [h EXCEPT !.equivalent[target] = Len(h.program)]

LEMMA JumpStep ==
  ASSUME NEW g, Assembled(g), NEW target \in Nodes(g), NEW h, NEW i, JumpAdded(g, target, h, i)
  PROVE  /\ Assembled(i) /\ Grown(g, i)
         /\ Len(i.program) = Len(g.program) + 1 /\ Len(g.program) + 1 \in Nodes(i)
         /\ \A data \in Datas : Row(i, data, Len(g.program) + 1) = Row(g, data, target)
<1> DEFINE n == Len(g.program)
           k == Offset(g, target)
<1>1. n \in Nat /\ k \in Nat /\ k = n - target /\ target \in Nat /\ target > 0 /\ target <= n
  BY NodeNumbers
<1> HIDE DEF n, k
<1>2. InsnOf("JA", k, 0, 0) \in Insns
  BY <1>1 DEF InsnOf, Insns, Codes
<1>3. Fitting(n + 1, "JA", k, 0, 0)
  BY <1>1 DEF Fitting, Branches
<1>4. h = AppendInsn(g, "JA", k, 0, 0)
  BY DEF k, JumpAdded
<1>5. /\ Assembled(h) /\ Grown(g, h) /\ Len(h.program) = n + 1
      /\ h.program[n + 1] = InsnOf("JA", k, 0, 0)
  BY <1>2, <1>3, <1>4, AppendStep DEF n
<1>6. \A data \in Datas : Row(h, data, n + 1) = Row(g, data, target)
  <2> SUFFICES ASSUME NEW data \in Datas PROVE Row(h, data, n + 1) = Row(g, data, target)
    OBVIOUS
  <2> DEFINE after == Results(h.program, data)
             here == Row(h, data, n + 1)
             there == Row(g, data, target)
  <2>1. /\ n + 1 \in Nat /\ n + 1 > 0
        /\ here = Executed(h.program, data, after, n + 1)
        /\ On(here, 0..Top)
        /\ \A ip \in 0..n : after[ip] = Row(g, data, ip)
    BY <1>5, NewRow DEF n
  <2>2. On(there, 0..Top) /\ after[target] = there
    <3>1. target \in 0..n /\ g.program \in Seq(Insns)
      BY <1>1, GensFacts DEF Assembled
    <3> QED
      BY <2>1, <3>1, RowFacts DEF Row, n
  <2> HIDE DEF after, here, there
  <2>3. ASSUME NEW acc \in 0..Top PROVE here[acc] = there[acc]
    <3>1. h.program[n + 1].code = "JA" /\ h.program[n + 1].k = k
      BY <1>5 DEF InsnOf
    <3>2. here[acc] = Landing(after, n + 1, k, acc)
      BY <2>1, <3>1, ExecutedAt
    <3>3. ~(k + 1 >= n + 1) /\ (n + 1) - 1 - k = target
      BY <1>1
    <3> QED
      BY <2>2, <3>2, <3>3 DEF Landing
  <2>4. here = there
    <3>1. Agree(here, there, 0..Top)
      BY <2>3 DEF Agree
    <3> QED
      BY <2>1, <2>2, <3>1, SameFunction
  <2> QED
    BY <2>4 DEF here, there
<1>7. /\ h = [program |-> h.program, equivalent |-> h.equivalent, memos |-> h.memos]
      /\ h.equivalent \in Seq(Nat) /\ Len(h.equivalent) = n + 1
  BY <1>5, GensFacts DEF Assembled, Stand
<1>8. /\ i = [program |-> h.program, memos |-> h.memos,
              equivalent |-> [h.equivalent EXCEPT ![target] = n + 1]]
  BY <1>5, <1>7 DEF JumpAdded
<1>9. i.program = h.program /\ i.memos = h.memos
      /\ i.equivalent = [h.equivalent EXCEPT ![target] = n + 1]
  BY <1>8
<1>10. /\ i.equivalent \in Seq(Nat) /\ Len(i.equivalent) = n + 1
       /\ \A j \in 1..(n + 1) : i.equivalent[j] = IF j = target THEN n + 1 ELSE h.equivalent[j]
  BY <1>1, <1>7, <1>9
<1>11. i \in Gens
  <2>1. h.program \in Seq(Insns) /\ h.memos \in UNION {[K -> Nat] : K \in SUBSET Requests}
    BY <1>5 DEF Assembled, Gens
  <2> QED
    BY <1>8, <1>9, <1>10, <2>1 DEF Gens
<1>12. Nodes(i) = Nodes(h) /\ Nodes(h) = 1..(n + 1) /\ \A data, node : Row(i, data, node) = Row(h, data, node)
  BY <1>5, <1>9 DEF Nodes, Row
<1>13. Fits(i)
  BY <1>5, <1>9, <1>12 DEF Assembled, Fits
<1>14. Stand(i)
  <2>1. ASSUME NEW j \in Nodes(i), NEW data \in Datas
        PROVE  i.equivalent[j] \in Nodes(i) /\ Row(i, data, i.equivalent[j]) = Row(i, data, j)
    <3>1. CASE j = target
      <4>1. i.equivalent[j] = n + 1 /\ n + 1 \in Nodes(i)
        BY <1>1, <1>10, <1>12, <3>1
      <4>2. Row(h, data, n + 1) = Row(h, data, target)
        <5>1. target \in 0..n
          BY <1>1
        <5> QED
          BY <1>5, <1>6, <5>1 DEF Grown, n
      <4> QED
        BY <1>12, <3>1, <4>1, <4>2
    <3>2. CASE j # target
      <4>1. i.equivalent[j] = h.equivalent[j] /\ j \in Nodes(h)
        BY <1>10, <1>12, <3>2
      <4>2. /\ h.equivalent[j] \in Nodes(h)
            /\ Row(h, data, h.equivalent[j]) = Row(h, data, j)
        BY <1>5, <4>1 DEF Assembled, Stand
      <4> QED
        BY <1>12, <4>1, <4>2
    <3> QED
      BY <3>1, <3>2
  <2>2. \A j \in Nodes(i) : i.equivalent[j] \in Nodes(i)
    <3>1. \A j \in 1..(n + 1) : h.equivalent[j] \in 1..(n + 1)
      BY <1>5, <1>12 DEF Assembled, Stand
    <3>2. n + 1 \in 1..(n + 1)
      BY <1>1
    <3> QED
      BY <1>10, <1>12, <3>1, <3>2
  <2> QED
    BY <1>5, <1>9, <1>10, <2>1, <2>2 DEF Stand
<1>15. Grown(g, i)
  BY <1>5, <1>9, <1>12 DEF Grown
<1>16. n + 1 \in Nodes(i)
  BY <1>1, <1>12
<1> QED
  BY <1>5, <1>6, <1>9, <1>11, <1>12, <1>13, <1>14, <1>15, <1>16 DEF Assembled, n

(* The node WithinRange returns does what target does and is near enough.    *)
Near(g, target, range, m) ==
  /\ Assembled(m.gen) /\ Grown(g, m.gen)
  /\ m.node \in Nodes(m.gen)
  /\ Len(m.gen.program) - m.node <= range
  /\ Len(m.gen.program) <= Len(g.program) + 1
  /\ \A data \in Datas : Row(m.gen, data, m.node) = Row(g, data, target)

LEMMA InRange ==
  ASSUME NEW g, Assembled(g), NEW target \in Nodes(g), NEW range \in Nat
  PROVE  Near(g, target, range, WithinRange(g, target, range))
<1> DEFINE n == Len(g.program)
<1>1. n \in Nat /\ Grown(g, g)
  BY NodeNumbers DEF Grown
<1>2. CASE Offset(g, target) <= range
  <2>1. WithinRange(g, target, range) = Made(g, target)
    BY <1>2 DEF WithinRange
  <2>2. Made(g, target).gen = g /\ Made(g, target).node = target
    BY DEF Made
  <2> QED
    BY <1>1, <1>2, <2>1, <2>2, NodeNumbers DEF Near
<1>3. CASE ~(Offset(g, target) <= range) /\ Offset(g, g.equivalent[target]) <= range
  <2> DEFINE other == g.equivalent[target]
  <2>1. other \in Nodes(g) /\ \A data \in Datas : Row(g, data, other) = Row(g, data, target)
    BY DEF Assembled, Stand
  <2>2. WithinRange(g, target, range) = Made(g, other)
    BY <1>3 DEF WithinRange
  <2>3. Made(g, other).gen = g /\ Made(g, other).node = other
    BY DEF Made
  <2>4. n - other <= range
    BY <1>3, <2>1, NodeNumbers
  <2> HIDE DEF other
  <2> QED
    BY <1>1, <2>1, <2>2, <2>3, <2>4 DEF Near
<1>4. CASE ~(Offset(g, target) <= range) /\ ~(Offset(g, g.equivalent[target]) <= range)
  <2> DEFINE h == AppendInsn(g, "JA", Offset(g, target), 0, 0)
             i == [h EXCEPT !.equivalent[target] = Len(h.program)]
  <2>1. WithinRange(g, target, range) = Made(i, Len(h.program))
    BY <1>4 DEF WithinRange, NewJump
  <2>0. JumpAdded(g, target, h, i)
    BY DEF JumpAdded
  <2>2. "equivalent" \in DOMAIN h
    <3>1. g = [program |-> g.program, equivalent |-> g.equivalent, memos |-> g.memos]
      BY GensFacts DEF Assembled
    <3> QED
      BY <3>1 DEF AppendInsn
  <2> HIDE DEF i, h
  <2>3. /\ Assembled(i) /\ Grown(g, i) /\ Len(i.program) = n + 1 /\ n + 1 \in Nodes(i)
        /\ \A data \in Datas : Row(i, data, n + 1) = Row(g, data, target)
    BY <2>0, JumpStep
  <2>4. i.program = h.program
    BY <2>0, <2>2 DEF JumpAdded
  <2>5. Made(i, Len(h.program)).gen = i /\ Made(i, Len(h.program)).node = n + 1
    BY <2>3, <2>4 DEF Made
  <2>6. (n + 1) - (n + 1) <= range
    BY <1>1
  <2> DEFINE m == Made(i, Len(h.program))
  <2> HIDE DEF n, m
  <2>7. m.gen = i /\ m.node = n + 1
    BY <2>5 DEF m
  <2>8. Near(g, target, range, m)
    <3>1. Len(m.gen.program) = n + 1 /\ Len(m.gen.program) - m.node = (n + 1) - (n + 1)
      BY <2>3, <2>7
    <3>2. Len(m.gen.program) - m.node <= range /\ Len(m.gen.program) <= Len(g.program) + 1
      BY <1>1, <2>6, <3>1 DEF n
    <3>3. \A data \in Datas : Row(m.gen, data, m.node) = Row(g, data, target)
      BY <2>3, <2>7
    <3> QED
      BY <2>3, <2>7, <3>2, <3>3 DEF Near
  <2> QED
    BY <2>1, <2>8 DEF m
<1> QED
  BY <1>2, <1>3, <1>4

-----------------------------------------------------------------------------
(* An instruction that is asked for.                                         *)
LEMMA ExplainedOn ==
  ASSUME NEW asked, NEW data, NEW value
  PROVE  On(Explained(asked, data, value), 0..Top)
<1> DEFINE E(acc) ==
     CASE asked[1] = "RET" -> asked[2]
       [] asked[1] = "LD" -> value[asked[3]][data[asked[2]]]
       [] asked[1] = "AND" -> value[asked[3]][Masked(acc, asked[2])]
       [] asked[1] \in Branches ->
            IF acc = NoAccumulator THEN Invalid
            ELSE value[IF Taken(asked[1], asked[2], acc) THEN asked[3] ELSE asked[4]][acc]
<1>1. Explained(asked, data, value) = [acc \in 0..Top |-> E(acc)]
  BY DEF Explained
<1> HIDE DEF E
<1> QED
  BY <1>1 DEF On

LEMMA ExplainedAt ==
  ASSUME NEW asked, NEW data, NEW value, NEW acc \in 0..Top
  PROVE  LET here == Explained(asked, data, value)[acc]
         IN  /\ asked[1] = "RET" => here = asked[2]
             /\ asked[1] = "LD" => here = value[asked[3]][data[asked[2]]]
             /\ asked[1] = "AND" => here = value[asked[3]][Masked(acc, asked[2])]
             /\ asked[1] \in Branches /\ acc = NoAccumulator => here = Invalid
             /\ asked[1] \in Branches /\ acc # NoAccumulator =>
                  here = value[IF Taken(asked[1], asked[2], acc) THEN asked[3] ELSE asked[4]][acc]
  BY DEF Explained, Branches

Legal(g, asked) ==
  \/ asked[1] = "RET" /\ asked[2] \in AllReturns
  \/ <<asked[1], asked[2]>> \in AllSteps /\ asked[3] \in Nodes(g)
  \/ <<asked[1], asked[2]>> \in AllTests /\ asked[3] \in Nodes(g) /\ asked[4] \in Nodes(g)

(* h is g with what was asked for as its last instruction.                   *)
Emitted(g, h, asked) ==
  /\ Assembled(h) /\ Grown(g, h) /\ Len(g.program) < Len(h.program)
  /\ \A data \in Datas :
       Row(h, data, Len(h.program)) = Explained(asked, data, Results(g.program, data))

LEMMA ReturnEmitted ==
  ASSUME NEW g, Assembled(g), NEW asked, asked[1] = "RET", asked[2] \in AllReturns
  PROVE  Emitted(g, AppendInsn(g, "RET", asked[2], 0, 0), asked)
<1> DEFINE h == AppendInsn(g, "RET", asked[2], 0, 0)
           n == Len(g.program) + 1
<1>1. InsnOf("RET", asked[2], 0, 0) \in Insns /\ Fitting(n, "RET", asked[2], 0, 0)
  BY DEF InsnOf, Insns, Codes, Fitting, Branches
<1>2. /\ Assembled(h) /\ Grown(g, h) /\ Len(h.program) = n
      /\ h.program[n] = InsnOf("RET", asked[2], 0, 0)
  BY <1>1, AppendStep
<1> HIDE DEF h
<1>3. Len(g.program) < n /\ n \in Nat
  BY GensFacts DEF Assembled
<1>4. ASSUME NEW data \in Datas
      PROVE  Row(h, data, n) = Explained(asked, data, Results(g.program, data))
  <2> DEFINE after == Results(h.program, data)
             here == Row(h, data, n)
             there == Explained(asked, data, Results(g.program, data))
  <2>1. n > 0 /\ here = Executed(h.program, data, after, n) /\ On(here, 0..Top)
    BY <1>2, NewRow
  <2>2. On(there, 0..Top)
    BY ExplainedOn
  <2>3. ASSUME NEW acc \in 0..Top PROVE here[acc] = there[acc]
    <3>1. there[acc] = asked[2]
      BY ExplainedAt
    <3>2. h.program[n].code = "RET" /\ h.program[n].k = asked[2]
      BY <1>2 DEF InsnOf
    <3> HIDE DEF after, here, there, n
    <3> QED
      BY <1>3, <2>1, <3>1, <3>2, ExecutedAt
  <2> HIDE DEF after, here, there
  <2>4. Agree(here, there, 0..Top)
    BY <2>3 DEF Agree
  <2>5. here = there
    BY <2>1, <2>2, <2>4, SameFunction
  <2> QED
    BY <2>5 DEF here, there
<1>5. Emitted(g, h, asked)
  BY <1>2, <1>3, <1>4 DEF Emitted
<1> QED
  BY <1>5 DEF h

(* A load or a mask goes on with what it was asked to be followed by.        *)
LEMMA StepEmitted ==
  ASSUME NEW g, Assembled(g), NEW asked, <<asked[1], asked[2]>> \in AllSteps, asked[3] \in Nodes(g),
         NEW f, f = WithinRange(g, asked[3], 0).gen
  PROVE  Emitted(g, AppendInsn(f, asked[1], asked[2], 0, 0), asked)
<1> DEFINE h == AppendInsn(f, asked[1], asked[2], 0, 0)
           m == WithinRange(g, asked[3], 0)
           n == Len(f.program) + 1
<1>0. \/ asked[1] = "LD" /\ asked[2] \in Fields
      \/ asked[1] = "AND" /\ asked[2] \in Word
  BY DEF AllSteps
<1>1. Near(g, asked[3], 0, m)
  BY InRange
<1> HIDE DEF m
<1>2. f = m.gen
  BY DEF m
<1>3. /\ Assembled(f) /\ Grown(g, f) /\ m.node \in Nodes(f) /\ Len(f.program) - m.node <= 0
      /\ \A data \in Datas : Row(f, data, m.node) = Row(g, data, asked[3])
  BY <1>1, <1>2 DEF Near
<1>4. m.node = n - 1 /\ n \in Nat /\ n - 1 \in 0..Len(f.program)
  BY <1>3, NodeNumbers
<1>5. InsnOf(asked[1], asked[2], 0, 0) \in Insns /\ Fitting(n, asked[1], asked[2], 0, 0)
  <2>1. \A k \in Word : k \in Nat
    BY PowerFacts DEF Word
  <2>2. asked[1] \in Codes /\ asked[2] \in AllReturns \union Fields \union Nat
    BY <1>0, <2>1 DEF Codes
  <2>3. asked[1] \notin Branches /\ asked[1] # "JA"
    BY <1>0 DEF Branches
  <2> QED
    BY <1>0, <2>2, <2>3 DEF InsnOf, Insns, Fitting
<1>6. /\ Assembled(h) /\ Grown(f, h) /\ Len(h.program) = n
      /\ h.program[n] = InsnOf(asked[1], asked[2], 0, 0)
  BY <1>3, <1>5, AppendStep
<1> HIDE DEF h
<1>7. Grown(g, h) /\ Len(g.program) < n
  <2>1. Grown(g, h)
    BY <1>3, <1>6, Transitive
  <2>2. Len(g.program) \in Nat /\ Len(f.program) \in Nat /\ Len(g.program) <= Len(f.program)
    BY <1>3, GensFacts DEF Assembled, Grown
  <2> QED
    BY <2>1, <2>2
<1>8. ASSUME NEW data \in Datas
      PROVE  Row(h, data, n) = Explained(asked, data, Results(g.program, data))
  <2> DEFINE after == Results(h.program, data)
             value == Results(g.program, data)
             here == Row(h, data, n)
             there == Explained(asked, data, value)
  <2>1. /\ n > 0 /\ here = Executed(h.program, data, after, n) /\ On(here, 0..Top)
        /\ after[n - 1] = Row(f, data, n - 1)
    BY <1>3, <1>4, <1>6, NewRow
  <2>2. On(there, 0..Top)
    BY ExplainedOn
  <2>3. after[n - 1] = value[asked[3]]
    BY <1>3, <1>4, <2>1 DEF Row
  <2>4. h.program[n].code = asked[1] /\ h.program[n].k = asked[2]
    BY <1>6 DEF InsnOf
  <2>5. ASSUME NEW acc \in 0..Top PROVE here[acc] = there[acc]
    <3> HIDE DEF after, here, value, n
    <3>1. CASE asked[1] = "LD"
      <4>1. here[acc] = after[n - 1][data[asked[2]]]
        BY <1>4, <2>1, <2>4, <3>1, ExecutedAt
      <4>2. there[acc] = value[asked[3]][data[asked[2]]]
        BY <3>1, ExplainedAt
      <4> HIDE DEF there
      <4> QED
        BY <2>3, <4>1, <4>2
    <3>2. CASE asked[1] = "AND"
      <4>1. here[acc] = after[n - 1][Masked(acc, asked[2])]
        BY <1>4, <2>1, <2>4, <3>2, ExecutedAt
      <4>2. there[acc] = value[asked[3]][Masked(acc, asked[2])]
        BY <3>2, ExplainedAt
      <4> HIDE DEF there
      <4> QED
        BY <2>3, <4>1, <4>2
    <3> QED
      BY <1>0, <3>1, <3>2
  <2> HIDE DEF after, here, there
  <2>6. Agree(here, there, 0..Top)
    BY <2>5 DEF Agree
  <2>7. here = there
    BY <2>1, <2>2, <2>6, SameFunction
  <2> QED
    BY <2>7 DEF here, there
<1>9. Emitted(g, h, asked)
  BY <1>6, <1>7, <1>8 DEF Emitted
<1> QED
  BY <1>9 DEF h

(* A branch reaches both nodes, also when the jump to the second one came    *)
(* between it and the first.                                                 *)
LEMMA BranchEmitted ==
  ASSUME NEW g, Assembled(g), NEW asked, <<asked[1], asked[2]>> \in AllTests,
         asked[3] \in Nodes(g), asked[4] \in Nodes(g),
         NEW t, t = WithinRange(g, asked[3], BranchRange - 1),
         NEW f, f = WithinRange(t.gen, asked[4], BranchRange)
  PROVE  Emitted(g, BranchTo(asked[1], asked[2], t, f), asked)
<1> DEFINE jt == Offset(f.gen, t.node)
           jf == Offset(f.gen, f.node)
           h == AppendInsn(f.gen, asked[1], asked[2], jt, jf)
           n == Len(f.gen.program) + 1
<1>0. asked[1] \in Branches /\ asked[2] \in Word /\ BranchRange \in Nat /\ BranchRange - 1 \in Nat
  BY CodeGenAssumption DEF AllTests
<1>1. Near(g, asked[3], BranchRange - 1, t)
  BY <1>0, InRange
<1>2. /\ Assembled(t.gen) /\ Grown(g, t.gen) /\ t.node \in Nodes(t.gen)
      /\ Len(t.gen.program) - t.node <= BranchRange - 1
      /\ \A data \in Datas : Row(t.gen, data, t.node) = Row(g, data, asked[3])
  BY <1>1 DEF Near
<1>3. Len(g.program) \in Nat /\ Len(t.gen.program) \in Nat /\ Len(g.program) <= Len(t.gen.program)
  BY <1>2, GensFacts DEF Assembled, Grown
<1>4. asked[4] \in Nodes(t.gen)
  BY <1>3 DEF Nodes
<1>5. Near(t.gen, asked[4], BranchRange, f)
  BY <1>0, <1>2, <1>4, InRange
<1>6. /\ Assembled(f.gen) /\ Grown(t.gen, f.gen) /\ f.node \in Nodes(f.gen)
      /\ Len(f.gen.program) - f.node <= BranchRange
      /\ Len(f.gen.program) <= Len(t.gen.program) + 1
      /\ \A data \in Datas : Row(f.gen, data, f.node) = Row(t.gen, data, asked[4])
  BY <1>5 DEF Near
<1>7. Len(f.gen.program) \in Nat /\ Len(t.gen.program) <= Len(f.gen.program)
  BY <1>6, GensFacts DEF Assembled, Grown
<1>8. t.node \in Nat /\ t.node > 0 /\ t.node <= Len(t.gen.program) /\ t.node \in 0..Len(t.gen.program)
      /\ f.node \in Nat /\ f.node > 0 /\ f.node <= Len(f.gen.program)
  BY <1>2, <1>6, NodeNumbers
<1>9. t.node \in Nodes(f.gen)
  BY <1>7, <1>8 DEF Nodes
<1>10. /\ jt \in Nat /\ jt = (n - 1) - t.node /\ jt <= BranchRange /\ jt + 1 < n
       /\ jf \in Nat /\ jf = (n - 1) - f.node /\ jf <= BranchRange /\ jf + 1 < n
  <2> DEFINE last == Len(f.gen.program)
             before == Len(t.gen.program)
  <2>1. jt = last - t.node /\ jf = last - f.node /\ n = last + 1
    BY DEF Offset
  <2>2. /\ last \in Nat /\ before \in Nat /\ before <= last /\ last <= before + 1
        /\ before - t.node <= BranchRange - 1 /\ last - f.node <= BranchRange
        /\ t.node \in Nat /\ t.node > 0 /\ t.node <= before
        /\ f.node \in Nat /\ f.node > 0 /\ f.node <= last
    BY <1>2, <1>3, <1>6, <1>7, <1>8
  <2> HIDE DEF last, before, jt, jf, n
  <2> QED
    BY <1>0, <2>1, <2>2
<1>11. Grown(g, f.gen)
  BY <1>2, <1>6, Transitive
<1>12. ASSUME NEW data \in Datas
       PROVE  /\ Row(f.gen, data, t.node) = Row(g, data, asked[3])
              /\ Row(f.gen, data, f.node) = Row(g, data, asked[4])
  <2>1. asked[4] \in 0..Len(g.program)
    BY <1>3 DEF Nodes
  <2>2. Row(f.gen, data, t.node) = Row(t.gen, data, t.node)
    BY <1>6, <1>8 DEF Grown
  <2>3. Row(t.gen, data, asked[4]) = Row(g, data, asked[4])
    BY <1>2, <2>1 DEF Grown
  <2> QED
    BY <1>2, <1>6, <2>2, <2>3
<1> HIDE DEF jt, jf
<1>13. InsnOf(asked[1], asked[2], jt, jf) \in Insns /\ Fitting(n, asked[1], asked[2], jt, jf)
  <2>1. asked[2] \in Nat
    BY <1>0, PowerFacts DEF Word
  <2>2. asked[1] \in Codes /\ asked[1] # "LD" /\ asked[1] # "JA"
    BY <1>0 DEF Codes, Branches
  <2>3. InsnOf(asked[1], asked[2], jt, jf) \in Insns
    BY <1>10, <2>1, <2>2 DEF InsnOf, Insns
  <2>4. Fitting(n, asked[1], asked[2], jt, jf)
    BY <1>10, <2>2 DEF Fitting
  <2> QED
    BY <2>3, <2>4
<1>14. /\ Assembled(h) /\ Grown(f.gen, h) /\ Len(h.program) = n
       /\ h.program[n] = InsnOf(asked[1], asked[2], jt, jf)
  <2>1. Assembled(f.gen) /\ h = AppendInsn(f.gen, asked[1], asked[2], jt, jf)
    BY <1>6
  <2> HIDE DEF h, n
  <2>2. n = Len(f.gen.program) + 1
    BY DEF n
  <2> QED
    BY <1>13, <2>1, <2>2, AppendStep
<1> HIDE DEF h
<1>15. Grown(g, h) /\ Len(g.program) < n /\ n \in Nat
  <2> DEFINE first == Len(g.program)
             before == Len(t.gen.program)
             last == Len(f.gen.program)
  <2>1. Grown(g, h)
    BY <1>6, <1>11, <1>14, Transitive
  <2>2. /\ first \in Nat /\ before \in Nat /\ last \in Nat
        /\ first <= before /\ before <= last /\ n = last + 1
    BY <1>3, <1>7
  <2> HIDE DEF first, before, last, n
  <2>3. first < n /\ n \in Nat
    BY <2>2
  <2> QED
    BY <2>1, <2>3 DEF first
<1>18. /\ ~(jt + 1 >= n) /\ n - 1 - jt = t.node
       /\ ~(jf + 1 >= n) /\ n - 1 - jf = f.node
  <2> DEFINE x == t.node
             y == f.node
  <2>1. /\ n \in Nat /\ x \in Nat /\ jt \in Nat /\ jt = (n - 1) - x /\ jt + 1 < n
        /\ y \in Nat /\ jf \in Nat /\ jf = (n - 1) - y /\ jf + 1 < n
    BY <1>8, <1>10, <1>15
  <2> HIDE DEF n, x, y
  <2>2. ~(jt + 1 >= n) /\ n - 1 - jt = x /\ ~(jf + 1 >= n) /\ n - 1 - jf = y
    BY <2>1
  <2> QED
    BY <2>2 DEF x, y
<1>16. ASSUME NEW data \in Datas
       PROVE  Row(h, data, n) = Explained(asked, data, Results(g.program, data))
  <2> DEFINE after == Results(h.program, data)
             value == Results(g.program, data)
             here == Row(h, data, n)
             there == Explained(asked, data, value)
  <2>1. /\ n > 0 /\ here = Executed(h.program, data, after, n) /\ On(here, 0..Top)
        /\ \A ip \in 0..Len(f.gen.program) : after[ip] = Row(f.gen, data, ip)
    <3>1. /\ Assembled(f.gen) /\ Assembled(h) /\ Grown(f.gen, h)
          /\ Len(h.program) = Len(f.gen.program) + 1
      BY <1>6, <1>14
    <3> QED
      BY <3>1, NewRow
  <2>2. On(there, 0..Top)
    BY ExplainedOn
  <2>3. after[t.node] = value[asked[3]] /\ after[f.node] = value[asked[4]]
    <3>1. t.node \in 0..Len(f.gen.program) /\ f.node \in 0..Len(f.gen.program)
      BY <1>7, <1>8
    <3> QED
      BY <1>12, <2>1, <3>1 DEF Row
  <2>4. /\ h.program[n].code = asked[1] /\ h.program[n].k = asked[2]
        /\ h.program[n].jt = jt /\ h.program[n].jf = jf
    BY <1>14 DEF InsnOf
  <2> HIDE DEF after, here, value, n
  <2>8. \A acc : Refused(h.program[n], n, acc) <=> acc = NoAccumulator
    BY <1>18, <2>4 DEF Refused
  <2>5. ASSUME NEW acc \in 0..Top PROVE here[acc] = there[acc]
    <3>1. CASE acc = NoAccumulator
      <4>1. here[acc] = Invalid
        BY <1>0, <1>15, <2>1, <2>4, <2>8, <3>1, ExecutedAt
      <4>2. there[acc] = Invalid
        BY <1>0, <3>1, ExplainedAt
      <4> QED
        BY <4>1, <4>2
    <3>2. CASE acc # NoAccumulator
      <4> DEFINE taken == Taken(asked[1], asked[2], acc)
      <4>1. here[acc] = Landing(after, n, IF taken THEN jt ELSE jf, acc)
        BY <1>0, <1>15, <2>1, <2>4, <2>8, <3>2, ExecutedAt
      <4>2. there[acc] = value[IF taken THEN asked[3] ELSE asked[4]][acc]
        BY <1>0, <3>2, ExplainedAt
      <4>3. Landing(after, n, jt, acc) = after[t.node][acc]
        BY <1>18 DEF Landing
      <4>4. Landing(after, n, jf, acc) = after[f.node][acc]
        BY <1>18 DEF Landing
      <4> HIDE DEF taken, there
      <4> QED
        BY <2>3, <4>1, <4>2, <4>3, <4>4
    <3> QED
      BY <3>1, <3>2
  <2> HIDE DEF there
  <2>6. Agree(here, there, 0..Top)
    BY <2>5 DEF Agree
  <2>7. here = there
    BY <2>1, <2>2, <2>6, SameFunction
  <2> QED
    BY <2>7 DEF here, there, value, n
<1>17. Emitted(g, h, asked)
  BY <1>14, <1>15, <1>16 DEF Emitted
<1> QED
  BY <1>17 DEF h, jt, jf, BranchTo

LEMMA InstructionEmitted ==
  ASSUME NEW g, Assembled(g), NEW asked, Legal(g, asked)
  PROVE  Emitted(g, AppendInstruction(g, asked[1], asked[2], asked[3], asked[4]), asked)
<1>1. CASE asked[1] = "RET" /\ asked[2] \in AllReturns
  <2>1. AppendInstruction(g, asked[1], asked[2], asked[3], asked[4]) = AppendInsn(g, "RET", asked[2], 0, 0)
    BY <1>1 DEF AppendInstruction, Branches
  <2> QED
    BY <1>1, <2>1, ReturnEmitted
<1>2. CASE <<asked[1], asked[2]>> \in AllSteps /\ asked[3] \in Nodes(g)
  <2>1. asked[1] \in {"LD", "AND"}
    BY <1>2 DEF AllSteps
  <2>2. AppendInstruction(g, asked[1], asked[2], asked[3], asked[4])
          = AppendInsn(WithinRange(g, asked[3], 0).gen, asked[1], asked[2], 0, 0)
    BY <2>1 DEF AppendInstruction, Branches
  <2> QED
    BY <1>2, <2>2, StepEmitted
<1>3. CASE <<asked[1], asked[2]>> \in AllTests /\ asked[3] \in Nodes(g) /\ asked[4] \in Nodes(g)
  <2> DEFINE t == WithinRange(g, asked[3], BranchRange - 1)
             f == WithinRange(t.gen, asked[4], BranchRange)
  <2>1. asked[1] \in Branches
    BY <1>3 DEF AllTests
  <2>2. AppendInstruction(g, asked[1], asked[2], asked[3], asked[4]) = BranchTo(asked[1], asked[2], t, f)
    BY <2>1 DEF AppendInstruction, AppendBranch
  <2> QED
    BY <1>3, <2>2, BranchEmitted
<1> QED
  BY <1>1, <1>2, <1>3 DEF Legal

-----------------------------------------------------------------------------
(* The memos.                                                                *)
LEMMA RequestKinds ==
  ASSUME NEW asked \in Requests
  PROVE  /\ asked[1] \in {"RET", "LD", "AND"} \union Branches
         /\ \/ asked[1] = "RET" /\ asked[2] \in AllReturns
            \/ asked[1] # "RET" /\ asked[1] \notin Branches /\ <<asked[1], asked[2]>> \in AllSteps
            \/ asked[1] \in Branches /\ <<asked[1], asked[2]>> \in AllTests
         /\ asked = <<asked[1], asked[2], asked[3], asked[4]>>
<1>1. CASE asked \in {"RET"} \X AllReturns \X {kNullNode} \X {kNullNode}
  BY <1>1 DEF Branches
<1>2. CASE asked \in {<<step[1], step[2], jt, kNullNode>> : step \in AllSteps, jt \in Nat}
  <2>1. PICK step \in AllSteps, jt \in Nat : asked = <<step[1], step[2], jt, kNullNode>>
    BY <1>2
  <2>2. step = <<step[1], step[2]>> /\ step[1] \in {"LD", "AND"}
    BY DEF AllSteps
  <2> QED
    BY <2>1, <2>2 DEF Branches
<1>3. CASE asked \in {<<test[1], test[2], jt, jf>> : test \in AllTests, jt \in Nat, jf \in Nat}
  <2>1. PICK test \in AllTests, jt \in Nat, jf \in Nat : asked = <<test[1], test[2], jt, jf>>
    BY <1>3
  <2>2. test = <<test[1], test[2]>> /\ test[1] \in Branches
    BY DEF AllTests
  <2> QED
    BY <2>1, <2>2 DEF Branches
<1> QED
  BY <1>1, <1>2, <1>3 DEF Requests

SameTargets(asked, value, other) ==
  /\ asked[1] # "RET" => value[asked[3]] = other[asked[3]]
  /\ asked[1] \in Branches => value[asked[4]] = other[asked[4]]

LEMMA ExplainedSame ==
  ASSUME NEW asked \in Requests, NEW data, NEW value, NEW other, SameTargets(asked, value, other)
  PROVE  Explained(asked, data, value) = Explained(asked, data, other)
<1> DEFINE left == Explained(asked, data, value)
           right == Explained(asked, data, other)
<1>1. On(left, 0..Top) /\ On(right, 0..Top)
  BY ExplainedOn
<1>2. ASSUME NEW acc \in 0..Top PROVE left[acc] = right[acc]
  <2>1. asked[1] = "RET" => left[acc] = right[acc]
    BY ExplainedAt
  <2>2. asked[1] = "LD" => left[acc] = right[acc]
    BY ExplainedAt DEF SameTargets
  <2>3. asked[1] = "AND" => left[acc] = right[acc]
    BY ExplainedAt DEF SameTargets
  <2>4. CASE asked[1] \in Branches
    <3>1. CASE acc = NoAccumulator
      <4>1. left[acc] = Invalid
        BY <2>4, <3>1, ExplainedAt
      <4>2. right[acc] = Invalid
        BY <2>4, <3>1, ExplainedAt
      <4> QED
        BY <4>1, <4>2
    <3>2. CASE acc # NoAccumulator
      <4> DEFINE taken == Taken(asked[1], asked[2], acc)
      <4>1. left[acc] = value[IF taken THEN asked[3] ELSE asked[4]][acc]
        BY <2>4, <3>2, ExplainedAt
      <4>2. right[acc] = other[IF taken THEN asked[3] ELSE asked[4]][acc]
        BY <2>4, <3>2, ExplainedAt
      <4>3. value[asked[3]] = other[asked[3]] /\ value[asked[4]] = other[asked[4]]
        BY <2>4 DEF SameTargets, Branches
      <4> HIDE DEF taken, left, right
      <4> QED
        BY <4>1, <4>2, <4>3
    <3> QED
      BY <3>1, <3>2
  <2> HIDE DEF left, right
  <2> QED
    BY <2>1, <2>2, <2>3, <2>4, RequestKinds
<1> HIDE DEF left, right
<1>3. Agree(left, right, 0..Top)
  BY <1>2 DEF Agree
<1>4. left = right
  BY <1>1, <1>3, SameFunction
<1> QED
  BY <1>4 DEF left, right

LEMMA GivenNodes ==
  ASSUME NEW g, Assembled(g), Memoised(g), NEW node \in GivenIn(g)
  PROVE  node \in Nodes(g) /\ node \in Nat /\ node \in 0..Len(g.program)
<1>1. node \in Nodes(g)
  BY DEF Memoised, GivenIn
<1> QED
  BY <1>1, NodeNumbers

(* The memo of a request that was not made before.                           *)
Wanted(g, asked) ==
  /\ asked \in Requests /\ asked \notin DOMAIN g.memos
  /\ asked[1] # "RET" => asked[3] \in GivenIn(g)
  /\ asked[1] \in Branches => asked[4] \in GivenIn(g)

LEMMA MemoStep ==
  ASSUME NEW g, Assembled(g), Memoised(g), NEW asked, Wanted(g, asked),
         NEW h, Emitted(g, h, asked), NEW i, i = Remembered(h, asked).gen
  PROVE  Assembled(i) /\ Memoised(i)
<1> DEFINE last == Len(h.program)
           memos == [other \in DOMAIN h.memos \union {asked} |->
                       IF other = asked THEN last ELSE h.memos[other]]
<1>1. /\ Assembled(h) /\ Grown(g, h) /\ h.memos = g.memos /\ Len(g.program) < last
      /\ \A data \in Datas : Row(h, data, last) = Explained(asked, data, Results(g.program, data))
  BY DEF Emitted, Grown
<1>2. Len(g.program) \in Nat /\ last \in Nat
  BY <1>1, GensFacts DEF Assembled
<1>3. i = [program |-> h.program, equivalent |-> h.equivalent, memos |-> memos]
  <2>1. i = [h EXCEPT !.memos = memos]
    BY DEF Remembered, Made
  <2>2. h = [program |-> h.program, equivalent |-> h.equivalent, memos |-> h.memos]
    BY <1>1, GensFacts DEF Assembled
  <2> HIDE DEF memos
  <2> QED
    BY <2>1, <2>2
<1>4. /\ DOMAIN memos = DOMAIN g.memos \union {asked}
      /\ memos[asked] = last
      /\ \A other \in DOMAIN g.memos : memos[other] = g.memos[other] /\ other # asked
      /\ memos = [other \in DOMAIN memos |-> memos[other]]
  BY <1>1 DEF Wanted
<1> HIDE DEF memos
<1>5. i.program = h.program /\ i.equivalent = h.equivalent /\ i.memos = memos
  BY <1>3
<1>6. /\ Nodes(i) = Nodes(h) /\ last \in Nodes(i) /\ Nodes(g) \subseteq Nodes(i)
      /\ \A data, node : Row(i, data, node) = Row(h, data, node)
  BY <1>1, <1>2, <1>5 DEF Nodes, Row
<1>7. \A data \in Datas, ip \in 0..Len(g.program) :
        Results(i.program, data)[ip] = Results(g.program, data)[ip]
  BY <1>1, <1>5 DEF Grown, Row
<1>8. Assembled(i)
  <2>1. DOMAIN memos \subseteq Requests
    BY <1>4, GensFacts DEF Assembled, Wanted
  <2>2. \A other \in DOMAIN memos : memos[other] \in Nat
    BY <1>2, <1>4, GensFacts DEF Assembled
  <2>3. memos \in [DOMAIN memos -> Nat]
    BY <1>4, <2>2
  <2>4. memos \in UNION {[K -> Nat] : K \in SUBSET Requests}
    BY <2>1, <2>3
  <2>5. h.program \in Seq(Insns) /\ h.equivalent \in Seq(Nat)
    BY <1>1, GensFacts DEF Assembled
  <2>6. i \in Gens
    BY <1>3, <2>4, <2>5 DEF Gens
  <2>7. Fits(i)
    BY <1>1, <1>5, <1>6 DEF Assembled, Fits
  <2>8. Stand(i)
    BY <1>1, <1>5, <1>6 DEF Assembled, Stand
  <2> QED
    BY <2>6, <2>7, <2>8 DEF Assembled
<1>9. \A node : node \in GivenIn(g) => node \in GivenIn(i)
  BY <1>4, <1>5 DEF GivenIn
<1>10. ASSUME NEW other \in Requests, NEW node \in Nat, Asks(g, other, node), NEW data \in Datas
       PROVE  Explained(other, data, Results(g.program, data))
                = Explained(other, data, Results(i.program, data))
  <2>1. SameTargets(other, Results(g.program, data), Results(i.program, data))
    BY <1>7, <1>10, GivenNodes DEF Asks, SameTargets
  <2> QED
    BY <2>1, ExplainedSame
<1>11. ASSUME NEW other \in DOMAIN g.memos
       PROVE  /\ memos[other] \in Nodes(i) /\ Asks(i, other, memos[other])
              /\ Answers(i, other, memos[other])
  <2> DEFINE node == g.memos[other]
  <2>1. /\ node \in Nodes(g) /\ Asks(g, other, node) /\ Answers(g, other, node)
        /\ other \in Requests /\ node \in GivenIn(g)
    BY GensFacts DEF Assembled, Memoised, GivenIn
  <2>2. memos[other] = node
    BY <1>4
  <2> HIDE DEF node
  <2>3. node \in Nat /\ node \in 0..Len(g.program)
    BY <2>1, GivenNodes
  <2>4. Asks(i, other, node)
    BY <1>9, <2>1 DEF Asks
  <2>5. ASSUME NEW data \in Datas
        PROVE  Row(i, data, node) = Explained(other, data, Results(i.program, data))
    <3>1. Row(i, data, node) = Row(g, data, node)
      BY <1>7, <2>3 DEF Row
    <3>2. Row(g, data, node) = Explained(other, data, Results(g.program, data))
      BY <2>1 DEF Answers
    <3>3. Explained(other, data, Results(g.program, data))
            = Explained(other, data, Results(i.program, data))
      BY <1>10, <2>1, <2>3
    <3> QED
      BY <3>1, <3>2, <3>3
  <2> QED
    BY <1>6, <2>1, <2>2, <2>4, <2>5 DEF Answers
<1>12. memos[asked] \in Nodes(i) /\ Asks(i, asked, memos[asked]) /\ Answers(i, asked, memos[asked])
  <2>1. Asks(g, asked, last)
    <3>1. \A node \in GivenIn(g) : node < last
      <4> SUFFICES ASSUME NEW node \in GivenIn(g) PROVE node < last
        OBVIOUS
      <4>1. node \in 0..Len(g.program)
        BY GivenNodes
      <4> QED
        BY <1>1, <1>2, <4>1
    <3> QED
      BY <3>1 DEF Asks, Wanted
  <2>2. Asks(i, asked, last)
    BY <1>9, <2>1 DEF Asks
  <2>3. ASSUME NEW data \in Datas
        PROVE  Row(i, data, last) = Explained(asked, data, Results(i.program, data))
    <3>1. Row(i, data, last) = Explained(asked, data, Results(g.program, data))
      BY <1>1, <1>6
    <3>2. Explained(asked, data, Results(g.program, data))
            = Explained(asked, data, Results(i.program, data))
      BY <1>2, <1>10, <2>1 DEF Wanted
    <3> QED
      BY <3>1, <3>2
  <2> HIDE DEF last
  <2> QED
    BY <1>4, <1>6, <2>2, <2>3 DEF Answers
<1>13. ASSUME NEW one \in DOMAIN memos, NEW two \in DOMAIN memos, memos[one] = memos[two]
       PROVE  one = two
  <2>1. \A other \in DOMAIN g.memos : memos[other] # last
    <3> SUFFICES ASSUME NEW other \in DOMAIN g.memos PROVE g.memos[other] # last
      BY <1>4
    <3>1. g.memos[other] \in 0..Len(g.program)
      BY GivenNodes DEF GivenIn
    <3> QED
      BY <1>1, <1>2, <3>1
  <2>2. CASE one \in DOMAIN g.memos /\ two \in DOMAIN g.memos
    BY <1>4, <1>13, <2>2 DEF Memoised
  <2> HIDE DEF last
  <2> QED
    BY <1>4, <1>13, <2>1, <2>2
<1>14. Memoised(i)
  <2>1. \A other \in DOMAIN memos : /\ memos[other] \in Nodes(i)
                                    /\ Asks(i, other, memos[other])
                                    /\ Answers(i, other, memos[other])
    BY <1>4, <1>11, <1>12
  <2> QED
    BY <1>5, <1>13, <2>1 DEF Memoised
<1> QED
  BY <1>8, <1>14

LEMMA GenStart == gen = NewGen => GenIInv
<1> SUFFICES ASSUME gen = NewGen PROVE GenIInv
  OBVIOUS
<1>1. gen = [program |-> <<>>, equivalent |-> <<>>, memos |-> <<>>]
  BY DEF NewGen
<1>2. gen.program = <<>> /\ gen.equivalent = <<>> /\ gen.memos = <<>>
  BY <1>1
<1>3. gen \in Gens
  <2>1. <<>> \in Seq(Insns) /\ <<>> \in Seq(Nat)
    OBVIOUS
  <2>2. <<>> \in [{} -> Nat] /\ {} \in SUBSET Requests
    OBVIOUS
  <2>3. <<>> \in UNION {[K -> Nat] : K \in SUBSET Requests}
    BY <2>2
  <2> QED
    BY <1>1, <2>1, <2>3 DEF Gens
<1>4. Nodes(gen) = {} /\ DOMAIN gen.memos = {} /\ Len(gen.equivalent) = Len(gen.program)
  BY <1>2 DEF Nodes
<1>5. Fits(gen) /\ Stand(gen) /\ Memoised(gen)
  BY <1>4 DEF Fits, Stand, Memoised
<1> QED
  BY <1>3, <1>5 DEF GenIInv, Assembled

LEMMA RequestMade ==
  ASSUME NEW g, Assembled(g), Memoised(g), NEW code, NEW k, NEW jt, NEW jf,
         Wanted(g, <<code, k, jt, jf>>)
  PROVE  LET i == MakeInstruction(g, code, k, jt, jf).gen IN Assembled(i) /\ Memoised(i)
<1> DEFINE asked == <<code, k, jt, jf>>
           h == AppendInstruction(g, code, k, jt, jf)
<1>1. asked[1] = code /\ asked[2] = k /\ asked[3] = jt /\ asked[4] = jf
  OBVIOUS
<1>2. MakeInstruction(g, code, k, jt, jf) = Remembered(h, asked)
  BY DEF MakeInstruction, Wanted
<1>3. Wanted(g, asked)
  OBVIOUS
<1> HIDE DEF asked, h
<1>4. Legal(g, asked)
  <2>1. asked \in Requests
    BY <1>3 DEF Wanted
  <2> QED
    BY <1>3, <2>1, RequestKinds, GivenNodes DEF Wanted, Legal, Branches
<1>5. Emitted(g, h, asked)
  <2>1. Emitted(g, AppendInstruction(g, asked[1], asked[2], asked[3], asked[4]), asked)
    BY <1>4, InstructionEmitted
  <2> QED
    BY <1>1, <2>1 DEF h
<1>6. Assembled(Remembered(h, asked).gen) /\ Memoised(Remembered(h, asked).gen)
  BY <1>3, <1>5, MemoStep
<1> QED
  BY <1>2, <1>6

LEMMA GenStep == GenIInv /\ [GenNext]_gen => GenIInv'
<1> SUFFICES ASSUME GenIInv, [GenNext]_gen PROVE GenIInv'
  OBVIOUS
<1>1. Assembled(gen) /\ Memoised(gen)
  BY DEF GenIInv
<1>2. ASSUME NEW code, NEW k, NEW jt, NEW jf, Request(code, k, jt, jf),
             Wanted(gen, <<code, k, jt, jf>>)
      PROVE  GenIInv'
  <2> DEFINE i == MakeInstruction(gen, code, k, jt, jf).gen
  <2>1. gen' = i
    BY <1>2 DEF Request
  <2>2. Assembled(i) /\ Memoised(i)
    BY <1>1, <1>2, RequestMade
  <2> HIDE DEF i
  <2>3. Assembled(gen') /\ Memoised(gen')
    BY <2>1, <2>2
  <2> QED
    BY <2>3 DEF GenIInv
<1>3. \A node \in Given : node \in GivenIn(gen) /\ node \in Nat
  BY <1>1, GivenNodes DEF Given, GivenIn
<1>4. ASSUME RequestReturn PROVE GenIInv'
  <2>1. PICK k \in Returns : Request("RET", k, kNullNode, kNullNode)
    BY <1>4 DEF RequestReturn
  <2>2. <<"RET", k, kNullNode, kNullNode>> \in Requests
    BY DEF Requests, AllReturns
  <2>3. Wanted(gen, <<"RET", k, kNullNode, kNullNode>>)
    BY <2>1, <2>2 DEF Wanted, Request, Branches
  <2> QED
    BY <1>2, <2>1, <2>3
<1>5. ASSUME RequestStep PROVE GenIInv'
  <2>1. PICK step \in Steps, jt \in Given : Request(step[1], step[2], jt, kNullNode)
    BY <1>5 DEF RequestStep
  <2> DEFINE asked == <<step[1], step[2], jt, kNullNode>>
  <2>2. asked \in Requests
    BY <1>3, CodeGenAssumption DEF Requests, AllSteps
  <2>3. asked[1] \notin Branches /\ asked[3] = jt
    BY CodeGenAssumption DEF Branches
  <2>4. asked \notin DOMAIN gen.memos
    BY <2>1 DEF Request
  <2>5. Wanted(gen, asked)
    BY <1>3, <2>2, <2>3, <2>4 DEF Wanted
  <2> QED
    BY <1>2, <2>1, <2>5
<1>6. ASSUME RequestBranch PROVE GenIInv'
  <2>1. PICK test \in Tests, jt \in Given, jf \in Given : Request(test[1], test[2], jt, jf)
    BY <1>6 DEF RequestBranch
  <2> DEFINE asked == <<test[1], test[2], jt, jf>>
  <2>2. asked \in Requests
    BY <1>3, CodeGenAssumption DEF Requests, AllTests
  <2>3. asked[3] = jt /\ asked[4] = jf
    OBVIOUS
  <2>4. asked \notin DOMAIN gen.memos
    BY <2>1 DEF Request
  <2>5. Wanted(gen, asked)
    BY <1>3, <2>2, <2>3, <2>4 DEF Wanted
  <2> QED
    BY <1>2, <2>1, <2>5
<1>7. ASSUME UNCHANGED gen PROVE GenIInv'
  <2>1. Assembled(gen') /\ Memoised(gen')
    BY <1>1, <1>7
  <2> QED
    BY <2>1 DEF GenIInv
<1> QED
  BY <1>4, <1>5, <1>6, <1>7 DEF GenNext

-----------------------------------------------------------------------------
(* What the invariant says of the run's properties.                          *)
LEMMA OwnRequest ==
  ASSUME GenIInv, NEW asked \in DOMAIN gen.memos
  PROVE  RequestOf(gen.memos[asked]) = asked
<1>1. \A other \in DOMAIN gen.memos : gen.memos[other] = gen.memos[asked] => other = asked
  BY DEF GenIInv, Memoised
<1> QED
  BY <1>1 DEF RequestOf

(* Only what a request asks for, and that is given, decides what it means.   *)
LEMMA MeaningRight ==
  ASSUME GenIInv, NEW data \in Datas, NEW node \in Given
  PROVE  Meaning(node, data) = Row(gen, data, node)[NoAccumulator]
<1> DEFINE results == Results(gen.program, data)
           means == [n \in Given |-> results[n]]
           By(n, v) == Explained(RequestOf(n), data, v)
<1>1. ASSUME NEW n \in Given
      PROVE  /\ n \in Nat /\ RequestOf(n) \in Requests
             /\ Asks(gen, RequestOf(n), n) /\ By(n, results) = results[n]
  <2>1. PICK asked \in DOMAIN gen.memos : n = gen.memos[asked]
    BY DEF Given
  <2>2. RequestOf(n) = asked
    BY <2>1, OwnRequest
  <2>3. n \in GivenIn(gen) /\ asked \in Requests
    BY <2>1, GensFacts DEF GenIInv, Assembled, GivenIn
  <2>4. n \in Nat
    BY <2>3, GivenNodes DEF GenIInv
  <2>5. Asks(gen, asked, n) /\ Answers(gen, asked, n)
    BY <2>1 DEF GenIInv, Memoised
  <2>6. Row(gen, data, n) = Explained(asked, data, results)
    BY <2>5 DEF Answers
  <2> QED
    BY <2>2, <2>3, <2>4, <2>5, <2>6 DEF Row
<1>2. Given = GivenIn(gen)
  BY DEF Given, GivenIn
<1>3. ASSUME NEW v, NEW n \in Given, \A m \in Given : m < n => v[m] = results[m]
      PROVE  By(n, v) = results[n]
  <2> HIDE DEF results
  <2>1. SameTargets(RequestOf(n), results, v)
    BY <1>1, <1>2, <1>3 DEF Asks, SameTargets
  <2>2. Explained(RequestOf(n), data, results) = Explained(RequestOf(n), data, v)
    BY <1>1, <2>1, ExplainedSame
  <2> QED
    BY <1>1, <2>2
<1> HIDE DEF results
<1>4. means = [n \in Given |-> By(n, means)]
  <2> HIDE DEF By
  <2>1. \A n \in Given : means[n] = results[n]
    OBVIOUS
  <2> HIDE DEF means
  <2>2. \A n \in Given : By(n, means) = results[n]
    BY <1>3, <2>1
  <2>3. [n \in Given |-> By(n, means)] = [n \in Given |-> results[n]]
    BY <2>2
  <2> QED
    BY <2>3 DEF means
<1> DEFINE value == CHOOSE v : v = [n \in Given |-> By(n, v)]
<1>5. value = [n \in Given |-> By(n, value)]
  <2> HIDE DEF means, By
  <2> QED
    BY <1>4
<1>6. Meaning(node, data) = value[node][NoAccumulator]
  BY DEF Meaning
<1> HIDE DEF value, By, means
<1>7. \A n \in Given : value[n] = By(n, value)
  BY <1>5
<1>8. \A n \in Given : value[n] = results[n]
  <2> DEFINE T == {n \in Given : value[n] # results[n]}
  <2> SUFFICES ASSUME T # {} PROVE FALSE
    OBVIOUS
  <2>1. T \in SUBSET Nat
    BY <1>1
  <2>2. PICK n \in T : \A m \in T : n <= m
    <3> HIDE DEF T
    <3> QED
      BY <2>1, LeastNumber
  <2>3. n \in Given /\ n \in Nat /\ value[n] # results[n]
    BY <1>1, <2>2
  <2>4. ASSUME NEW m \in Given, m < n PROVE value[m] = results[m]
    <3>1. m \in Nat /\ m \notin T
      BY <1>1, <2>2, <2>3, <2>4
    <3> QED
      BY <3>1
  <2>5. By(n, value) = results[n]
    BY <1>3, <2>3, <2>4
  <2> QED
    BY <1>7, <2>3, <2>5
<1> QED
  BY <1>6, <1>8 DEF Row, results

LEMMA InputsFacts == \A data \in Inputs : data \in Datas
<1>1. \A n \in 0..1 : n \in Word
  BY PowerFacts DEF Word
<1> QED
  BY <1>1 DEF Inputs, Datas

LEMMA CodeMeans == GenIInv => CodeIsRequested
<1> SUFFICES ASSUME GenIInv, NEW asked \in DOMAIN gen.memos, NEW data \in Inputs
             PROVE  /\ RequestOf(gen.memos[asked]) = asked
                    /\ EvaluateBPF(gen.program, gen.memos[asked], data)
                         = Meaning(gen.memos[asked], data)
  BY DEF CodeIsRequested
<1>1. data \in Datas /\ gen.memos[asked] \in Given
  BY InputsFacts DEF Given
<1>2. Meaning(gen.memos[asked], data) = Row(gen, data, gen.memos[asked])[NoAccumulator]
  BY <1>1, MeaningRight
<1> QED
  BY <1>2, OwnRequest DEF EvaluateBPF, Row

(* Running from a node with the accumulator loaded.                          *)
LEMMA LoadedRow ==
  ASSUME NEW program \in Seq(Insns), NEW data \in Datas, NEW node \in 1..Len(program)
  PROVE  EvaluateBPF(program \o <<InsnOf("JA", Len(program) - node, 0, 0), InsnOf("LD", "nr", 0, 0)>>,
                     Len(program) + 2, data)
           = Results(program, data)[node][data["nr"]]
<1> DEFINE n == Len(program)
           jump == InsnOf("JA", Len(program) - node, 0, 0)
           load == InsnOf("LD", "nr", 0, 0)
           one == Append(program, jump)
           two == Append(one, load)
<1>1. n \in Nat /\ node \in Nat /\ node > 0 /\ node <= n /\ n - node \in Nat
  OBVIOUS
<1>2. jump \in Insns
  BY <1>1 DEF InsnOf, Insns, Codes
<1>3. load \in Insns
  BY DEF InsnOf, Insns, Codes, Fields
<1>4. jump.code = "JA" /\ jump.k = n - node /\ load.code = "LD" /\ load.k = "nr"
  BY DEF InsnOf
<1> HIDE DEF jump, load
<1>5. program \o <<jump, load>> = two
  BY <1>2, <1>3
<1>6. /\ one \in Seq(Insns) /\ two \in Seq(Insns) /\ Len(one) = n + 1 /\ Len(two) = n + 2
      /\ one[n + 1] = jump /\ two[n + 2] = load
  BY <1>2, <1>3
<1> HIDE DEF two
<1>7. \A ip \in 0..(n + 1) : Results(two, data)[ip] = Results(one, data)[ip]
  <2>1. one \in Seq(Insns) /\ 0..(n + 1) = 0..Len(one) /\ two = Append(one, load)
    BY <1>6 DEF two
  <2> HIDE DEF one
  <2>2. ASSUME NEW ip \in 0..Len(one)
        PROVE  Results(Append(one, load), data)[ip] = Results(one, data)[ip]
    BY <1>3, <2>1, ResultsKept
  <2> QED
    BY <2>1, <2>2
<1> HIDE DEF one
<1>8. \A ip \in 0..n : Results(one, data)[ip] = Results(program, data)[ip]
  BY <1>2, ResultsKept DEF one
<1>9. NoAccumulator \in 0..Top /\ data["nr"] \in 0..Top
  BY AccFacts DEF Fields
<1> DEFINE first == Results(one, data)
           second == Results(two, data)
<1>10. second[n + 2][NoAccumulator] = second[n + 1][data["nr"]]
  <2>1. n + 2 \in 0..Len(two) /\ n + 2 \in Nat /\ n + 2 > 0 /\ (n + 2) - 1 = n + 1
    BY <1>1, <1>6
  <2>2. second[n + 2] = Executed(two, data, second, n + 2)
    BY <1>6, <2>1, RowFacts
  <2>3. two[n + 2].code = "LD" /\ two[n + 2].k = "nr"
    BY <1>4, <1>6
  <2> HIDE DEF second, n
  <2>4. Executed(two, data, second, n + 2)[NoAccumulator] = second[(n + 2) - 1][data[two[n + 2].k]]
    BY <1>9, <2>1, <2>3, ExecutedAt
  <2> QED
    BY <2>1, <2>2, <2>3, <2>4
<1>11. first[n + 1][data["nr"]] = first[node][data["nr"]]
  <2>1. n + 1 \in 0..Len(one) /\ n + 1 \in Nat /\ n + 1 > 0
    BY <1>1, <1>6
  <2>2. first[n + 1] = Executed(one, data, first, n + 1)
    BY <1>6, <2>1, RowFacts
  <2> HIDE DEF first
  <2>3. first[n + 1][data["nr"]] = Landing(first, n + 1, n - node, data["nr"])
    BY <1>4, <1>6, <1>9, <2>1, <2>2, ExecutedAt
  <2>4. ~((n - node) + 1 >= n + 1) /\ (n + 1) - 1 - (n - node) = node
    BY <1>1
  <2> QED
    BY <2>3, <2>4 DEF Landing
<1>12. n + 1 \in 0..(n + 1) /\ node \in 0..n
  BY <1>1
<1>13. EvaluateBPF(two, n + 2, data) = Results(program, data)[node][data["nr"]]
  BY <1>7, <1>8, <1>10, <1>11, <1>12 DEF EvaluateBPF
<1> QED
  BY <1>5, <1>13 DEF jump, load

LEMMA StandMeans == GenIInv => EquivalentNodes
<1> SUFFICES ASSUME GenIInv PROVE EquivalentNodes
  OBVIOUS
<1> DEFINE p == gen.program
           Loaded(node, data) ==
             EvaluateBPF(p \o <<[code |-> "JA", k |-> Offset(gen, node), jt |-> 0, jf |-> 0],
                                [code |-> "LD", k |-> "nr", jt |-> 0, jf |-> 0]>>,
                         Len(p) + 2, data)
<1>1. p \in Seq(Insns) /\ Nodes(gen) = 1..Len(p)
  BY GensFacts DEF GenIInv, Assembled, Nodes
<1>2. ASSUME NEW node \in Nodes(gen), NEW data \in Inputs
      PROVE  Loaded(node, data) = Row(gen, data, node)[data["nr"]]
  <2>1. data \in Datas /\ node \in 1..Len(p)
    BY <1>1, InputsFacts
  <2>2. EvaluateBPF(p \o <<InsnOf("JA", Len(p) - node, 0, 0), InsnOf("LD", "nr", 0, 0)>>,
                    Len(p) + 2, data) = Results(p, data)[node][data["nr"]]
    BY <1>1, <2>1, LoadedRow
  <2> QED
    BY <2>2 DEF InsnOf, Offset, Row
<1>3. ASSUME NEW n \in Nodes(gen), NEW data \in Inputs
      PROVE  Loaded(gen.equivalent[n], data) = Loaded(n, data)
  <2>1. /\ gen.equivalent[n] \in Nodes(gen)
        /\ Row(gen, data, gen.equivalent[n]) = Row(gen, data, n)
    BY InputsFacts DEF GenIInv, Assembled, Stand
  <2> HIDE DEF Loaded
  <2> QED
    BY <1>2, <2>1
<1> QED
  BY <1>3 DEF EquivalentNodes

LEMMA GenMeans == GenIInv => AssemblerInv
<1>1. GenIInv => JumpsFit
  BY DEF GenIInv, Assembled, Fits, JumpsFit
<1> QED
  BY <1>1, CodeMeans, StandMeans DEF AssemblerInv

(* CodeGen: whatever instructions are asked for, with any width of words and *)
(* reach of branches, the code from a node on does what was asked for, a     *)
(* node that stands for another one does the same, and every jump fits its   *)
(* field and stays inside the program (codegen.cc:64-121).                   *)
THEOREM AssemblerRight == GenSpec => []AssemblerInv
  BY GenStart, GenStep, GenMeans, PTL DEF GenSpec
================================================================================
