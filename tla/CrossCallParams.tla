---------------------------- MODULE CrossCallParams ----------------------------
(***************************************************************************)
(* The parameters of a brokered call of the Windows sandbox.  A thread of  *)
(* the target lays them out in a channel (CopyParamIn), a thread of the    *)
(* broker copies them out, checks the copy (CreateFromBuffer), takes the   *)
(* arguments from it (GetArgs), runs the handler, and writes the copy back *)
(* when a parameter is in/out (InvokeCallback).  The channel stays mapped  *)
(* in the target: any word of it may change while the broker reads.        *)
(*                                                                         *)
(* Memory is made of words.  A message begins with the number of its       *)
(* parameters and the in/out flag; a ParamInfo for every parameter follows *)
(* (type, offset, size), and one more whose offset is the end of the       *)
(* message; then the values.  Sums are taken modulo Modulus, and so are    *)
(* addresses, as in a build of 32 bits.  The tag and the return value,     *)
(* which are only copied, are left out.                                    *)
(***************************************************************************)
EXTENDS Naturals, Sequences

CONSTANTS
  ChannelSize,   \* kIPCChannelSize
  MaxParams,     \* kMaxIpcParams
  Modulus,       \* words hold 0..Modulus - 1
  Base,          \* address of the broker's copy
  Sizes,         \* sizes of the parameters a caller passes
  OtherValues,   \* values another thread of the target may write
  MaxWrites      \* bound: words it writes

HeaderSize == 2          \* sizeof(CrossCallParams)
InfoSize == 3            \* sizeof(ParamInfo)
Alignment == 2
Align(n) == ((n + Alignment - 1) \div Alignment) * Alignment

ASSUME LayoutAssumption ==
  /\ MaxParams \in Nat \ {0}
  /\ ChannelSize \in Nat /\ ChannelSize = Align(ChannelSize)
  /\ HeaderSize + InfoSize * (MaxParams + 1) <= ChannelSize
  /\ Modulus \in Nat /\ Base \in Nat \ {0} /\ Base + ChannelSize < Modulus
  /\ Sizes \subseteq Nat /\ OtherValues \subseteq 0..(Modulus - 1)
  /\ MaxWrites \in Nat

Word == 0..(Modulus - 1)
Cells == 0..(ChannelSize - 1)
Plus(a, b) == (a + b) % Modulus

(* ArgType, without the types nobody passes.                                 *)
INVALID_TYPE == 0
WCHAR_TYPE == 1
UINT32_TYPE == 2
INOUTPTR_TYPE == 3
LAST_TYPE == 4

Count == 0
IsInOut == 1
Info(i) == HeaderSize + InfoSize * i
TypeOf(m, i) == m[Info(i)]
OffsetOf(m, i) == m[Info(i) + 1]
SizeOf(m, i) == m[Info(i) + 2]

(* The values a caller passes, an in/out buffer before and after the call.   *)
In == 7
Out == 9
Params == [type : {WCHAR_TYPE, INOUTPTR_TYPE}, size : Sizes]
            \union [type : {UINT32_TYPE}, size : {1}]

(* A parameter in the channel, and where its values begin.                   *)
SentParams == [type : {WCHAR_TYPE, UINT32_TYPE, INOUTPTR_TYPE}, size : Nat, offset : Nat]

VARIABLES
  channel,        \* the shared memory
  sent,           \* the parameters the caller has laid out
  writes,         \* words another thread of the target has written
  pc,             \* where CrossCall and then InvokeCallback is
  param_count,
  declared_size,
  copied,         \* words memcpy has copied
  copy,           \* backing_mem: what the words are, for the words it has
  args,           \* parameters for which GetArgs has allocated an object
  answer

readVars == <<param_count, declared_size, copied, copy>>
vars == <<channel, sent, writes, pc, readVars, args, answer>>

Steps == {"idle", "pack", "unsent", "count", "size", "range", "copy", "recheck", "verify", "args",
          "handle", "release", "answered"}
Answers == {"none", "invalid", "failed", "ok"}

TypeOK ==
  /\ channel \in [Cells -> Word]
  /\ sent \in Seq(SentParams)
  /\ writes \in 0..MaxWrites
  /\ pc \in Steps
  /\ param_count \in Word /\ declared_size \in Word
  /\ copied \in 0..ChannelSize
  /\ DOMAIN copy \subseteq Cells /\ \A a \in DOMAIN copy : copy[a] \in Word
  /\ args \subseteq 0..(MaxParams - 1)
  /\ answer \in Answers

Nothing == [a \in {} |-> 0]

Init ==
  /\ channel = [a \in Cells |-> 0]
  /\ sent = <<>>
  /\ writes = 0
  /\ pc = "idle"
  /\ param_count = 0
  /\ declared_size = 0
  /\ copied = 0
  /\ copy = Nothing
  /\ args = {}
  /\ answer = "none"

-----------------------------------------------------------------------------
(* The caller: CrossCall.                                                    *)

(* The constructor of ActualCallParams: no parameter yet, the first one goes *)
(* behind the ParamInfos.                                                    *)
Constructed(n) ==
  [channel EXCEPT ![Count] = n, ![IsInOut] = 0, ![Info(0) + 1] = Info(n + 1)]

ParamFits(m, i, size) == size <= ChannelSize /\ OffsetOf(m, i) <= ChannelSize - size

(* Mutant: the in/out flag follows the last parameter. *)
LastDecides(m, i, p) ==
  LET offset == OffsetOf(m, i) IN
  [a \in Cells |->
     CASE a = IsInOut -> IF p.type = INOUTPTR_TYPE THEN 1 ELSE 0
       [] a = Info(i) -> p.type
       [] a = Info(i) + 2 -> p.size
       [] a = Info(i + 1) + 1 -> Align(offset + p.size)
       [] a \in offset..(offset + p.size - 1) -> In
       [] OTHER -> m[a]]

CopyParamIn(m, i, p) ==
  LET offset == OffsetOf(m, i) IN
  [a \in Cells |->
     CASE a = IsInOut -> IF p.type = INOUTPTR_TYPE THEN 1 ELSE m[a]
       [] a = Info(i) -> p.type
       [] a = Info(i) + 2 -> p.size
       [] a = Info(i + 1) + 1 -> Align(offset + p.size)
       [] a \in offset..(offset + p.size - 1) -> In
       [] OTHER -> m[a]]

(* The caller lays out as many parameters as the template has arguments.     *)
StartCall(n) ==
  /\ pc = "idle"
  /\ channel' = Constructed(n)
  /\ pc' = "pack"
  /\ UNCHANGED <<sent, writes, readVars, args, answer>>

(* The next parameter.  With one that does not fit the caller returns before *)
(* it makes the call; with the last one it makes the call.                   *)
PackParam(p) ==
  /\ pc = "pack"
  /\ LET i == Len(sent) IN
     \/ /\ ParamFits(channel, i, p.size)
        /\ channel' = CopyParamIn(channel, i, p)
        /\ sent' = Append(sent, [type |-> p.type, size |-> p.size,
                                 offset |-> OffsetOf(channel, i)])
        /\ pc' = IF i + 1 = channel[Count] THEN "count" ELSE "pack"
     \/ /\ ~ParamFits(channel, i, p.size)
        /\ pc' = "unsent"
        /\ UNCHANGED <<channel, sent>>
  /\ UNCHANGED <<writes, readVars, args, answer>>

CrossCall == (\E n \in 1..MaxParams : StartCall(n)) \/ (\E p \in Params : PackParam(p))

(* Another thread of the target, which shares the channel.                   *)
OtherThreadWrites(a, v) ==
  /\ pc \notin {"idle", "pack", "unsent", "answered"} /\ writes < MaxWrites
  /\ channel[a] # v
  /\ channel' = [channel EXCEPT ![a] = v]
  /\ writes' = writes + 1
  /\ UNCHANGED <<sent, pc, readVars, args, answer>>

-----------------------------------------------------------------------------
(* CreateFromBuffer.  Nothing keeps the compiler from reading the count in   *)
(* the channel again before the barrier.                                     *)

MinDeclaredSize(n) == Plus(HeaderSize, (Plus(n, 1) * InfoSize) % Modulus)

(* GetActualBufferSize: zero for a number of parameters out of range.        *)
ActualBufferSize(n, m) == IF n \in 1..MaxParams THEN OffsetOf(m, n) ELSE 0

(* Mutant: a message may be smaller than its ParamInfos. *)
SizeBelowChannel(min_declared, declared) ==
  ChannelSize >= min_declared /\ declared <= ChannelSize

(* IsSizeWithinRange; CrossCallParamsEx has one ParamInfo.                   *)
SizeWithinRange(min_declared, declared) ==
  /\ ChannelSize >= min_declared /\ HeaderSize + InfoSize <= min_declared
  /\ declared <= ChannelSize /\ declared >= min_declared

Refuse == answer' = "invalid" /\ pc' = "answered"

ReadCount ==
  /\ pc = "count"
  /\ param_count' = channel[Count]
  /\ pc' = "size"
  /\ UNCHANGED <<channel, sent, writes, declared_size, copied, copy, args, answer>>

ReadDeclaredSize ==
  /\ pc = "size"
  /\ \E n \in {param_count, channel[Count]} :
       declared_size' = ActualBufferSize(n, channel)
  /\ pc' = "range"
  /\ UNCHANGED <<channel, sent, writes, param_count, copied, copy, args, answer>>

CheckRange ==
  /\ pc = "range"
  /\ \/ /\ SizeWithinRange(MinDeclaredSize(param_count), declared_size)
        /\ pc' = "copy"
        /\ UNCHANGED answer
     \/ /\ ~SizeWithinRange(MinDeclaredSize(param_count), declared_size)
        /\ Refuse
  /\ UNCHANGED <<channel, sent, writes, readVars, args>>

CopyWord ==
  /\ pc = "copy" /\ copied < declared_size
  /\ copy' = [a \in 0..copied |-> IF a = copied THEN channel[a] ELSE copy[a]]
  /\ copied' = copied + 1
  /\ pc' = IF copied' = declared_size THEN "recheck" ELSE "copy"
  /\ UNCHANGED <<channel, sent, writes, param_count, declared_size, args, answer>>

(* Mutant: the sizes read before the copy are trusted. *)
CopyTrusted == TRUE

(* The sizes again, from the copy.                                           *)
CopyConsistent ==
  /\ copy[Count] = param_count
  /\ ActualBufferSize(param_count, copy) = declared_size
  /\ SizeWithinRange(MinDeclaredSize(param_count), declared_size)

RecheckCopy ==
  /\ pc = "recheck"
  /\ \/ CopyConsistent /\ pc' = "verify" /\ UNCHANGED <<copy, answer>>
     \/ ~CopyConsistent /\ Refuse /\ copy' = Nothing
  /\ UNCHANGED <<channel, sent, writes, param_count, declared_size, copied, args>>

(* Every parameter lies between the ParamInfos and the end of the copy.      *)
WellPlaced(i) ==
  LET address == Plus(Base, OffsetOf(copy, i))
      last == Base + declared_size
      first == Base + MinDeclaredSize(param_count)
      end == Plus(address, SizeOf(copy, i))
  IN  /\ address # 0
      /\ INVALID_TYPE < TypeOf(copy, i) /\ TypeOf(copy, i) < LAST_TYPE
      /\ address >= Base /\ address >= first /\ address <= last
      /\ end >= address /\ end <= last

Indices == 0..(copy[Count] - 1)

VerifyParams ==
  /\ pc = "verify"
  /\ \/ /\ \A i \in Indices : WellPlaced(i)
        /\ pc' = "args"
        /\ UNCHANGED <<copy, answer>>
     \/ /\ \E i \in Indices : ~WellPlaced(i)
        /\ Refuse /\ copy' = Nothing
  /\ UNCHANGED <<channel, sent, writes, param_count, declared_size, copied, args>>

-----------------------------------------------------------------------------
(* InvokeCallback.                                                           *)

(* GetArgs takes the parameters in turn until one has not the size of its    *)
(* type, and then frees what it has allocated.                               *)
ArgFits(i) == TypeOf(copy, i) = UINT32_TYPE => SizeOf(copy, i) = 1
Allocates(i) == TypeOf(copy, i) \in {WCHAR_TYPE, INOUTPTR_TYPE}

GetArgs ==
  /\ pc = "args"
  /\ \/ /\ \A i \in Indices : ArgFits(i)
        /\ args' = {i \in Indices : Allocates(i)}
        /\ pc' = "handle"
        /\ UNCHANGED <<copy, answer>>
     \/ /\ \E i \in Indices : ~ArgFits(i)
        /\ args' = {}
        /\ copy' = Nothing
        /\ Refuse
  /\ UNCHANGED <<channel, sent, writes, param_count, declared_size, copied>>

(* The cells of a parameter in the copy.                                     *)
Area(i) == OffsetOf(copy, i)..(OffsetOf(copy, i) + SizeOf(copy, i) - 1)

(* A handler that matches the call runs; it may change in/out buffers.       *)
Handle ==
  /\ pc = "handle"
  /\ \/ answer' = "ok"
     \/ answer' = "failed"
     \/ answer' = "invalid"
  /\ copy' = [a \in DOMAIN copy |->
       IF answer' # "invalid" /\ \E i \in args : TypeOf(copy, i) = INOUTPTR_TYPE /\ a \in Area(i)
       THEN Out ELSE copy[a]]
  /\ pc' = "release"
  /\ UNCHANGED <<channel, sent, writes, param_count, declared_size, copied, args>>

(* What changed goes back into the channel when the call succeeded and has   *)
(* an in/out parameter; the arguments and the copy are freed.                *)
WriteBack ==
  /\ pc = "release"
  /\ channel' = IF answer = "ok" /\ copy[IsInOut] = 1
                THEN [a \in Cells |-> IF a < declared_size THEN copy[a] ELSE channel[a]]
                ELSE channel
  /\ args' = {}
  /\ copy' = Nothing
  /\ pc' = "answered"
  /\ UNCHANGED <<sent, writes, param_count, declared_size, copied, answer>>

InvokeCallback ==
  \/ ReadCount \/ ReadDeclaredSize \/ CheckRange \/ CopyWord \/ RecheckCopy
  \/ VerifyParams \/ GetArgs \/ Handle \/ WriteBack

Next ==
  \/ CrossCall
  \/ \E a \in Cells, v \in OtherValues : OtherThreadWrites(a, v)
  \/ InvokeCallback

Spec == Init /\ [][Next]_vars

-----------------------------------------------------------------------------
(* The words of the caller's i-th parameter, in the channel.                 *)
SentArea(i) == sent[i].offset..(sent[i].offset + sent[i].size - 1)
Undisturbed == writes = 0

(* Whatever the target writes in the meantime, the parameters the broker     *)
(* works with lie in its copy, behind the ParamInfos and before the end,     *)
(* which is not past the channel (crosscall_server.cc:153).                  *)
ParametersInBounds ==
  pc \in {"args", "handle", "release"} =>
    /\ copy[Count] \in 1..MaxParams
    /\ DOMAIN copy = 0..(declared_size - 1)
    /\ \A i \in Indices :
         /\ Info(copy[Count] + 1) <= OffsetOf(copy, i)
         /\ OffsetOf(copy, i) + SizeOf(copy, i) <= declared_size

(* The ParamInfos that are checked have been copied, however large the count *)
(* was and though its products wrap (crosscall_server.cc:140): the recheck   *)
(* reads one when the count is in range, the loop all of them.               *)
ChecksReadTheCopy ==
  \/ pc = "verify"
  \/ pc = "recheck" /\ copy[Count] = param_count /\ param_count \in 1..MaxParams
  => \A i \in 0..param_count : Info(i) + 2 \in DOMAIN copy

(* Handlers change values, never the layout of the copy: count, flag, types, *)
(* offsets and sizes stay as they were verified.                             *)
LayoutStable ==
  [][pc = "handle" => \A a \in 0..(Info(copy[Count] + 1) - 1) : copy'[a] = copy[a]]_vars

(* A message that nobody disturbs is refused by no check: it is answered     *)
(* after its handler only.                                                   *)
UndisturbedAccepted == [][Undisturbed /\ pc' = "answered" => pc = "release"]_vars

(* The handler of such a message finds the count, the types, the offsets,    *)
(* the sizes and every word of the values of the caller.                     *)
UndisturbedCopied ==
  Undisturbed /\ pc = "handle" =>
    /\ copy[Count] = Len(sent)
    /\ \A i \in 1..Len(sent) :
         /\ TypeOf(copy, i - 1) = sent[i].type
         /\ OffsetOf(copy, i - 1) = sent[i].offset
         /\ SizeOf(copy, i - 1) = sent[i].size
         /\ \A a \in SentArea(i) : copy[a] = In

(* After a successful call the caller finds in its in/out parameters what    *)
(* the handler left there, and its other parameters as they were.            *)
InOutDelivered ==
  Undisturbed /\ pc = "answered" /\ answer = "ok" =>
    \A i \in 1..Len(sent) :
      \A a \in SentArea(i) :
        channel[a] = IF sent[i].type = INOUTPTR_TYPE THEN Out ELSE In

(* No object allocated for an argument is left when the call is answered.    *)
NoArgumentLeft == pc = "answered" => args = {} /\ copy = Nothing

(* What the checks and the arguments stand on: the ParamInfos that are       *)
(* checked have been copied, and with the answer every argument and the copy *)
(* are gone (crosscall_server.cc:140, sharedmem_ipc_server.cc:221).          *)
CopyInv == TypeOK /\ ChecksReadTheCopy /\ NoArgumentLeft

(* A message that nobody disturbs is served: no check refuses it, its        *)
(* handler finds what the caller put in, and the caller what the handler     *)
(* left in the in/out parameters (crosscall_params.h:187 with                *)
(* crosscall_server.cc:120).                                                 *)
UndisturbedServed ==
  /\ [](UndisturbedCopied /\ InOutDelivered)
  /\ [][Undisturbed /\ pc' = "answered" => pc = "release"]_vars
================================================================================
