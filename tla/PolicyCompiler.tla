---------------------------- MODULE PolicyCompiler ----------------------------
(***************************************************************************)
(* How a seccomp policy becomes a filter: PolicyCompiler over the results  *)
(* of the policy language (bpf_dsl) and the ranges of system calls         *)
(* (SyscallSet).  Each system call's result is compiled, neighbours with   *)
(* the same code are one range, a binary search over the ranges is put in  *)
(* front, then the checks of the number, of the escape hatch for unsafe    *)
(* traps, and of the architecture.                                         *)
(*                                                                         *)
(* A word has WordBits bits where the code has 32, and bit WordBits - 2    *)
(* stands for bit 30.  A policy's argument conditions are about one        *)
(* argument, two words of the input.  Results and conditions are objects   *)
(* that refer to older ones by their position.                             *)
(***************************************************************************)
EXTENDS CodeGen

CONSTANTS
  Policies,   \* the policies that are compiled
  ArgLo, ArgHi  \* the words the argument of a system call is made of

Registry == INSTANCE TrapIds WITH Keys <- {}, keys <- <<>>, answer <- 0, ran <- <<>>

(* Builds: whether pointers have 64 bits, and the ranges of valid numbers,   *)
(* with fewer numbers than the real ones.  ARM has private and ghost system  *)
(* calls, and those of MIPS do not begin with zero.                          *)
Intel == [intel |-> TRUE, wide |-> TRUE, valid |-> <<<<0, 2>>>>, required |-> {1}]
Arm == [intel |-> FALSE, wide |-> FALSE, valid |-> <<<<0, 1>>, <<3, 4>>, <<6, 6>>>>,
        required |-> {1}]
Mips == [intel |-> FALSE, wide |-> FALSE, valid |-> <<<<2, 4>>>>, required |-> {3}]

IsValid(build, num) ==
  \E i \in DOMAIN build.valid : build.valid[i][1] <= num /\ num <= build.valid[i][2]
ValidNumbers(build) == {num \in Word : IsValid(build, num)}

-----------------------------------------------------------------------------
(* Results and conditions of the policy language.                            *)
Return(action, data) == [kind |-> "return", ret |-> <<action, data>>]
TrapTo(fnc, aux, safe) ==
  [kind |-> "trap", key |-> [fnc |-> fnc, aux |-> aux, safe |-> safe]]
If(cond, then, else) == [kind |-> "if", cond |-> cond, then |-> then, else |-> else]

BoolConst(value) == [kind |-> "const", value |-> value]
ArgEq(width, mask, value) ==
  [kind |-> "equal", width |-> width, mask |-> mask, value |-> value]
Not(of) == [kind |-> "not", of |-> of]
AllOf(lhs, rhs) == [kind |-> "and", lhs |-> lhs, rhs |-> rhs]
AnyOf(lhs, rhs) == [kind |-> "or", lhs |-> lhs, rhs |-> rhs]

Allow == Return("ALLOW", 0)
Error(err) == Return("ERRNO", err)
Kill == Return("KILL", 0)
Trace(aux) == Return("TRACE", aux)
Actions == {"ALLOW", "ERRNO", "KILL", "TRACE"}

Lower == 1
Upper == 2
Ones == Top - 1

(* What makes a policy: each object refers to older ones, a result is not a  *)
(* condition, a handler is not ReturnErrno (which is private to the          *)
(* compiler), and the arguments of a condition pass the checks of            *)
(* MaskedEqual.  Valid numbers are sorted ranges of positive numbers.        *)
ResultAt(p, i) == i \in DOMAIN p.objects /\ p.objects[i].kind \in {"return", "trap", "if"}
CondAt(p, i) == i \in DOMAIN p.objects /\ p.objects[i].kind \in {"const", "equal", "not", "and", "or"}

Compared(p, e) ==
  /\ e.width \in {4, 8} /\ (~p.build.wide => e.width = 4)
  /\ \A half \in {Lower, Upper} :
       /\ e.mask[half] \in Word /\ e.value[half] \in Word
       /\ e.value[half] = BitAnd(e.value[half], e.mask[half])
  /\ e.width = 4 => e.mask[Upper] = 0

Built(p, i) ==
  LET e == p.objects[i]
      older(j) == j \in Nat /\ j < i
  IN  /\ ResultAt(p, i) \/ CondAt(p, i)
      /\ e.kind = "return" => e.ret \in Actions \X Nat
      /\ e.kind = "trap" => e.key.fnc # "ReturnErrno" /\ e.key.safe \in BOOLEAN
      /\ e.kind = "if" => /\ older(e.cond) /\ CondAt(p, e.cond)
                         /\ older(e.then) /\ ResultAt(p, e.then)
                         /\ older(e.else) /\ ResultAt(p, e.else)
      /\ e.kind = "const" => e.value \in BOOLEAN
      /\ e.kind = "equal" => Compared(p, e)
      /\ e.kind = "not" => older(e.of) /\ CondAt(p, e.of)
      /\ e.kind \in {"and", "or"} => /\ older(e.lhs) /\ CondAt(p, e.lhs)
                                     /\ older(e.rhs) /\ CondAt(p, e.rhs)

BuildOK(build) ==
  /\ build.intel \in BOOLEAN /\ build.wide \in BOOLEAN
  /\ build.valid \in Seq(Nat \X Nat) /\ build.valid # <<>>
  /\ \A i \in DOMAIN build.valid :
       /\ build.valid[i][1] <= build.valid[i][2] /\ build.valid[i][2] < Half
       /\ \A j \in 1..(i - 1) : build.valid[j][2] < build.valid[i][1]
  /\ build.required \subseteq ValidNumbers(build)
  /\ build.intel => \A num \in build.required : num < Half \div 2

IsPolicy(p) ==
  /\ BuildOK(p.build) /\ p.debugging \in BOOLEAN
  /\ Len(p.objects) \in Nat /\ DOMAIN p.objects = 1..Len(p.objects)
  /\ \A i \in DOMAIN p.objects : Built(p, i)
  /\ \A num \in ValidNumbers(p.build) : ResultAt(p, p.result[num])
  /\ ResultAt(p, p.invalid)

ASSUME PolicyAssumption ==
  /\ WordBits >= 2
  /\ ArgLo \subseteq Word /\ ArgHi \subseteq Word
  /\ \A p \in Policies : IsPolicy(p)

UnsafeAt(p, unsafe, i) ==
  LET e == p.objects[i]
  IN  \/ e.kind = "trap" /\ ~e.key.safe
      \/ e.kind = "if" /\ (unsafe[e.then] \/ unsafe[e.else])

HasUnsafe(p) == LET unsafe[i \in DOMAIN p.objects] == UnsafeAt(p, unsafe, i) IN unsafe

HasUnsafeTraps(p) ==
  \/ \E num \in ValidNumbers(p.build) : HasUnsafe(p)[p.result[num]]
  \/ HasUnsafe(p)[p.invalid]

IsAllow(e) == e = Allow
IsDeny(e) ==
  \/ e.kind = "trap"
  \/ e.kind = "return" /\ e.ret[1] \in {"ERRNO", "KILL"}

-----------------------------------------------------------------------------
(* Compilation.  What the compiler asks CodeGen for never depends on the     *)
(* nodes that it gets, so that its calls of MakeInstruction are listed here, *)
(* in their order, and made by the action Answer.  A node is known by the    *)
(* number of its request: c has the requests that come after the first       *)
(* c.base ones, and the node made last.                                      *)
Code(base) == [base |-> base, requests |-> <<>>, node |-> kNullNode]
Count(c) == c.base + Len(c.requests)

Emit(c, code, k, jt, jf) ==
  [base |-> c.base, requests |-> Append(c.requests, <<code, k, jt, jf>>), node |-> Count(c) + 1]

Joined(c, d) == [base |-> c.base, requests |-> c.requests \o d.requests, node |-> d.node]
At(c, node) == [base |-> c.base, requests |-> c.requests, node |-> node]

Then(c, code, k) == Emit(c, code, k, c.node, kNullNode)
OnTrue(c, code, k, else) == Emit(c, code, k, c.node, else)
OnFalse(c, code, k, then) == Emit(c, code, k, then, c.node)

EmitTrap(c, key) == Emit(c, "RET", <<"TRAP", key>>, kNullNode, kNullNode)

(* The panic function of SandboxBPF.                                         *)
PanicKey == [fnc |-> "SandboxPanicTrap", aux |-> 0, safe |-> TRUE]
Panic(c) == EmitTrap(c, PanicKey)

ErrnoKey(err) == [fnc |-> "ReturnErrno", aux |-> err, safe |-> TRUE]

(* Errors go through a handler when there are unsafe traps, so that they can *)
(* be lifted inside one.                                                     *)
EmitReturn(c, ret, unsafe) ==
  IF unsafe /\ ret[1] = "ERRNO" THEN EmitTrap(c, ErrnoKey(ret[2]))
  ELSE Emit(c, "RET", ret, kNullNode, kNullNode)

SingleBit(mask) == \E i \in 0..(WordBits - 1) : mask = Power[i]
HalfName(half) == <<"arg_lo", "arg_hi">>[half]

(* The upper half of an argument of 32 bits is zero or, on a machine of 64,  *)
(* a sign extension; anything else is a panic, the node of p.                *)
SignCheck(p, wide, passed) ==
  LET sign == Then(Emit(p, "JSET", Half, passed, p.node), "LD", HalfName(Lower))
      zero == IF wide THEN OnFalse(OnTrue(sign, "JEQ", Ones, p.node), "JEQ", 0, passed)
              ELSE OnFalse(p, "JEQ", 0, passed)
  IN  Then(zero, "LD", HalfName(Upper))

MaskedTest(c, mask, value, passed, failed) ==
  CASE mask = Ones -> Emit(c, "JEQ", value, passed, failed)
    [] mask # Ones /\ value = 0 -> Emit(c, "JSET", mask, failed, passed)
    [] mask # Ones /\ value # 0 /\ mask = value /\ SingleBit(mask) ->
         Emit(c, "JSET", mask, passed, failed)
    [] OTHER -> Then(Emit(c, "JEQ", value, passed, failed), "AND", mask)

MaskedEqualHalf(c, wide, cond, half, passed, failed) ==
  LET mask == cond.mask[half]
  IN  IF cond.width = 4 /\ half = Upper THEN SignCheck(Panic(c), wide, passed)
      ELSE IF mask = 0 THEN At(c, passed)
      ELSE Then(MaskedTest(c, mask, cond.value[half], passed, failed), "LD", HalfName(half))

MaskedEqual(c, wide, cond, passed, failed) ==
  LET lower == MaskedEqualHalf(c, wide, cond, Lower, passed, failed)
  IN  MaskedEqualHalf(lower, wide, cond, Upper, lower.node, failed)

(* Compile of a condition, given how many requests came before and the nodes *)
(* to go on with.  The right side of two is compiled first.                  *)
CondCode(p, compile, i) ==
  [from \in Nat \X Nat \X Nat |->
     LET cond == p.objects[i]
         then == from[2]
         else == from[3]
         rhs == compile[cond.rhs][from]
         andLhs == compile[cond.lhs][<<Count(rhs), rhs.node, else>>]
         orLhs == compile[cond.lhs][<<Count(rhs), then, rhs.node>>]
     IN  CASE cond.kind = "const" -> At(Code(from[1]), IF cond.value THEN then ELSE else)
           [] cond.kind = "equal" ->
                MaskedEqual(Code(from[1]), p.build.wide, cond, then, else)
           [] cond.kind = "not" -> compile[cond.of][<<from[1], else, then>>]
           [] cond.kind = "and" -> Joined(rhs, andLhs)
           [] cond.kind = "or" -> Joined(rhs, orLhs)
           [] OTHER -> Code(0)]     \* not a condition

CompileCond(p) == LET compile[i \in DOMAIN p.objects] == CondCode(p, compile, i) IN compile

(* Compile of a result, given how many requests came before.                 *)
ResultCode(p, compile, i) ==
  [base \in Nat |->
     LET e == p.objects[i]
         then == compile[e.then][base]
         else == compile[e.else][Count(then)]
         cond == CompileCond(p)[e.cond][<<Count(else), then.node, else.node>>]
     IN  CASE e.kind = "return" -> EmitReturn(Code(base), e.ret, HasUnsafeTraps(p))
           [] e.kind = "trap" -> EmitTrap(Code(base), e.key)
           [] e.kind = "if" -> Joined(Joined(then, else), cond)
           [] OTHER -> Code(0)]     \* not a result

CompileResult(p) == LET compile[i \in DOMAIN p.objects] == ResultCode(p, compile, i) IN compile

(* The binary search over n ranges from the one at from[2] on.               *)
TableCode(found, assemble, n) ==
  [from \in Nat \X Nat |->
     LET mid == n \div 2
         below == assemble[mid][from]
         above == assemble[n - mid][<<Count(below), from[2] + mid>>]
     IN  IF n = 1 THEN At(Code(from[1]), found[from[2]].node)
         ELSE Emit(Joined(below, above), "JGE", found[from[2] + mid].from, above.node, below.node)]

AssembleJumpTable(found) ==
  LET assemble[n \in 1..Len(found)] == TableCode(found, assemble, n) IN assemble

-----------------------------------------------------------------------------
(* SyscallSet::Iterator over every number of interest: each valid one, the   *)
(* ends of each range of invalid ones, and the ends of the signed and of the *)
(* unsigned words.  Zero is the end.                                         *)
Ahead(build, num) == {i \in DOMAIN build.valid : num <= build.valid[i][2]}

(* The number after num where range is the first one that is not behind it.  *)
NextAt(range, num) ==
  CASE range[1] > 0 /\ num < range[1] - 1 -> range[1] - 1
    [] ~(range[1] > 0 /\ num < range[1] - 1) /\ num < range[1] -> range[1]
    [] num >= range[1] -> num + 1

NextBehind(num) ==
  IF num < Half - 1 THEN Half - 1
  ELSE IF num < Half THEN Half
  ELSE IF num < Ones THEN Ones ELSE 0

(* Mutant: only the first range is left for the number after it. *)
NextOfFirstRange(build, num) ==
  IF num <= build.valid[1][2] THEN num + 1 ELSE NextBehind(num)

NextSyscall(build, num) ==
  IF Ahead(build, num) = {} THEN NextBehind(num)
  ELSE NextAt(build.valid[CHOOSE i \in Ahead(build, num) : \A j \in Ahead(build, num) : i <= j], num)

-----------------------------------------------------------------------------
VARIABLES
  policy,        \* build, debugging, objects, the result of each number and of invalid ones
  stage,         \* where Compile is
  keys,          \* the trap registry
  unsafe_enabled,\* has_unsafe_traps_ of the registry
  requests,      \* the calls of MakeInstruction
  nodes,         \* what those that were made returned
  ranges,        \* the ranges found so far: first number and node
  sysnum,        \* the number the iteration is at
  invalid_node, old_sysnum, old_node, new_node,
  head           \* the first instruction of what is assembled

rangeVars == <<ranges, sysnum, invalid_node, old_sysnum, old_node, new_node>>
compilerVars == <<gen, policy, stage, keys, unsafe_enabled, requests, nodes, rangeVars, head>>

ResultOf(num) == IF IsValid(policy.build, num) THEN policy.result[num] ELSE policy.invalid

IsTrap(r) == r[1] = "RET" /\ r[2][1] = "TRAP"
Operand(ks, r) == IF IsTrap(r) THEN <<"TRAP", Registry!IdOf(ks, r[2][2])>> ELSE r[2]
NodeOf(n) == IF n = kNullNode THEN kNullNode ELSE nodes[n]

(* The next call of MakeInstruction; the handler of a trap is added first.   *)
Answer ==
  /\ Len(nodes) < Len(requests)
  /\ LET r == requests[Len(nodes) + 1]
         ks == IF IsTrap(r) THEN Registry!WithKey(keys, r[2][2]) ELSE keys
         made == MakeInstruction(gen, r[1], Operand(ks, r), NodeOf(r[3]), NodeOf(r[4]))
     IN  keys' = ks /\ gen' = made.gen /\ nodes' = Append(nodes, made.node)
  /\ UNCHANGED <<policy, stage, unsafe_enabled, requests, rangeVars, head>>

Answered == Len(nodes) = Len(requests)
Ask(c) == requests' = requests \o c.requests /\ UNCHANGED <<gen, keys, nodes>>
Result(i, base) == CompileResult(policy)[i][base]

Acceptable ==
  /\ IsDeny(policy.objects[policy.invalid])
  /\ HasUnsafeTraps(policy) =>
       /\ policy.debugging     \* the escape address is known, EnableUnsafeTraps agrees
       /\ \A num \in policy.build.required : IsAllow(policy.objects[policy.result[num]])

Stop ==
  stage' = "died" /\ UNCHANGED <<gen, keys, unsafe_enabled, requests, nodes, rangeVars, head>>

(* Compile and the head of FindRanges: the checks, the result of invalid     *)
(* numbers and the one of number zero.                                       *)
StartCompile ==
  /\ stage = "compile"
  /\ \/ ~Acceptable /\ Stop
     \/ LET invalid == Result(policy.invalid, 0)
            first == IF IsValid(policy.build, 0)
                     THEN Joined(invalid, Result(policy.result[0], Count(invalid))) ELSE invalid
        IN  /\ Acceptable
            /\ unsafe_enabled' = (unsafe_enabled \/ HasUnsafeTraps(policy))
            /\ Ask(first)
            /\ invalid_node' = invalid.node
            /\ old_node' = first.node
            /\ stage' = "ranges"
            /\ UNCHANGED <<ranges, sysnum, old_sysnum, new_node, head>>
  /\ UNCHANGED policy

(* One number of FindRanges: its result is compiled ...                      *)
CompileNumber ==
  /\ stage = "ranges" /\ Answered
  /\ \/ /\ IsValid(policy.build, sysnum)
        /\ LET c == Result(policy.result[sysnum], Len(requests)) IN Ask(c) /\ new_node' = c.node
     \/ /\ ~IsValid(policy.build, sysnum)
        /\ new_node' = invalid_node /\ UNCHANGED <<gen, keys, requests, nodes>>
  /\ stage' = "compare"
  /\ UNCHANGED <<policy, unsafe_enabled, ranges, sysnum, invalid_node, old_sysnum, old_node, head>>

(* ... and another node begins a range.  The last range is closed after the  *)
(* last number.                                                              *)
CompareNodes ==
  /\ stage = "compare" /\ Answered
  /\ LET next == NextSyscall(policy.build, sysnum)
         same == nodes[new_node] = nodes[old_node]
         closed == IF same THEN ranges ELSE Append(ranges, [from |-> old_sysnum, node |-> old_node])
         from == IF same THEN old_sysnum ELSE sysnum
         last == IF same THEN old_node ELSE new_node
     IN  /\ old_sysnum' = from /\ old_node' = last /\ sysnum' = next
         /\ ranges' = IF next = 0 THEN Append(closed, [from |-> from, node |-> last]) ELSE closed
         /\ stage' = IF next = 0 THEN "table" ELSE "ranges"
  /\ UNCHANGED <<gen, policy, keys, unsafe_enabled, requests, nodes, invalid_node, new_node, head>>

(* Bit 30 of a number chooses another interface on Intel.                    *)
CheckSyscallNumber(c, intel) ==
  LET p == Panic(c) IN
  IF intel THEN Emit(p, "JSET", Half \div 2, p.node, c.node) ELSE c

Dispatch == AssembleJumpTable(ranges)[Len(ranges)][<<Len(requests), 1>>]

DispatchSyscall ==
  /\ stage = "table" /\ Answered
  /\ LET c == Then(CheckSyscallNumber(Dispatch, policy.build.intel), "LD", "nr")
     IN  Ask(c) /\ head' = c.node
  /\ stage' = "hatch"
  /\ UNCHANGED <<policy, unsafe_enabled, rangeVars>>

(* The address Syscall::Call makes its system calls from.                    *)
escapepc == [ip_hi |-> 1, ip_lo |-> 2]

Hatch(base, rest) ==
  LET allow == EmitReturn(Code(base), Allow.ret, TRUE)
      hi == Then(OnTrue(allow, "JEQ", escapepc.ip_hi, rest), "LD", "ip_hi")
  IN  Then(OnTrue(hi, "JEQ", escapepc.ip_lo, rest), "LD", "ip_lo")

MaybeAddEscapeHatch ==
  /\ stage = "hatch" /\ Answered
  /\ LET c == Hatch(Len(requests), head)
     IN  IF HasUnsafeTraps(policy) THEN Ask(c) /\ head' = c.node
         ELSE UNCHANGED <<gen, keys, requests, nodes, head>>
  /\ stage' = "arch"
  /\ UNCHANGED <<policy, unsafe_enabled, rangeVars>>

SECCOMP_ARCH == 0

ArchCheck(base, passed) ==
  LET p == Panic(Code(base)) IN Then(Emit(p, "JEQ", SECCOMP_ARCH, passed, p.node), "LD", "arch")

CheckArch ==
  /\ stage = "arch" /\ Answered
  /\ LET c == ArchCheck(Len(requests), head) IN Ask(c) /\ head' = c.node
  /\ stage' = "done"
  /\ UNCHANGED <<policy, unsafe_enabled, rangeVars>>

CompilerNext ==
  \/ Answer \/ StartCompile \/ CompileNumber \/ CompareNodes
  \/ DispatchSyscall \/ MaybeAddEscapeHatch \/ CheckArch

CompilerInit ==
  /\ gen = NewGen
  /\ policy \in Policies
  /\ stage = "compile"
  /\ keys = <<>> /\ unsafe_enabled = FALSE
  /\ requests = <<>> /\ nodes = <<>>
  /\ ranges = <<>> /\ sysnum = 0 /\ old_sysnum = 0
  /\ invalid_node = kNullNode /\ old_node = kNullNode /\ new_node = kNullNode
  /\ head = kNullNode

CompilerSpec == CompilerInit /\ [][CompilerNext]_compilerVars

-----------------------------------------------------------------------------
(* What a policy says of a system call, without any code.  An argument of 32 *)
(* bits whose upper half is neither zero nor, on a machine of 64, a sign     *)
(* extension is the panic of the condition that looks at it.                 *)
Equal(wide, cond, lo, hi) ==
  IF cond.width = 4 /\ hi # 0 /\ ~(wide /\ hi = Ones /\ lo >= Half) THEN "panic"
  ELSE IF /\ BitAnd(lo, cond.mask[Lower]) = cond.value[Lower]
          /\ cond.width = 8 => BitAnd(hi, cond.mask[Upper]) = cond.value[Upper]
       THEN "yes" ELSE "no"

Opposite(holds) == [yes |-> "no", no |-> "yes", panic |-> "panic"][holds]

HoldsAt(p, lo, hi, holds, i) ==
  LET cond == p.objects[i]
  IN  CASE cond.kind = "const" -> IF cond.value THEN "yes" ELSE "no"
        [] cond.kind = "equal" -> Equal(p.build.wide, cond, lo, hi)
        [] cond.kind = "not" -> Opposite(holds[cond.of])
        [] cond.kind = "and" -> IF holds[cond.lhs] = "yes" THEN holds[cond.rhs] ELSE holds[cond.lhs]
        [] cond.kind = "or" -> IF holds[cond.lhs] = "no" THEN holds[cond.rhs] ELSE holds[cond.lhs]
        [] OTHER -> "panic"      \* not a condition

Holds(p, lo, hi) == LET holds[i \in DOMAIN p.objects] == HoldsAt(p, lo, hi, holds, i) IN holds

SaysAt(p, lo, hi, says, i) ==
  LET e == p.objects[i]
      holds == Holds(p, lo, hi)[e.cond]
  IN  CASE e.kind = "return" -> e.ret
        [] e.kind = "trap" -> <<"TRAP", e.key>>
        [] e.kind = "if" /\ holds = "yes" -> says[e.then]
        [] e.kind = "if" /\ holds = "no" -> says[e.else]
        [] e.kind = "if" /\ holds = "panic" -> <<"TRAP", PanicKey>>
        [] OTHER -> Invalid      \* not a result

Says(p, lo, hi) == LET says[i \in DOMAIN p.objects] == SaysAt(p, lo, hi, says, i) IN says

Promised(data) ==
  IF data.arch # SECCOMP_ARCH THEN <<"TRAP", PanicKey>>
  ELSE IF HasUnsafeTraps(policy) /\ data.ip_hi = escapepc.ip_hi /\ data.ip_lo = escapepc.ip_lo
       THEN Allow.ret
  ELSE IF policy.build.intel /\ (data.nr \div (Half \div 2)) % 2 = 1
       THEN <<"TRAP", PanicKey>>
  ELSE Says(policy, data.arg_lo, data.arg_hi)[ResultOf(data.nr)]

(* What the process sees of a result: the error of ReturnErrno is an error.  *)
Seen(result) ==
  IF result[1] # "TRAP" THEN result
  ELSE IF keys[result[2]].fnc = "ReturnErrno" THEN <<"ERRNO", keys[result[2]].aux>>
  ELSE <<"TRAP", keys[result[2]]>>

Data ==
  [nr : Word, arch : 0..1, ip_hi : 0..1, ip_lo : {0, 2}, arg_lo : {0}, arg_hi : {0}]
    \union [nr : ValidNumbers(policy.build), arch : {0}, ip_hi : {0}, ip_lo : {0},
            arg_lo : ArgLo, arg_hi : ArgHi]

Compiled == stage = "done" /\ Answered
Filter(data) == EvaluateBPF(gen.program, nodes[head], data)

(* The filter gives every system call, of any number and any argument, what  *)
(* the policy says of it: the verifier's run of it is never invalid, and the *)
(* identifiers it returns are those of the policy's handlers                 *)
(* (syscall_set.cc:94, policy_compiler.cc:239).                              *)
ProgramIsPolicy == Compiled => \A data \in Data : Seen(Filter(data)) = Promised(data)

(* A filter that names the handler of an unsafe trap exists only when the    *)
(* user asked for debugging and the registry agreed, and it lets through the *)
(* system calls that the handler's return needs (policy_compiler.cc:107).    *)
UnsafeTrapsAllowed ==
  (\E id \in DOMAIN keys : ~keys[id].safe) =>
    /\ policy.debugging /\ unsafe_enabled
    /\ Compiled => \A data \in Data :
         data.nr \in policy.build.required /\ data.arch = SECCOMP_ARCH =>
           Filter(data) = Allow.ret

(* The compiler: the filter of a policy does what the policy says, and has   *)
(* unsafe traps only where they are allowed (policy_compiler.cc:107, 239).   *)
CompilerInv == ProgramIsPolicy /\ UnsafeTrapsAllowed
================================================================================
