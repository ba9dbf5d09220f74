-------------------------------- MODULE CodeGen --------------------------------
(***************************************************************************)
(* The assembler of seccomp filters (CodeGen) and the machine that runs    *)
(* them (Verifier::EvaluateBPF, which does what the kernel does).  A       *)
(* caller asks for instructions one by one, every branch after the nodes   *)
(* it leads to; the program is kept in reverse, so that a node keeps its   *)
(* number.  A branch reaches BranchRange instructions ahead: further ones  *)
(* go through a jump that CodeGen adds.                                    *)
(*                                                                         *)
(* Words are of WordBits bits instead of 32.  Nodes are numbered from 1.   *)
(***************************************************************************)
EXTENDS Naturals, Sequences

CONSTANTS
  WordBits,         \* bits of a word, 32
  BranchRange,      \* kBranchRange, 255
  Returns,          \* what a caller lets the filter return
  Steps,            \* the loads and masks it asks for: code and operand
  Tests,            \* the branches, likewise
  MaxInstructions   \* bound: instructions it asks for one by one

Power[i \in 0..WordBits] == IF i = 0 THEN 1 ELSE 2 * Power[i - 1]
Top == Power[WordBits]
Word == 0..(Top - 1)
Fields == {"nr", "arch", "ip_hi", "ip_lo", "arg_lo", "arg_hi"}
Inputs == {[field \in Fields |-> n] : n \in 0..1}
Branches == {"JEQ", "JGE", "JSET"}

ASSUME CodeGenAssumption ==
  /\ WordBits \in Nat \ {0} /\ BranchRange \in Nat \ {0}
  /\ Steps \subseteq ({"LD"} \X Fields) \union ({"AND"} \X Word)
  /\ Tests \subseteq Branches \X Word

Half == Top \div 2        \* 1 << 31

kNullNode == 0
NoAccumulator == Top      \* acc_is_valid is false
Invalid == <<"invalid", 0>>

VARIABLE gen    \* the CodeGen object: program_, equivalent_, memos_

NewGen == [program |-> <<>>, equivalent |-> <<>>, memos |-> <<>>]
Nodes(g) == 1..Len(g.program)

-----------------------------------------------------------------------------
(* The assembler.                                                            *)

Offset(g, target) == Len(g.program) - target

AppendInsn(g, code, k, jt, jf) ==
  [g EXCEPT !.program = Append(@, [code |-> code, k |-> k, jt |-> jt, jf |-> jf]),
            !.equivalent = Append(@, Len(g.program) + 1)]

Made(g, node) == [gen |-> g, node |-> node]

(* A jump to target was added last, and stands for it from now on.           *)
NewJump(h, target) ==
  Made([h EXCEPT !.equivalent[target] = Len(h.program)], Len(h.program))

WithinRange(g, target, range) ==
  IF Offset(g, target) <= range THEN Made(g, target)
  ELSE IF Offset(g, g.equivalent[target]) <= range THEN Made(g, g.equivalent[target])
  ELSE NewJump(AppendInsn(g, "JA", Offset(g, target), 0, 0), target)

(* Mutant: where t is was counted before the jump for jf was added. *)
BranchToTooSoon(code, k, t, f) ==
  AppendInsn(f.gen, code, k, Offset(t.gen, t.node), Offset(f.gen, f.node))

(* A branch to t and then, once what f needed was added, to f.               *)
BranchTo(code, k, t, f) == AppendInsn(f.gen, code, k, Offset(f.gen, t.node), Offset(f.gen, f.node))

(* A branch leaves room for the jump that the other one may need.            *)
AppendBranch(code, k, t, jf) == BranchTo(code, k, t, WithinRange(t.gen, jf, BranchRange))

(* Any other instruction but a return is followed by its successor at once.  *)
AppendInstruction(g, code, k, jt, jf) ==
  IF code \in Branches THEN AppendBranch(code, k, WithinRange(g, jt, BranchRange - 1), jf)
  ELSE IF code = "RET" THEN AppendInsn(g, code, k, 0, 0)
  ELSE AppendInsn(WithinRange(g, jt, 0).gen, code, k, 0, 0)

Remembered(h, key) ==
  Made([h EXCEPT !.memos = [other \in DOMAIN h.memos \union {key} |->
                              IF other = key THEN Len(h.program) ELSE h.memos[other]]],
       Len(h.program))

MakeInstruction(g, code, k, jt, jf) ==
  LET key == <<code, k, jt, jf>>
  IN  IF key \in DOMAIN g.memos THEN Made(g, g.memos[key])
      ELSE Remembered(AppendInstruction(g, code, k, jt, jf), key)

-----------------------------------------------------------------------------
(* The machine.                                                              *)

Bit(a, i) == (a \div Power[i]) % 2 = 1
BitAnd(a, b) ==
  LET sum[i \in 0..WordBits] ==
        IF i = 0 THEN 0
        ELSE sum[i - 1] + (IF Bit(a, i - 1) /\ Bit(b, i - 1) THEN Power[i - 1] ELSE 0)
  IN  sum[WordBits]

Taken(code, k, acc) ==
  CASE code = "JEQ" -> acc = k
    [] code = "JGE" -> acc >= k
    [] code = "JSET" -> BitAnd(acc, k) # 0

(* Masking does not make an accumulator valid, and a branch needs a valid    *)
(* one and both of its successors inside the program.                        *)
Masked(acc, k) == IF acc = NoAccumulator THEN NoAccumulator ELSE BitAnd(acc, k)
Refused(insn, ip, acc) == acc = NoAccumulator \/ insn.jt + 1 >= ip \/ insn.jf + 1 >= ip

(* What running from instruction ip returns, for each value of the           *)
(* accumulator: the constant of the return that is reached, or Invalid where *)
(* the verifier refuses it.  after says so of the instructions behind ip.    *)
Executed(program, data, after, ip) ==
  [acc \in 0..Top |->
     LET insn == program[ip]
     IN  CASE ip = 0 -> Invalid
           [] ip > 0 /\ insn.code = "RET" -> insn.k
           [] ip > 0 /\ insn.code = "LD" -> after[ip - 1][data[insn.k]]
           [] ip > 0 /\ insn.code = "AND" -> after[ip - 1][Masked(acc, insn.k)]
           [] ip > 0 /\ insn.code = "JA" ->
                IF insn.k + 1 >= ip THEN Invalid ELSE after[ip - 1 - insn.k][acc]
           [] ip > 0 /\ insn.code \in Branches ->
                IF Refused(insn, ip, acc) THEN Invalid
                ELSE after[ip - 1 - (IF Taken(insn.code, insn.k, acc) THEN insn.jt ELSE insn.jf)][acc]]

Results(program, data) ==
  LET result[ip \in 0..Len(program)] == Executed(program, data, result, ip) IN result

EvaluateBPF(program, head, data) == Results(program, data)[head][NoAccumulator]

-----------------------------------------------------------------------------
(* A caller that asks for any instructions over the nodes it was given.      *)

Given == {gen.memos[key] : key \in DOMAIN gen.memos}
Request(code, k, jt, jf) ==
  /\ <<code, k, jt, jf>> \notin DOMAIN gen.memos
  /\ Len(gen.program) < MaxInstructions
  /\ gen' = MakeInstruction(gen, code, k, jt, jf).gen

RequestReturn == \E k \in Returns : Request("RET", k, kNullNode, kNullNode)
RequestStep == \E step \in Steps, jt \in Given : Request(step[1], step[2], jt, kNullNode)
RequestBranch == \E test \in Tests, jt, jf \in Given : Request(test[1], test[2], jt, jf)

GenNext == RequestReturn \/ RequestStep \/ RequestBranch

GenSpec == gen = NewGen /\ [][GenNext]_gen

-----------------------------------------------------------------------------
(* What a node means by the requests alone, whatever was emitted for it.     *)
RequestOf(node) == CHOOSE key \in DOMAIN gen.memos : gen.memos[key] = node

Explained(key, data, value) ==
  [acc \in 0..Top |->
     CASE key[1] = "RET" -> key[2]
       [] key[1] = "LD" -> value[key[3]][data[key[2]]]
       [] key[1] = "AND" -> value[key[3]][Masked(acc, key[2])]
       [] key[1] \in Branches ->
            IF acc = NoAccumulator THEN Invalid
            ELSE value[IF Taken(key[1], key[2], acc) THEN key[3] ELSE key[4]][acc]]

Meaning(node, data) ==
  LET value[n \in Given] == Explained(RequestOf(n), data, value) IN value[node][NoAccumulator]

(* The code from a node on does what its requests say, through any jumps     *)
(* that were added (codegen.cc:82), and every request has its own node.      *)
CodeIsRequested ==
  \A key \in DOMAIN gen.memos : \A data \in Inputs :
    /\ RequestOf(gen.memos[key]) = key
    /\ EvaluateBPF(gen.program, gen.memos[key], data) = Meaning(gen.memos[key], data)

(* "the most recent semantically-equivalent node" (codegen.h:105): running   *)
(* from it, whatever the accumulator holds, is running from the node.        *)
EquivalentNodes ==
  \A n \in Nodes(gen), data \in Inputs :
    LET loaded(node) ==   \* a load in front, and a jump to the node
          EvaluateBPF(gen.program \o
            <<[code |-> "JA", k |-> Offset(gen, node), jt |-> 0, jf |-> 0],
              [code |-> "LD", k |-> "nr", jt |-> 0, jf |-> 0]>>,
            Len(gen.program) + 2, data)
    IN  gen.equivalent[n] # n => loaded(gen.equivalent[n]) = loaded(n)

(* Every branch fits its field of eight bits, and every jump is a forward    *)
(* one inside the program (codegen.cc:85).                                   *)
JumpsFit ==
  \A n \in Nodes(gen) :
    LET insn == gen.program[n] IN
    /\ insn.code \in Branches =>
         /\ insn.jt <= BranchRange /\ insn.jf <= BranchRange
         /\ insn.jt + 1 < n /\ insn.jf + 1 < n
    /\ insn.code = "JA" => insn.k + 1 < n

(* The assembler: the code of a node means what was asked for, a node that   *)
(* stands for another one means the same, and no jump reaches further than   *)
(* its field (codegen.cc:64-121).                                            *)
AssemblerInv == CodeIsRequested /\ EquivalentNodes /\ JumpsFit
================================================================================
