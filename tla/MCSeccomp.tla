------------------------------- MODULE MCSeccomp -------------------------------
(* Instances for TLC of the assembler alone, of the compiler over it, and of *)
(* the registry of traps: an execution is one of the three, chosen at its    *)
(* start.                                                                    *)
EXTENDS PolicyCompiler, TrapRegistry, TLC

CONSTANTS k1, k2, k3, k4

VARIABLE part

MCReturns == {<<"ALLOW", 0>>, <<"KILL", 0>>}
MCSteps == {<<"LD", "nr">>}
MCTests == {<<"JGE", 1>>}

(* The objects of every policy, before its conditions.                       *)
Results0 ==
  <<Allow, Error(1), Error(2), Trace(3), Kill, TrapTo("Notify", 1, TRUE), TrapTo("Debug", 1, FALSE)>>
allow == 1   error1 == 2   error2 == 3   trace == 4   kill == 5   notify == 6   debug == 7

WithResults(build, results, invalid, allowed) ==
  [build : {build}, objects : {Results0}, result : [ValidNumbers(build) -> results],
   invalid : invalid, debugging : allowed]

(* Conditions on 32 and on 64 bits: whole words, single bits, zero, several  *)
(* bits, and halves that are not looked at.  Each one is its last object.    *)
Ints == {ArgEq(4, <<15, 0>>, <<6, 0>>), ArgEq(4, <<8, 0>>, <<8, 0>>), ArgEq(4, <<6, 0>>, <<0, 0>>),
         ArgEq(4, <<6, 0>>, <<2, 0>>)}
Longs == {ArgEq(8, <<15, 15>>, <<1, 9>>), ArgEq(8, <<0, 8>>, <<0, 8>>), ArgEq(8, <<3, 6>>, <<1, 0>>)}
Atoms == Ints \union Longs \union {BoolConst(TRUE)}
Conditions ==
  {<<cond>> : cond \in Atoms} \union {<<cond, Not(8)>> : cond \in Atoms}
    \union {<<i, l, AllOf(8, 9)>> : i \in Ints, l \in Longs}
    \union {<<i, Not(8), l, AnyOf(10, 9)>> : l \in Longs, i \in Ints}

(* The first number's result is an If of the condition, and the others' is   *)
(* else, or what nested makes of it.                                         *)
WithCondition(build, cond, then, else, nested(_)) ==
  LET c == Len(Results0) + Len(cond)
      objects == Results0 \o cond \o nested(c)
      other == IF nested(c) = <<>> THEN else ELSE Len(objects)
  IN  [build |-> build, objects |-> Append(objects, If(c, then, other)),
       result |-> [num \in ValidNumbers(build) |->
                     IF num \in build.required THEN allow
                     ELSE IF num = build.valid[1][1] THEN Len(objects) + 1 ELSE other],
       invalid |-> error1, debugging |-> TRUE]

Flat(c) == <<>>
Twice(c) == <<If(c, kill, trace)>>

MCPolicies ==
  WithResults(Intel, {allow, error1, notify, debug}, {error1, kill, notify, allow}, BOOLEAN)
    \union WithResults(Arm, {allow, error1, debug}, {error1}, {TRUE})
    \union WithResults(Mips, {allow, error1, notify}, {error1}, {FALSE})
    \union {WithCondition(Intel, cond, allow, else, Flat) : cond \in Conditions, else \in {error2, debug}}
    \union {WithCondition(build, <<cond>>, notify, trace, Twice) :
              build \in {Intel, Arm, Mips}, cond \in Ints}

MCInit ==
  /\ part \in {"assembler", "compiler", "traps"}
  /\ CompilerInit /\ RegistryInit
  /\ part # "compiler" => policy = CHOOSE p \in Policies : TRUE
  /\ part # "traps" => ~debugging
MCNext ==
  /\ UNCHANGED part
  /\ \/ /\ part = "assembler" /\ GenNext
        /\ UNCHANGED <<policy, stage, keys, unsafe_enabled, requests, nodes, rangeVars, head,
                       registryVars>>
     \/ part = "compiler" /\ CompilerNext /\ UNCHANGED registryVars
     \/ part = "traps" /\ RegistryNext /\ UNCHANGED compilerVars
MCSpec == MCInit /\ [][MCNext]_<<part, compilerVars, registryVars>>
================================================================================
