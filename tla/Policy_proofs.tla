---------------------------- MODULE Policy_proofs ----------------------------
(***************************************************************************)
(* Proofs about the low level policy: PolicyStore for any services, rules, *)
(* sizes of strings and memories, and PolicyEngine for any patterns, rules *)
(* and calls.                                                              *)
(*                                                                         *)
(* Sums of sizes, the generator of opcodes and the layout of the rules are *)
(* recursive functions over the numbers up to some n.  That they exist,    *)
(* and what they keep, is shown for sets of numbers (Recursion, Segment),  *)
(* by the least number that would be missing.                              *)
(*                                                                         *)
(* That the opcodes of a rule mean what the rule says is shown from the    *)
(* bottom up: the meaning of a pattern (Matched), the positions its        *)
(* opcodes find (Chain, ConditionMeans), the states a rule goes through    *)
(* (Trace, Decides), and the processor in them (DecisionIInv).             *)
(***************************************************************************)
EXTENDS PolicyEngine, PolicyStore, SequenceTheorems, FiniteSetTheorems, TLAPS

LEMMA LeastNumber ==
  ASSUME NEW T \in SUBSET Nat, T # {}
  PROVE  \E x \in T : \A y \in T : x <= y
<1> DEFINE R == OpToRel(<, Nat)
<1>1. IsWellFoundedOn(R, Nat)
  BY NatLessThanWellFounded
<1>2. \A x, y \in Nat : y < x => <<y, x>> \in R
  BY DEF OpToRel
<1> HIDE DEF R
<1>3. PICK x \in T : \A y \in T : ~(<<y, x>> \in R)
  BY <1>1, WFMin
<1>4. ASSUME NEW y \in T PROVE x <= y
  <2>1. x \in Nat /\ y \in Nat /\ ~(y < x)
    BY <1>2, <1>3
  <2> QED
    BY <2>1
<1> QED
  BY <1>4

(* Induction over an initial segment of the numbers.                         *)
LEMMA Segment ==
  ASSUME NEW n \in Nat, NEW G \in SUBSET (0..n), 0 \in G,
         \A i \in 0..n : i > 0 /\ i - 1 \in G => i \in G
  PROVE  G = 0..n
<1> SUFFICES ASSUME (0..n) \ G # {} PROVE FALSE
  OBVIOUS
<1>1. PICK x \in (0..n) \ G : \A y \in (0..n) \ G : x <= y
  <2>1. (0..n) \ G \in SUBSET Nat
    OBVIOUS
  <2> QED
    BY <2>1, LeastNumber
<1>2. x > 0 /\ x - 1 \in 0..n
  BY <1>1
<1>3. x - 1 \in G
  BY <1>1, <1>2
<1> QED
  BY <1>1, <1>2, <1>3

(* A recursive function on an initial segment exists, and stays in X.        *)
IsRecursion(f, n, base, step) ==
  f = [i \in 0..n |-> IF i = 0 THEN base ELSE step[<<i, f[i - 1]>>]]

LEMMA Recursion ==
  ASSUME NEW n \in Nat, NEW X, NEW base \in X, NEW step \in [(1..n) \X X -> X]
  PROVE  \E f \in [0..n -> X] : IsRecursion(f, n, base, step)
<1> DEFINE G == {k \in 0..n : \E f \in [0..k -> X] : IsRecursion(f, k, base, step)}
<1>1. 0 \in G
  <2> DEFINE f == [i \in 0..0 |-> base]
  <2>1. \A i \in 0..0 : i = 0
    OBVIOUS
  <2>2. f \in [0..0 -> X] /\ IsRecursion(f, 0, base, step)
    BY <2>1 DEF IsRecursion
  <2> HIDE DEF f
  <2>3. \E g \in [0..0 -> X] : IsRecursion(g, 0, base, step)
    BY <2>2
  <2> QED
    BY <2>3
<1>2. ASSUME NEW k \in 0..n, k > 0, k - 1 \in G PROVE k \in G
  <2>1. PICK f \in [0..(k - 1) -> X] : IsRecursion(f, k - 1, base, step)
    BY <1>2
  <2> DEFINE g == [i \in 0..k |-> IF i = k THEN step[<<k, f[k - 1]>>] ELSE f[i]]
  <2>2. /\ k \in 1..n /\ k - 1 \in 0..(k - 1) /\ k - 1 \in 0..k /\ k - 1 # k
        /\ f[k - 1] \in X
    BY <1>2, <2>1
  <2>3. step[<<k, f[k - 1]>>] \in X
    <3>1. <<k, f[k - 1]>> \in (1..n) \X X
      BY <2>2
    <3> QED
      BY <3>1
  <2>4. g \in [0..k -> X]
    <3> SUFFICES ASSUME NEW i \in 0..k PROVE g[i] \in X
      OBVIOUS
    <3>1. i # k => i \in 0..(k - 1)
      BY <1>2
    <3> QED
      BY <2>1, <2>3, <3>1
  <2>5. \A i \in 0..k : g[i] = IF i = 0 THEN base ELSE step[<<i, g[i - 1]>>]
    <3> SUFFICES ASSUME NEW i \in 0..k
                 PROVE  g[i] = IF i = 0 THEN base ELSE step[<<i, g[i - 1]>>]
      OBVIOUS
    <3>1. CASE i = k
      <4>1. g[k] = step[<<k, f[k - 1]>>] /\ g[k - 1] = f[k - 1] /\ k # 0
        BY <2>2
      <4> QED
        BY <3>1, <4>1
    <3>2. CASE i # k
      <4>1. i \in 0..(k - 1)
        BY <3>2
      <4>2. f[i] = IF i = 0 THEN base ELSE step[<<i, f[i - 1]>>]
        BY <2>1, <4>1 DEF IsRecursion
      <4>3. i # 0 => i - 1 \in 0..k /\ i - 1 # k
        BY <4>1
      <4>4. g[i] = f[i] /\ (i # 0 => g[i - 1] = f[i - 1])
        BY <3>2, <4>3
      <4> QED
        BY <4>2, <4>4
    <3> QED
      BY <3>1, <3>2
  <2> HIDE DEF g
  <2>6. IsRecursion(g, k, base, step)
    <3>1. DOMAIN g = 0..k
      BY <2>4
    <3> QED
      BY <2>4, <2>5, <3>1 DEF IsRecursion
  <2>7. \E h \in [0..k -> X] : IsRecursion(h, k, base, step)
    BY <2>4, <2>6
  <2> QED
    BY <2>7
<1>3. G \in SUBSET (0..n)
  OBVIOUS
<1>4. n \in G
  <2> HIDE DEF G
  <2>1. G = 0..n
    BY <1>1, <1>2, <1>3, Segment
  <2> QED
    BY <2>1
<1> QED
  BY <1>4

-----------------------------------------------------------------------------
(* Sums of sizes.                                                            *)
LEMMA UpToFacts ==
  ASSUME NEW sizes \in Seq(Nat)
  PROVE  /\ UpTo(sizes) \in [0..Len(sizes) -> Nat] /\ UpTo(sizes)[0] = 0
         /\ \A i \in 1..Len(sizes) : UpTo(sizes)[i] = UpTo(sizes)[i - 1] + sizes[i]
<1> DEFINE n == Len(sizes)
           step == [p \in (1..n) \X Nat |-> p[2] + sizes[p[1]]]
<1>0. n \in Nat /\ \A i \in 1..n : sizes[i] \in Nat
  OBVIOUS
<1>1. step \in [(1..n) \X Nat -> Nat]
  <2> SUFFICES ASSUME NEW p \in (1..n) \X Nat PROVE p[2] + sizes[p[1]] \in Nat
    OBVIOUS
  <2>1. p[1] \in 1..n /\ p[2] \in Nat
    OBVIOUS
  <2> QED
    BY <1>0, <2>1
<1>2. \A i \in 1..n, x \in Nat : step[<<i, x>>] = x + sizes[i]
  OBVIOUS
<1>3. \A f : (f \in [0..n -> Nat] /\ f = [i \in 0..n |-> IF i = 0 THEN 0 ELSE step[<<i, f[i - 1]>>]]) =>
             f = [i \in 0..n |-> IF i = 0 THEN 0 ELSE f[i - 1] + sizes[i]]
  <2> HIDE DEF step, n
  <2> SUFFICES ASSUME NEW f \in [0..n -> Nat],
                      f = [i \in 0..n |-> IF i = 0 THEN 0 ELSE step[<<i, f[i - 1]>>]],
                      NEW i \in 0..n
               PROVE  (IF i = 0 THEN 0 ELSE step[<<i, f[i - 1]>>])
                        = (IF i = 0 THEN 0 ELSE f[i - 1] + sizes[i])
    OBVIOUS
  <2>1. i # 0 => i \in 1..n /\ i - 1 \in 0..n
    BY <1>0
  <2>2. i # 0 => f[i - 1] \in Nat
    BY <2>1
  <2> QED
    BY <1>2, <2>1, <2>2
<1> HIDE DEF step
<1>4. PICK g \in [0..n -> Nat] : g = [i \in 0..n |-> IF i = 0 THEN 0 ELSE g[i - 1] + sizes[i]]
  <2> HIDE DEF n
  <2>1. PICK f \in [0..n -> Nat] : IsRecursion(f, n, 0, step)
    <3>1. 0 \in Nat
      OBVIOUS
    <3> QED
      BY <1>0, <1>1, <3>1, Recursion
  <2> QED
    BY <1>3, <2>1 DEF IsRecursion
<1> DEFINE f == UpTo(sizes)
<1>5. f = [i \in 0..n |-> IF i = 0 THEN 0 ELSE f[i - 1] + sizes[i]]
  BY <1>4 DEF UpTo
<1> HIDE DEF f
<1>6. \A i \in 0..n : f[i] = IF i = 0 THEN 0 ELSE f[i - 1] + sizes[i]
  BY <1>5
<1>7. f[0] = 0
  BY <1>0, <1>6
<1>8. \A i \in 1..n : f[i] = f[i - 1] + sizes[i]
  BY <1>0, <1>6
<1>9. f \in [0..n -> Nat]
  <2> DEFINE G == {i \in 0..n : f[i] \in Nat}
  <2>1. 0 \in G
    BY <1>0, <1>7
  <2>2. ASSUME NEW i \in 0..n, i > 0, i - 1 \in G PROVE i \in G
    <3>1. i \in 1..n /\ f[i - 1] \in Nat /\ sizes[i] \in Nat
      BY <1>0, <2>2
    <3>2. f[i] \in Nat
      BY <1>8, <3>1
    <3> QED
      BY <3>2
  <2>3. G \in SUBSET (0..n)
    OBVIOUS
  <2> HIDE DEF G
  <2>4. G = 0..n
    BY <1>0, <2>1, <2>2, <2>3, Segment
  <2>5. \A i \in 0..n : f[i] \in Nat
    BY <2>4 DEF G
  <2> QED
    BY <1>5, <2>5
<1> QED
  BY <1>7, <1>8, <1>9 DEF f

(* A prefix of a sum is no more than a longer one.                           *)
LEMMA UpToMonotone ==
  ASSUME NEW sizes \in Seq(Nat), NEW i \in 0..Len(sizes), NEW j \in i..Len(sizes)
  PROVE  UpTo(sizes)[i] <= UpTo(sizes)[j]
<1> DEFINE n == Len(sizes)
           f == UpTo(sizes)
           G == {k \in 0..n : k >= i => f[i] <= f[k]}
<1>0. /\ n \in Nat /\ f \in [0..n -> Nat] /\ \A k \in 1..n : f[k] = f[k - 1] + sizes[k]
      /\ \A k \in 1..n : sizes[k] \in Nat
  BY UpToFacts
<1> HIDE DEF f
<1>10. f[i] \in Nat /\ \A k \in 1..n : f[k - 1] \in Nat
  <2>1. i \in 0..n /\ \A k \in 1..n : k - 1 \in 0..n
    BY <1>0
  <2> HIDE DEF n
  <2> QED
    BY <1>0, <2>1, Zenon
<1>1. 0 \in G
  BY <1>0, <1>10
<1>2. ASSUME NEW k \in 0..n, k > 0, k - 1 \in G PROVE k \in G
  <2>1. CASE k > i
    <3>1. k \in 1..n /\ f[i] <= f[k - 1] /\ f[k] = f[k - 1] + sizes[k]
      BY <1>0, <1>2, <2>1
    <3>2. f[i] \in Nat /\ f[k - 1] \in Nat /\ sizes[k] \in Nat
      BY <1>0, <1>10, <3>1
    <3>3. f[i] <= f[k]
      BY <3>1, <3>2
    <3> QED
      BY <3>3
  <2>2. CASE ~(k > i)
    <3>1. f[i] <= f[i]
      BY <1>10
    <3> QED
      BY <1>0, <2>2, <3>1
  <2> QED
    BY <2>1, <2>2
<1>3. G \in SUBSET (0..n)
  OBVIOUS
<1>4. G = 0..n
  <2> HIDE DEF G, n
  <2> QED
    BY <1>0, <1>1, <1>2, <1>3, Segment
<1> QED
  BY <1>0, <1>4 DEF f
LEMMA TotalRemove ==
  ASSUME NEW s \in Seq(Nat), NEW t \in Seq(Nat), Len(t) = Len(s), NEW k \in 1..Len(s),
         t[k] = 0, \A i \in 1..Len(s) : i # k => t[i] = s[i]
  PROVE  Total(s) = Total(t) + s[k]
<1> DEFINE n == Len(s)
           f == UpTo(s)
           g == UpTo(t)
           G == {i \in 0..n : f[i] = g[i] + (IF i >= k THEN s[k] ELSE 0)}
<1>0. n \in Nat /\ k \in 1..n /\ s[k] \in Nat
  OBVIOUS
<1>1. /\ f \in [0..n -> Nat] /\ f[0] = 0 /\ \A i \in 1..n : f[i] = f[i - 1] + s[i]
      /\ g \in [0..n -> Nat] /\ g[0] = 0 /\ \A i \in 1..n : g[i] = g[i - 1] + t[i]
      /\ Total(s) = f[n] /\ Total(t) = g[n]
  BY UpToFacts DEF Total
<1>2. \A i \in 1..n : s[i] \in Nat /\ t[i] \in Nat /\ (i # k => t[i] = s[i])
  OBVIOUS
<1> HIDE DEF f, g, n
<1>3. 0 \in G
  BY <1>0, <1>1
<1>4. ASSUME NEW i \in 0..n, i > 0, i - 1 \in G PROVE i \in G
  <2>1. i \in 1..n /\ i - 1 \in 0..n
    BY <1>0, <1>4
  <2>2. /\ f[i] = f[i - 1] + s[i] /\ g[i] = g[i - 1] + t[i]
        /\ f[i - 1] = g[i - 1] + (IF i - 1 >= k THEN s[k] ELSE 0)
    BY <1>1, <1>4, <2>1
  <2>3. f[i - 1] \in Nat /\ g[i - 1] \in Nat /\ s[i] \in Nat /\ t[i] \in Nat
    BY <1>1, <1>2, <2>1
  <2>4. CASE i = k
    <3>1. f[i - 1] = g[i - 1] /\ t[i] = 0 /\ s[i] = s[k]
      BY <1>0, <2>1, <2>2, <2>3, <2>4
    <3>2. f[i] = g[i] + s[k]
      BY <2>2, <2>3, <3>1
    <3> QED
      BY <1>0, <2>4, <3>2
  <2>5. CASE i > k
    <3>1. f[i - 1] = g[i - 1] + s[k] /\ t[i] = s[i]
      BY <1>0, <1>2, <2>1, <2>2, <2>3, <2>5
    <3> DEFINE x == f[i - 1]
               y == g[i - 1]
               z == s[i]
               removed == s[k]
               sum == f[i]
               rest == g[i]
    <3>4. sum = x + z /\ rest = y + z /\ x = y + removed
      BY <2>2, <3>1
    <3>5. y \in Nat /\ z \in Nat
      BY <2>3
    <3>6. removed \in Nat
      OBVIOUS
    <3> HIDE DEF x, y, z, removed, sum, rest
    <3>7. sum = rest + removed
      BY <3>4, <3>5, <3>6
    <3>2. f[i] = g[i] + s[k]
      BY <3>7 DEF sum, rest, removed
    <3> QED
      BY <1>0, <2>5, <3>2
  <2>6. CASE i < k
    <3>4. t[i] = s[i]
      BY <1>0, <1>2, <2>1, <2>6
    <3>5. ~(i - 1 >= k)
      BY <1>0, <2>1, <2>6
    <3>6. f[i - 1] = g[i - 1] + 0
      BY <2>2, <3>5
    <3>1. f[i - 1] = g[i - 1] /\ t[i] = s[i]
      BY <2>3, <3>4, <3>6
    <3>2. f[i] = g[i] + 0
      BY <1>0, <2>2, <2>3, <3>1
    <3> QED
      BY <1>0, <2>6, <3>2
  <2> QED
    BY <1>0, <2>1, <2>4, <2>5, <2>6
<1>5. G \in SUBSET (0..n)
  OBVIOUS
<1>6. n \in G
  <2> HIDE DEF G
  <2>1. G = 0..n
    BY <1>0, <1>3, <1>4, <1>5, Segment
  <2> QED
    BY <1>0, <2>1
<1>7. f[n] = g[n] + s[k]
  BY <1>0, <1>6
<1> QED
  BY <1>1, <1>7

-----------------------------------------------------------------------------
(* The layout while Done packs.  Top is where the opcodes of the current     *)
(* service end.  What is left of the memory is what the rules still to pack  *)
(* need more than the memory has to spare (RoomLeft), and the opcodes are    *)
(* followed through heads of buffers and rounding (TopBound).                *)
Top == current_buffer + CountSize + svc_opcode_count * OpcodeSize
Laid == DOMAIN nodes \ todo

Untouched ==
  status = "adding" =>
    todo = {} /\ service = NumServices /\ opcodes = {} /\ strings = {}

Fresh ==
  service = NumServices =>
    /\ DOMAIN entry = {} /\ opcodes = {} /\ current_buffer = 0 /\ svc_opcode_count = 0
    /\ status # "adding" => todo = DOMAIN nodes

Entries ==
  /\ service # NumServices => service \in DOMAIN entry /\ entry[service] = current_buffer
  /\ \A s \in DOMAIN entry : s <= service
  /\ \A s, t \in DOMAIN entry : s <= t => entry[s] <= entry[t]
  /\ DOMAIN entry \subseteq {nodes[i].service : i \in DOMAIN nodes}
  /\ status # "adding" => \A i \in Laid : nodes[i].service \in DOMAIN entry
  /\ service # NumServices => \A i \in todo : service <= nodes[i].service

OpcodeAreas ==
  \A a \in opcodes :
    /\ \E i \in Laid :
         /\ a.id = <<i, 0>>
         /\ a.low >= entry[nodes[i].service] + CountSize
         /\ \A t \in DOMAIN entry : nodes[i].service < t => a.high <= entry[t]
    /\ a.high <= Top

StringsAbove ==
  \A a \in strings : a.low >= buffer_end /\ a.high <= data_size

AllPacked == status # "adding" => \A i \in Laid : Packed(i)

RoomLeft ==
  /\ buffer_end = avail_size
  /\ status # "adding" =>
       avail_size + TotalOpcodes * OpcodeSize + TotalStrings
         = data_size + (OpcodesOf(todo) * OpcodeSize + StringsOf(todo))

TopBound ==
  status # "adding" /\ service # NumServices =>
    current_buffer + svc_opcode_count * OpcodeSize + OpcodesOf(todo) * OpcodeSize
      <= TotalOpcodes * OpcodeSize + service * BufferSize

Roomy == data_size >= Needed(2) => status # "false"
Complete == status = "true" => todo = {}

StoreIInv ==
  /\ StoreTypeOK /\ Untouched /\ Fresh /\ Entries
  /\ OpcodeAreas /\ StringsAbove /\ SameKindApart
  /\ AllPacked /\ RoomLeft /\ TopBound /\ Roomy /\ Complete

LEMMA NodeFacts ==
  ASSUME StoreTypeOK, NEW i \in DOMAIN nodes
  PROVE  /\ nodes[i].service \in Services /\ nodes[i].sizes \in Seq(Nat)
         /\ Len(nodes[i].sizes) \in Nat /\ Total(nodes[i].sizes) \in Nat
<1>1. nodes[i] \in RuleNodes
  BY DEF StoreTypeOK
<1>2. nodes[i].service \in Services /\ nodes[i].sizes \in Seq(Nat)
  BY <1>1, SizesAssumption DEF RuleNodes
<1>3. Len(nodes[i].sizes) \in Nat
  BY <1>2
<1>4. Total(nodes[i].sizes) \in Nat
  BY <1>2, <1>3, UpToFacts DEF Total
<1> QED
  BY <1>2, <1>3, <1>4

LEMMA StoreSums ==
  ASSUME StoreTypeOK, NEW S \in SUBSET DOMAIN nodes
  PROVE  /\ OpcodesOf(S) \in Nat /\ StringsOf(S) \in Nat
         /\ \A i \in S : /\ OpcodesOf(S) = OpcodesOf(S \ {i}) + Len(nodes[i].sizes)
                         /\ StringsOf(S) = StringsOf(S \ {i}) + Total(nodes[i].sizes)
<1> DEFINE ops(T) == [i \in DOMAIN nodes |-> IF i \in T THEN Len(nodes[i].sizes) ELSE 0]
           strs(T) == [i \in DOMAIN nodes |-> IF i \in T THEN Total(nodes[i].sizes) ELSE 0]
<1>0. DOMAIN nodes = 1..Len(nodes) /\ Len(nodes) \in Nat
  BY DEF StoreTypeOK
<1>1. \A T : /\ ops(T) \in Seq(Nat) /\ Len(ops(T)) = Len(nodes)
             /\ strs(T) \in Seq(Nat) /\ Len(strs(T)) = Len(nodes)
  <2> SUFFICES ASSUME NEW T
               PROVE  /\ ops(T) \in Seq(Nat) /\ Len(ops(T)) = Len(nodes)
                      /\ strs(T) \in Seq(Nat) /\ Len(strs(T)) = Len(nodes)
    OBVIOUS
  <2>1. \A i \in 1..Len(nodes) : Len(nodes[i].sizes) \in Nat /\ Total(nodes[i].sizes) \in Nat
    BY <1>0, NodeFacts
  <2>2. ops(T) \in [1..Len(nodes) -> Nat] /\ strs(T) \in [1..Len(nodes) -> Nat]
    BY <1>0, <2>1
  <2> HIDE DEF ops, strs
  <2>3. \A F \in [1..Len(nodes) -> Nat] : F \in Seq(Nat) /\ Len(F) = Len(nodes)
    BY <1>0
  <2> QED
    BY <2>2, <2>3
<1>2. \A T : OpcodesOf(T) = Total(ops(T)) /\ StringsOf(T) = Total(strs(T))
  BY DEF OpcodesOf, StringsOf
<1>3. \A T : Total(ops(T)) \in Nat /\ Total(strs(T)) \in Nat
  <2> HIDE DEF ops, strs
  <2>1. \A s \in Seq(Nat) : Total(s) \in Nat
    <3> SUFFICES ASSUME NEW s \in Seq(Nat) PROVE Total(s) \in Nat
      OBVIOUS
    <3>1. Len(s) \in 0..Len(s)
      OBVIOUS
    <3> QED
      BY <3>1, UpToFacts DEF Total
  <2> QED
    BY <1>1, <2>1
<1>4. ASSUME NEW i \in S
      PROVE  /\ Total(ops(S)) = Total(ops(S \ {i})) + Len(nodes[i].sizes)
             /\ Total(strs(S)) = Total(strs(S \ {i})) + Total(nodes[i].sizes)
  <2> DEFINE R == S \ {i}
  <2>0. i \in 1..Len(nodes)
    BY <1>0, <1>4
  <2>1. /\ ops(R)[i] = 0 /\ ops(S)[i] = Len(nodes[i].sizes)
        /\ \A j \in 1..Len(nodes) : j # i => ops(R)[j] = ops(S)[j]
    BY <1>0, <2>0
  <2>2. /\ strs(R)[i] = 0 /\ strs(S)[i] = Total(nodes[i].sizes)
        /\ \A j \in 1..Len(nodes) : j # i => strs(R)[j] = strs(S)[j]
    BY <1>0, <2>0
  <2> HIDE DEF ops, strs, R
  <2>3. Total(ops(S)) = Total(ops(R)) + ops(S)[i]
    BY <1>1, <2>0, <2>1, TotalRemove
  <2>4. Total(strs(S)) = Total(strs(R)) + strs(S)[i]
    BY <1>1, <2>0, <2>2, TotalRemove
  <2> QED
    BY <2>1, <2>2, <2>3, <2>4 DEF R
<1> QED
  BY <1>2, <1>3, <1>4

(* Rounding down and adding one unit is enough for the head of the next      *)
(* buffer because all sizes are multiples of the head's.                     *)
LEMMA NextBufferFacts ==
  ASSUME NEW count \in Nat, NEW buffer \in Nat
  PROVE  /\ NextBuffer(buffer, count) \in Nat
         /\ buffer + CountSize + count * OpcodeSize <= NextBuffer(buffer, count)
         /\ NextBuffer(buffer, count) <= buffer + count * OpcodeSize + BufferSize
<1> DEFINE m == OpcodeSize \div CountSize
           x == count * OpcodeSize
           q == x \div BufferSize
           z == count * m - (m + 1) * q
<1>0. CountSize \in Nat /\ CountSize > 0 /\ OpcodeSize \in Nat /\ OpcodeSize > 0
  BY SizesAssumption
<1>1. m \in Nat /\ OpcodeSize = CountSize * m
  BY <1>0, SizesAssumption
<1>2. BufferSize \in Nat /\ BufferSize > 0 /\ BufferSize = CountSize + OpcodeSize
  BY <1>0 DEF BufferSize
<1>3. x \in Nat
  BY <1>0
<1>4. q \in Nat /\ BufferSize * q <= x /\ x < BufferSize * q + BufferSize
  <2> HIDE DEF x
  <2> QED
    BY <1>2, <1>3
<1>5. NextBuffer(buffer, count) = buffer + BufferSize * (q + 1)
  BY DEF NextBuffer
<1> HIDE DEF m, q
<1>6. BufferSize = CountSize * (m + 1) /\ BufferSize * (q + 1) = BufferSize * q + BufferSize
  BY <1>0, <1>1, <1>2, <1>4
<1>7. x = CountSize * (count * m)
  BY <1>0, <1>1
<1>8. BufferSize * q = CountSize * ((m + 1) * q)
  BY <1>0, <1>1, <1>4, <1>6
<1>9. z \in Int /\ x - BufferSize * q = CountSize * z
  <2>1. count * m \in Int /\ (m + 1) * q \in Int
    BY <1>1, <1>4
  <2>2. \A a, b \in Int : CountSize * a - CountSize * b = CountSize * (a - b)
    BY <1>0
  <2> DEFINE a == count * m
             b == (m + 1) * q
  <2>3. a \in Int /\ b \in Int
    BY <2>1
  <2>4. x = CountSize * a /\ BufferSize * q = CountSize * b /\ z = a - b
    BY <1>7, <1>8
  <2> HIDE DEF a, b, x, z
  <2>5. CountSize * a - CountSize * b = CountSize * (a - b)
    BY <2>2, <2>3
  <2>6. a - b \in Int
    BY <2>3
  <2> QED
    BY <2>4, <2>5, <2>6
<1> HIDE DEF z, x
<1>10. CountSize * z < CountSize * (m + 1)
  BY <1>2, <1>3, <1>4, <1>6, <1>9
<1>11. z <= m
  <2>1. \A a, b \in Int : a >= b => CountSize * a >= CountSize * b
    BY <1>0
  <2>2. CountSize * z \in Int /\ CountSize * (m + 1) \in Int /\ m + 1 \in Int
    BY <1>0, <1>1, <1>9
  <2>3. ~(z >= m + 1)
    BY <1>9, <1>10, <2>1, <2>2
  <2> QED
    BY <1>1, <1>9, <2>3
<1>12. CountSize * z <= OpcodeSize
  <2>1. \A a, b \in Int : a <= b => CountSize * a <= CountSize * b
    BY <1>0
  <2> QED
    BY <1>1, <1>9, <1>11, <2>1
<1>13. BufferSize * q \in Nat
  BY <1>2, <1>4
<1>14. CountSize + x <= BufferSize * q + BufferSize
  BY <1>0, <1>2, <1>3, <1>9, <1>12, <1>13
<1> QED
  BY <1>0, <1>2, <1>3, <1>4, <1>5, <1>6, <1>13, <1>14 DEF x

LEMMA StoreStart == StoreInit => StoreIInv
<1> SUFFICES ASSUME StoreInit PROVE StoreIInv
  OBVIOUS
<1> USE DEF StoreInit
<1>1. StoreTypeOK
  BY SizesAssumption DEF StoreTypeOK
<1>2. Untouched /\ Fresh /\ Entries /\ OpcodeAreas /\ StringsAbove /\ SameKindApart
  BY DEF Untouched, Fresh, Entries, OpcodeAreas, StringsAbove, SameKindApart
<1>3. AllPacked /\ RoomLeft /\ TopBound /\ Roomy /\ Complete
  BY DEF AllPacked, RoomLeft, TopBound, Roomy, Complete
<1> QED
  BY <1>1, <1>2, <1>3 DEF StoreIInv

LEMMA AddNodeStep ==
  ASSUME StoreIInv, NEW n \in RuleNodes, AddNode(n)
  PROVE  StoreIInv'
<1>0. /\ status = "adding" /\ nodes' = Append(nodes, n)
      /\ UNCHANGED <<data_size, status, todo, service, current_buffer, svc_opcode_count,
                     buffer_end, avail_size, entry, opcodes, strings>>
  BY DEF AddNode, packVars
<1>1. /\ StoreTypeOK /\ todo = {} /\ service = NumServices /\ opcodes = {} /\ strings = {}
      /\ DOMAIN entry = {} /\ current_buffer = 0 /\ svc_opcode_count = 0
      /\ buffer_end = avail_size
  BY <1>0 DEF StoreIInv, Untouched, Fresh, RoomLeft
<1>2. StoreTypeOK'
  BY <1>0, <1>1 DEF StoreTypeOK
<1>3. Untouched' /\ Fresh' /\ Entries' /\ OpcodeAreas' /\ StringsAbove' /\ SameKindApart'
  BY <1>0, <1>1
     DEF Untouched, Fresh, Entries, OpcodeAreas, StringsAbove, SameKindApart
<1>4. AllPacked' /\ RoomLeft' /\ TopBound' /\ Roomy' /\ Complete'
  BY <1>0, <1>1 DEF AllPacked, RoomLeft, TopBound, Roomy, Complete
<1> QED
  BY <1>2, <1>3, <1>4 DEF StoreIInv

(* Sums over rules do not change once they are all there.                    *)
LEMMA SameSums ==
  ASSUME nodes' = nodes
  PROVE  /\ TotalOpcodes' = TotalOpcodes /\ TotalStrings' = TotalStrings
         /\ OpcodesOf(todo)' = OpcodesOf(todo') /\ StringsOf(todo)' = StringsOf(todo')
  BY DEF TotalOpcodes, TotalStrings, OpcodesOf, StringsOf

LEMMA BeginStep ==
  ASSUME StoreIInv, BeginPacking
  PROVE  StoreIInv'
<1>0. /\ status = "adding" /\ status' = "packing" /\ todo' = DOMAIN nodes
      /\ buffer_end' = data_size /\ avail_size' = data_size
      /\ UNCHANGED <<nodes, data_size, service, current_buffer, svc_opcode_count, entry,
                     opcodes, strings>>
  BY DEF BeginPacking, givenVars
<1>1. /\ StoreTypeOK /\ service = NumServices /\ opcodes = {} /\ strings = {}
      /\ DOMAIN entry = {} /\ current_buffer = 0 /\ svc_opcode_count = 0
  BY <1>0 DEF StoreIInv, Untouched, Fresh
<1>2. StoreTypeOK'
  BY <1>0, <1>1, SizesAssumption DEF StoreTypeOK
<1>3. Untouched' /\ Fresh' /\ Entries' /\ OpcodeAreas' /\ StringsAbove' /\ SameKindApart'
  BY <1>0, <1>1
     DEF Untouched, Fresh, Entries, OpcodeAreas, StringsAbove, SameKindApart, Laid
<1>4. AllPacked' /\ TopBound' /\ Roomy' /\ Complete'
  BY <1>0, <1>1 DEF AllPacked, TopBound, Roomy, Complete, Laid
<1>5. RoomLeft'
  <2>1. /\ TotalOpcodes' = TotalOpcodes /\ TotalStrings' = TotalStrings
        /\ OpcodesOf(todo)' = TotalOpcodes /\ StringsOf(todo)' = TotalStrings
    BY <1>0, SameSums DEF TotalOpcodes, TotalStrings
  <2>2. TotalOpcodes \in Nat /\ TotalStrings \in Nat /\ data_size \in Nat
    BY <1>1, StoreSums, SizesAssumption DEF TotalOpcodes, TotalStrings, StoreTypeOK
  <2>3. TotalOpcodes * OpcodeSize \in Nat
    BY <2>2, SizesAssumption
  <2>4. data_size + TotalOpcodes * OpcodeSize + TotalStrings
          = data_size + (TotalOpcodes * OpcodeSize + TotalStrings)
    BY <2>2, <2>3
  <2> QED
    BY <1>0, <2>1, <2>4 DEF RoomLeft
<1> QED
  BY <1>2, <1>3, <1>4, <1>5 DEF StoreIInv

(* Done has returned.                                                        *)
LEMMA FinishStep ==
  ASSUME StoreIInv, Finish
  PROVE  StoreIInv'
<1>0. /\ status = "packing" /\ status' = "true" /\ todo = {}
      /\ UNCHANGED <<nodes, data_size, todo, service, current_buffer, svc_opcode_count,
                     buffer_end, avail_size, entry, opcodes, strings>>
  BY DEF Finish, givenVars, packVars
<1> USE DEF StoreIInv
<1>1. StoreTypeOK'
  BY <1>0 DEF StoreTypeOK
<1>2. Untouched' /\ Fresh' /\ Entries' /\ OpcodeAreas' /\ StringsAbove' /\ SameKindApart'
  BY <1>0 DEF Untouched, Fresh, Entries, OpcodeAreas, StringsAbove, SameKindApart, Laid,
              Top, Disjoint
<1>3. TotalOpcodes' = TotalOpcodes /\ TotalStrings' = TotalStrings
      /\ OpcodesOf(todo)' = OpcodesOf(todo) /\ StringsOf(todo)' = StringsOf(todo)
  BY <1>0, SameSums
<1>4. RoomLeft' /\ TopBound' /\ Complete' /\ Roomy'
  BY <1>0, <1>3 DEF RoomLeft, TopBound, Complete, Roomy
<1>5. ASSUME NEW i \in Laid PROVE Packed(i)'
  BY <1>0 DEF AllPacked, Packed
<1>6. AllPacked'
  BY <1>0, <1>5 DEF AllPacked, Laid
<1> QED
  BY <1>1, <1>2, <1>4, <1>6

(* What there is of the memory when it holds the opcodes twice.              *)
LEMMA RoomFacts ==
  ASSUME StoreIInv, status # "adding", data_size >= Needed(2)
  PROVE  /\ avail_size >= TotalOpcodes * OpcodeSize + NumServices * BufferSize
                            + (OpcodesOf(todo) * OpcodeSize + StringsOf(todo))
         /\ \A i \in todo : Used(i) <= OpcodesOf(todo) * OpcodeSize + StringsOf(todo)
<1> DEFINE T == TotalOpcodes * OpcodeSize
           N == NumServices * BufferSize
           P == OpcodesOf(todo) * OpcodeSize
<1>0. /\ StoreTypeOK /\ todo \subseteq DOMAIN nodes
      /\ avail_size \in Nat /\ data_size \in Nat
      /\ OpcodeSize \in Nat /\ NumServices \in Nat /\ BufferSize \in Nat
  BY SizesAssumption DEF StoreIInv, StoreTypeOK, BufferSize
<1>1. /\ TotalOpcodes \in Nat /\ TotalStrings \in Nat
      /\ OpcodesOf(todo) \in Nat /\ StringsOf(todo) \in Nat
  BY <1>0, StoreSums DEF TotalOpcodes, TotalStrings
<1>2. T \in Nat /\ N \in Nat /\ P \in Nat /\ 2 * TotalOpcodes * OpcodeSize = T + T
  BY <1>0, <1>1
<1>3. avail_size + T + TotalStrings = data_size + (P + StringsOf(todo))
  BY DEF StoreIInv, RoomLeft
<1>4. data_size >= T + T + TotalStrings + N
  BY <1>2 DEF Needed
<1>5. ASSUME NEW i \in todo
      PROVE  Used(i) <= P + StringsOf(todo)
  <2> DEFINE r == OpcodesOf(todo \ {i})
             l == Len(nodes[i].sizes)
             q == StringsOf(todo \ {i})
             u == Total(nodes[i].sizes)
  <2>1. OpcodesOf(todo) = r + l /\ StringsOf(todo) = q + u /\ r \in Nat /\ q \in Nat
    BY <1>0, StoreSums
  <2>2. l \in Nat /\ u \in Nat
    BY <1>0, NodeFacts
  <2>3. Used(i) = l * OpcodeSize + u
    BY DEF Used
  <2> HIDE DEF r, l, q, u, P
  <2>4. P = r * OpcodeSize + l * OpcodeSize /\ r * OpcodeSize \in Nat /\ l * OpcodeSize \in Nat
    BY <1>0, <2>1, <2>2 DEF P
  <2> QED
    BY <2>1, <2>2, <2>3, <2>4
<1> HIDE DEF T, N, P
<1>6. avail_size >= T + N + (P + StringsOf(todo))
  BY <1>0, <1>1, <1>2, <1>3, <1>4
<1> QED
  BY <1>5, <1>6 DEF T, N, P

LEMMA RunOutStep ==
  ASSUME StoreIInv, NEW i \in todo, RunOut(i)
  PROVE  StoreIInv'
<1>0. /\ status = "packing" /\ status' = "false" /\ ~Fits(i)
      /\ UNCHANGED <<nodes, data_size, todo, service, current_buffer, svc_opcode_count,
                     buffer_end, avail_size, entry, opcodes, strings>>
  BY DEF RunOut, IsNext, givenVars, packVars
<1> USE DEF StoreIInv
<1>1. StoreTypeOK'
  BY <1>0 DEF StoreTypeOK
<1>2. Untouched' /\ Fresh' /\ Entries' /\ OpcodeAreas' /\ StringsAbove' /\ SameKindApart'
  BY <1>0 DEF Untouched, Fresh, Entries, OpcodeAreas, StringsAbove, SameKindApart, Laid,
              Top, Disjoint
<1>3. TotalOpcodes' = TotalOpcodes /\ TotalStrings' = TotalStrings
      /\ OpcodesOf(todo)' = OpcodesOf(todo) /\ StringsOf(todo)' = StringsOf(todo)
  BY <1>0, SameSums
<1>4. RoomLeft' /\ TopBound' /\ Complete'
  BY <1>0, <1>3 DEF RoomLeft, TopBound, Complete
<1>5. ASSUME NEW j \in Laid PROVE Packed(j)'
  BY <1>0 DEF AllPacked, Packed
<1>6. AllPacked'
  BY <1>0, <1>5 DEF AllPacked, Laid
<1>7. ~(data_size >= Needed(2))
  <2> SUFFICES ASSUME data_size >= Needed(2) PROVE FALSE
    OBVIOUS
  <2> DEFINE T == TotalOpcodes * OpcodeSize
             N == NumServices * BufferSize
             P == OpcodesOf(todo) * OpcodeSize + StringsOf(todo)
  <2>1. avail_size >= T + N + P /\ Used(i) <= P
    BY <1>0, RoomFacts
  <2>2. todo \subseteq DOMAIN nodes /\ avail_size \in Nat /\ BufferSize \in Nat
    BY SizesAssumption DEF StoreTypeOK, BufferSize
  <2>3. /\ TotalOpcodes \in Nat /\ OpcodesOf(todo) \in Nat /\ StringsOf(todo) \in Nat
    BY <2>2, StoreSums DEF TotalOpcodes
  <2>4. T \in Nat /\ N \in Nat /\ P \in Nat
    BY <2>2, <2>3, SizesAssumption
  <2>5. Used(i) \in Nat
    BY <2>2, NodeFacts, SizesAssumption DEF Used
  <2>6. ~(Used(i) <= avail_size)
    BY <1>0 DEF Fits
  <2> HIDE DEF T, N, P
  <2> QED
    BY <2>1, <2>2, <2>4, <2>5, <2>6
<1>8. Roomy'
  BY <1>0, <1>3, <1>7 DEF Roomy, Needed
<1> QED
  BY <1>1, <1>2, <1>4, <1>6, <1>8

LEMMA EnterStep ==
  ASSUME StoreIInv, NEW i \in todo, EnterService(i)
  PROVE  StoreIInv'
<1> DEFINE next == nodes[i].service
<1>0. /\ status = "packing" /\ next # service
      /\ \A j \in todo : next <= nodes[j].service
      /\ current_buffer' = IF service = NumServices THEN current_buffer
                           ELSE NextBuffer(current_buffer, svc_opcode_count)
      /\ service' = next /\ svc_opcode_count' = 0
      /\ entry' = [s \in DOMAIN entry \union {next} |->
                     IF s = next THEN current_buffer' ELSE entry[s]]
      /\ UNCHANGED <<nodes, data_size, status, todo, buffer_end, avail_size, opcodes, strings>>
  <2>1. IsNext(i) /\ \A j \in todo : nodes[j].service \in Nat
    BY NodeFacts, SizesAssumption DEF EnterService, StoreIInv, StoreTypeOK, Services
  <2>2. \A j \in todo : next <= nodes[j].service
    BY <2>1 DEF IsNext
  <2> QED
    BY <2>1, <2>2 DEF EnterService, IsNext, givenVars
<1>1. /\ StoreTypeOK /\ Fresh /\ Entries /\ i \in DOMAIN nodes /\ next \in Services
      /\ next \in Nat /\ next < NumServices /\ service \in Nat /\ NumServices \in Nat
      /\ current_buffer \in Nat /\ svc_opcode_count \in Nat
  BY NodeFacts, SizesAssumption DEF StoreIInv, StoreTypeOK, Services
<1>2. /\ CountSize \in Nat /\ OpcodeSize \in Nat /\ BufferSize \in Nat
  BY SizesAssumption DEF BufferSize
<1>3. ASSUME service # NumServices
      PROVE  /\ current_buffer' \in Nat /\ Top <= current_buffer'
             /\ current_buffer' <= current_buffer + svc_opcode_count * OpcodeSize + BufferSize
             /\ current_buffer <= current_buffer'
             /\ service < next
  <2>1. service < next
    BY <1>0, <1>1, <1>3 DEF Entries
  <2>2. current_buffer' = NextBuffer(current_buffer, svc_opcode_count)
    BY <1>0, <1>3
  <2>3. svc_opcode_count * OpcodeSize \in Nat
    BY <1>1, <1>2
  <2>4. /\ current_buffer' \in Nat
        /\ current_buffer + CountSize + svc_opcode_count * OpcodeSize <= current_buffer'
        /\ current_buffer' <= current_buffer + svc_opcode_count * OpcodeSize + BufferSize
    BY <1>1, <2>2, NextBufferFacts
  <2> QED
    BY <1>1, <1>2, <2>1, <2>3, <2>4 DEF Top
<1>4. ASSUME service = NumServices
      PROVE  /\ current_buffer' = 0 /\ DOMAIN entry = {} /\ opcodes = {} /\ todo = DOMAIN nodes
  BY <1>0, <1>1, <1>4 DEF Fresh
<1>5. current_buffer' \in Nat /\ \A s \in DOMAIN entry :
        s \in Nat /\ s < next /\ entry[s] \in Nat /\ entry[s] <= current_buffer'
  <2>1. CASE service = NumServices
    BY <1>4, <2>1
  <2>2. CASE service # NumServices
    <3> SUFFICES ASSUME NEW s \in DOMAIN entry
                 PROVE  s \in Nat /\ s < next /\ entry[s] \in Nat /\ entry[s] <= current_buffer'
      BY <1>3, <2>2
    <3>1. s \in Nat /\ entry[s] \in Nat
      BY <1>1 DEF StoreTypeOK, Services
    <3>2. s <= service /\ entry[service] = current_buffer /\ service \in DOMAIN entry
      BY <1>1, <2>2 DEF Entries
    <3>3. entry[s] <= current_buffer
      BY <1>1, <3>2 DEF Entries
    <3> QED
      BY <1>1, <1>3, <2>2, <3>1, <3>2, <3>3
  <2> QED
    BY <2>1, <2>2
<1>6. DOMAIN entry' = DOMAIN entry \union {next} /\ entry'[next] = current_buffer'
      /\ \A s \in DOMAIN entry : entry'[s] = entry[s]
  <2>1. \A s \in DOMAIN entry : s # next
    BY <1>1, <1>5
  <2> QED
    BY <1>0, <2>1
<1> HIDE DEF next
<1>7. StoreTypeOK'
  <2>1. \A s \in DOMAIN entry' : s \in Services /\ entry'[s] \in Nat
    BY <1>1, <1>5, <1>6 DEF StoreTypeOK
  <2> QED
    BY <1>0, <1>1, <1>5, <2>1 DEF StoreTypeOK
<1>8. Untouched' /\ Fresh'
  BY <1>0, <1>1 DEF Untouched, Fresh
<1>9. Entries'
  <2>1. \A s \in DOMAIN entry' : s <= next
    BY <1>1, <1>5, <1>6
  <2>2. \A s, t \in DOMAIN entry' : s <= t => entry'[s] <= entry'[t]
    <3> SUFFICES ASSUME NEW s \in DOMAIN entry', NEW t \in DOMAIN entry', s <= t
                 PROVE  entry'[s] <= entry'[t]
      OBVIOUS
    <3>1. CASE t = next
      BY <1>5, <1>6, <3>1
    <3>2. CASE t # next
      <4>1. t \in DOMAIN entry /\ s # next
        BY <1>1, <1>5, <1>6, <3>2
      <4> QED
        BY <1>1, <1>6, <4>1 DEF Entries
    <3> QED
      BY <3>1, <3>2
  <2>3. DOMAIN entry' \subseteq {nodes[j].service : j \in DOMAIN nodes}
    BY <1>1, <1>6 DEF Entries, next
  <2>4. \A j \in Laid : nodes[j].service \in DOMAIN entry'
    BY <1>0, <1>1, <1>6 DEF Entries
  <2>5. \A j \in todo : next <= nodes[j].service
    BY <1>0
  <2>6. service' # NumServices => service' \in DOMAIN entry' /\ entry'[service'] = current_buffer'
    BY <1>0, <1>6
  <2>7. \A s \in DOMAIN entry' : s <= service'
    BY <1>0, <2>1
  <2>8. DOMAIN entry' \subseteq {nodes'[j].service : j \in DOMAIN nodes'}
    BY <1>0, <2>3
  <2>9. \A j \in Laid' : nodes'[j].service \in DOMAIN entry'
    BY <1>0, <2>4 DEF Laid
  <2>10. \A j \in todo' : service' <= nodes'[j].service
    BY <1>0, <2>5
  <2> QED
    BY <2>2, <2>6, <2>7, <2>8, <2>9, <2>10 DEF Entries
<1>10. OpcodeAreas'
  <2> SUFFICES ASSUME NEW a \in opcodes
               PROVE  /\ \E j \in Laid :
                           /\ a.id = <<j, 0>>
                           /\ a.low >= entry'[nodes[j].service] + CountSize
                           /\ \A t \in DOMAIN entry' : nodes[j].service < t => a.high <= entry'[t]
                      /\ a.high <= Top'
    BY <1>0 DEF OpcodeAreas, Laid
  <2>1. PICK j \in Laid :
          /\ a.id = <<j, 0>>
          /\ a.low >= entry[nodes[j].service] + CountSize
          /\ \A t \in DOMAIN entry : nodes[j].service < t => a.high <= entry[t]
    BY DEF StoreIInv, OpcodeAreas
  <2>2. service # NumServices
    BY <1>4
  <2>3. a.high \in Nat /\ Top \in Nat /\ a.high <= Top
    BY <1>1, <1>2 DEF StoreIInv, StoreTypeOK, OpcodeAreas, Top
  <2>4. a.high <= current_buffer'
    BY <1>3, <2>2, <2>3
  <2>5. nodes[j].service \in DOMAIN entry
    BY <1>0, <1>1 DEF Entries
  <2>6. Top' = current_buffer' + CountSize
    BY <1>0, <1>2, <1>5 DEF Top
  <2>7. a.high <= Top'
    BY <1>2, <1>5, <2>3, <2>4, <2>6
  <2>8. \A t \in DOMAIN entry' : nodes[j].service < t => a.high <= entry'[t]
    BY <1>6, <2>1, <2>4
  <2> QED
    BY <1>6, <2>1, <2>5, <2>7, <2>8
<1>11. StringsAbove' /\ SameKindApart'
  BY <1>0 DEF StoreIInv, StringsAbove, SameKindApart, Disjoint
<1>12. AllPacked'
  <2>1. ASSUME NEW j \in Laid PROVE Packed(j)'
    <3>1. Packed(j) /\ nodes[j].service \in DOMAIN entry
      BY <1>0, <1>1 DEF StoreIInv, AllPacked, Entries
    <3> QED
      BY <1>0, <1>6, <3>1 DEF Packed
  <2> QED
    BY <1>0, <2>1 DEF AllPacked, Laid
<1>13. TotalOpcodes' = TotalOpcodes /\ TotalStrings' = TotalStrings
       /\ OpcodesOf(todo)' = OpcodesOf(todo) /\ StringsOf(todo)' = StringsOf(todo)
  BY <1>0, SameSums
<1>14. RoomLeft' /\ Complete' /\ Roomy'
  BY <1>0, <1>13 DEF StoreIInv, RoomLeft, Complete, Roomy, Needed
<1>15. TopBound'
  <2> DEFINE P == OpcodesOf(todo) * OpcodeSize
             T == TotalOpcodes * OpcodeSize
  <2>1. TotalOpcodes \in Nat /\ OpcodesOf(todo) \in Nat
    BY <1>1, StoreSums DEF TotalOpcodes, StoreTypeOK
  <2>2. P \in Nat /\ T \in Nat /\ next * BufferSize \in Nat
    BY <1>1, <1>2, <2>1
  <2> HIDE DEF P, T
  <2>3. current_buffer' + P <= T + next * BufferSize
    <3>1. CASE service = NumServices
      <4>1. current_buffer' = 0 /\ P = T
        BY <1>4, <3>1 DEF P, T, TotalOpcodes
      <4> QED
        BY <2>2, <4>1
    <3>2. CASE service # NumServices
      <4>1. current_buffer + svc_opcode_count * OpcodeSize + P <= T + service * BufferSize
        BY <1>0, <3>2 DEF StoreIInv, TopBound, P, T
      <4>2. (service + 1) * BufferSize <= next * BufferSize
        <5>1. \A a, b \in Nat : a <= b => a * BufferSize <= b * BufferSize
          BY <1>2
        <5> QED
          BY <1>1, <1>3, <3>2, <5>1
      <4>3. /\ (service + 1) * BufferSize = service * BufferSize + BufferSize
            /\ service * BufferSize \in Nat /\ svc_opcode_count * OpcodeSize \in Nat
        BY <1>1, <1>2
      <4>4. /\ current_buffer' <= current_buffer + svc_opcode_count * OpcodeSize + BufferSize
            /\ current_buffer' \in Nat
        BY <1>3, <3>2
      <4> DEFINE x == svc_opcode_count * OpcodeSize
                 u == service * BufferSize
                 v == next * BufferSize
                 w == current_buffer'
      <4>5. /\ x \in Nat /\ u \in Nat /\ v \in Nat /\ w \in Nat /\ P \in Nat /\ T \in Nat
            /\ current_buffer \in Nat /\ BufferSize \in Nat
            /\ current_buffer + x + P <= T + u /\ u + BufferSize <= v
            /\ w <= current_buffer + x + BufferSize
        BY <1>1, <1>2, <2>2, <4>1, <4>2, <4>3, <4>4
      <4> HIDE DEF x, u, v, w
      <4>6. w + P <= T + v
        BY <4>5
      <4> QED
        BY <4>6 DEF v, w
    <3> QED
      BY <3>1, <3>2
  <2>4. current_buffer' + svc_opcode_count' * OpcodeSize + P = current_buffer' + P
    BY <1>0, <1>2, <1>5, <2>2
  <2> QED
    BY <1>0, <1>13, <2>3, <2>4 DEF TopBound, P, T
<1> QED
  BY <1>7, <1>8, <1>9, <1>10, <1>11, <1>12, <1>14, <1>15 DEF StoreIInv

(* RebindCopy writes the strings of a rule one below the other.              *)
LEMMA NewStrings ==
  ASSUME StoreIInv, NEW i \in todo, Fits(i)
  PROVE  /\ \A a \in StringAreas(i) :
              /\ a.low \in Nat /\ a.high \in Nat /\ a.low <= a.high
              /\ buffer_end - Used(i) <= a.low /\ a.high <= buffer_end
         /\ \A a, b \in StringAreas(i) : a = b \/ Disjoint(a, b)
         /\ \A k \in DOMAIN nodes[i].sizes :
              \E a \in StringAreas(i) : a.id = <<i, k>> /\ a.high = a.low + nodes[i].sizes[k]
<1> DEFINE sizes == nodes[i].sizes
           n == Len(sizes)
           f == UpTo(sizes)
<1>0. sizes \in Seq(Nat) /\ n \in Nat /\ Total(sizes) \in Nat /\ DOMAIN sizes = 1..n
  BY NodeFacts DEF StoreIInv, StoreTypeOK
<1>1. /\ f \in [0..n -> Nat] /\ f[0] = 0 /\ \A k \in 1..n : f[k] = f[k - 1] + sizes[k]
      /\ f[n] = Total(sizes)
  BY <1>0, UpToFacts DEF Total
<1>2. \A k \in 0..n, l \in 0..n : k <= l => f[k] <= f[l]
  <2> SUFFICES ASSUME NEW k \in 0..n, NEW l \in 0..n, k <= l PROVE f[k] <= f[l]
    OBVIOUS
  <2>1. l \in k..n
    BY <1>0
  <2> QED
    BY <1>0, <2>1, UpToMonotone
<1>3. \A a : a \in StringAreas(i) <=>
        \E k \in 1..n : a = Area(<<i, k>>, buffer_end - f[k], sizes[k])
  BY <1>0 DEF StringAreas
<1> HIDE DEF n, f, sizes
<1>4. buffer_end \in Nat /\ Total(sizes) <= Used(i) /\ Used(i) <= buffer_end /\ Used(i) \in Nat
  <2>1. Used(i) = n * OpcodeSize + Total(sizes) /\ n * OpcodeSize \in Nat
    BY <1>0, SizesAssumption DEF Used, sizes, n
  <2>2. buffer_end \in Nat /\ Used(i) <= buffer_end
    BY DEF StoreIInv, StoreTypeOK, RoomLeft, Fits
  <2> QED
    BY <1>0, <2>1, <2>2
<1>5. \A k \in 1..n : /\ f[k] \in Nat /\ f[k - 1] \in Nat /\ sizes[k] \in Nat
                      /\ f[k] = f[k - 1] + sizes[k] /\ f[k] <= Total(sizes)
  <2> SUFFICES ASSUME NEW k \in 1..n
               PROVE  /\ f[k] \in Nat /\ f[k - 1] \in Nat /\ sizes[k] \in Nat
                      /\ f[k] = f[k - 1] + sizes[k] /\ f[k] <= Total(sizes)
    OBVIOUS
  <2>1. k \in 0..n /\ k - 1 \in 0..n /\ n \in 0..n /\ k <= n
    BY <1>0
  <2>2. f[k] <= f[n]
    BY <1>2, <2>1
  <2>3. sizes[k] \in Nat
    BY <1>0
  <2> QED
    BY <1>1, <2>1, <2>2, <2>3
<1>6. ASSUME NEW k \in 1..n, NEW a, a = Area(<<i, k>>, buffer_end - f[k], sizes[k])
      PROVE  /\ a.id = <<i, k>> /\ a.low = buffer_end - f[k] /\ a.high = buffer_end - f[k - 1]
             /\ a.high = a.low + sizes[k]
             /\ a.low \in Nat /\ a.high \in Nat /\ a.low <= a.high
             /\ buffer_end - Used(i) <= a.low /\ a.high <= buffer_end
  <2>1. a.id = <<i, k>> /\ a.low = buffer_end - f[k] /\ a.high = a.low + sizes[k]
    BY <1>6 DEF Area
  <2>2. /\ f[k] \in Nat /\ f[k - 1] \in Nat /\ sizes[k] \in Nat
        /\ f[k] = f[k - 1] + sizes[k] /\ f[k] <= Total(sizes)
    BY <1>5
  <2> DEFINE u == Used(i)
             x == f[k]
             y == f[k - 1]
             z == sizes[k]
             e == buffer_end
  <2>3. /\ x \in Nat /\ y \in Nat /\ z \in Nat /\ e \in Nat /\ u \in Nat
        /\ x = y + z /\ x <= u /\ u <= e
    BY <1>0, <1>4, <2>2
  <2> HIDE DEF u, x, y, z, e
  <2>4. /\ e - x \in Nat /\ e - y = (e - x) + z /\ e - y \in Nat /\ e - x <= e - y
        /\ e - u <= e - x /\ e - y <= e
    BY <2>3
  <2> QED
    BY <2>1, <2>4 DEF u, x, y, z, e
<1>7. ASSUME NEW a \in StringAreas(i), NEW b \in StringAreas(i)
      PROVE  a = b \/ Disjoint(a, b)
  <2>1. PICK k \in 1..n : a = Area(<<i, k>>, buffer_end - f[k], sizes[k])
    BY <1>3
  <2>2. PICK l \in 1..n : b = Area(<<i, l>>, buffer_end - f[l], sizes[l])
    BY <1>3
  <2>3. a.low = buffer_end - f[k] /\ a.high = buffer_end - f[k - 1]
    BY <1>6, <2>1
  <2>4. b.low = buffer_end - f[l] /\ b.high = buffer_end - f[l - 1]
    BY <1>6, <2>2
  <2>5. /\ f[k] \in Nat /\ f[k - 1] \in Nat /\ f[l] \in Nat /\ f[l - 1] \in Nat
    BY <1>5
  <2>6. k < l => f[k] <= f[l - 1]
    <3>1. k < l => k \in 0..n /\ l - 1 \in 0..n /\ k <= l - 1
      BY <1>0
    <3> QED
      BY <1>2, <3>1
  <2>7. l < k => f[l] <= f[k - 1]
    <3>1. l < k => l \in 0..n /\ k - 1 \in 0..n /\ l <= k - 1
      BY <1>0
    <3> QED
      BY <1>2, <3>1
  <2>8. k < l => b.high <= a.low
    BY <1>4, <2>3, <2>4, <2>5, <2>6
  <2>9. l < k => a.high <= b.low
    BY <1>4, <2>3, <2>4, <2>5, <2>7
  <2>10. k = l => a = b
    BY <2>1, <2>2
  <2>11. k < l \/ l < k \/ k = l
    BY <1>0
  <2> QED
    BY <2>8, <2>9, <2>10, <2>11 DEF Disjoint
<1>8. \A k \in 1..n : \E a \in StringAreas(i) : a.id = <<i, k>> /\ a.high = a.low + sizes[k]
  <2> SUFFICES ASSUME NEW k \in 1..n
               PROVE  \E a \in StringAreas(i) : a.id = <<i, k>> /\ a.high = a.low + sizes[k]
    OBVIOUS
  <2> DEFINE a == Area(<<i, k>>, buffer_end - f[k], sizes[k])
  <2>1. a \in StringAreas(i)
    BY <1>3
  <2>2. a.id = <<i, k>> /\ a.high = a.low + sizes[k]
    BY <1>6
  <2> QED
    BY <2>1, <2>2
<1>9. \A a \in StringAreas(i) :
        /\ a.low \in Nat /\ a.high \in Nat /\ a.low <= a.high
        /\ buffer_end - Used(i) <= a.low /\ a.high <= buffer_end
  BY <1>3, <1>6
<1> QED
  BY <1>0, <1>7, <1>8, <1>9 DEF sizes

LEMMA PackStep ==
  ASSUME StoreIInv, NEW i \in todo, PackRule(i)
  PROVE  StoreIInv'
<1> DEFINE sizes == nodes[i].sizes
           l == Len(sizes)
           L == l * OpcodeSize
           u == Used(i)
           new == OpcodeArea(i)
<1>0. /\ status = "packing" /\ nodes[i].service = service /\ Fits(i)
      /\ \A j \in todo : nodes[i].service <= nodes[j].service
      /\ opcodes' = opcodes \union {new}
      /\ strings' = strings \union {a \in StringAreas(i) : a.low < a.high}
      /\ buffer_end' = buffer_end - u /\ avail_size' = avail_size - u
      /\ svc_opcode_count' = svc_opcode_count + l
      /\ todo' = todo \ {i}
      /\ UNCHANGED <<nodes, data_size, status, service, current_buffer, entry>>
  <2>1. IsNext(i) /\ \A j \in todo : nodes[j].service \in Nat
    <3>1. IsNext(i) /\ StoreTypeOK
      BY DEF PackRule, StoreIInv
    <3>2. ASSUME NEW j \in todo PROVE nodes[j].service \in Nat
      BY <3>1, NodeFacts, SizesAssumption DEF StoreTypeOK, Services
    <3> QED
      BY <3>1, <3>2
  <2>2. \A j \in todo : nodes[i].service <= nodes[j].service
    BY <2>1 DEF IsNext
  <2> QED
    BY <2>1, <2>2 DEF PackRule, IsNext, givenVars
<1>1. /\ StoreTypeOK /\ Fresh /\ Entries /\ i \in DOMAIN nodes
      /\ service \in Nat /\ service < NumServices /\ service \in Services
      /\ service # NumServices /\ NumServices \in Nat
      /\ sizes \in Seq(Nat) /\ l \in Nat /\ Total(sizes) \in Nat
  <2>1. StoreTypeOK /\ Fresh /\ Entries /\ i \in DOMAIN nodes
    BY DEF StoreIInv, StoreTypeOK
  <2> QED
    BY <1>0, <2>1, NodeFacts, SizesAssumption DEF Services
<1>2. /\ CountSize \in Nat /\ OpcodeSize \in Nat /\ BufferSize \in Nat /\ L \in Nat
      /\ current_buffer \in Nat /\ svc_opcode_count \in Nat
      /\ svc_opcode_count * OpcodeSize \in Nat
      /\ svc_opcode_count' * OpcodeSize = svc_opcode_count * OpcodeSize + L
  <2>1. CountSize \in Nat /\ OpcodeSize \in Nat /\ BufferSize \in Nat
    BY SizesAssumption DEF BufferSize
  <2>2. current_buffer \in Nat /\ svc_opcode_count \in Nat
    BY <1>1 DEF StoreTypeOK
  <2> HIDE DEF l
  <2> QED
    BY <1>0, <1>1, <2>1, <2>2
<1>3. /\ new.id = <<i, 0>> /\ new.low = Top /\ new.high = Top + L
      /\ Top \in Nat /\ Top' = Top + L /\ new.low \in Nat /\ new.high \in Nat
      /\ Top <= Top'
  <2> HIDE DEF L
  <2>1. Top \in Nat
    BY <1>2 DEF Top
  <2>2. Top' = Top + L
    BY <1>0, <1>2 DEF Top
  <2>3. new.id = <<i, 0>> /\ new.low = Top /\ new.high = Top + L
    BY <1>2 DEF OpcodeArea, Area, Top, L
  <2> QED
    BY <1>2, <2>1, <2>2, <2>3
<1>4. /\ u \in Nat /\ u <= avail_size /\ u = L + Total(sizes) /\ buffer_end = avail_size
      /\ avail_size \in Nat /\ avail_size <= data_size /\ data_size \in Nat
  <2>1. /\ avail_size \in Nat /\ avail_size <= data_size /\ data_size \in Nat
        /\ buffer_end = avail_size
    BY SizesAssumption DEF StoreIInv, StoreTypeOK, RoomLeft
  <2>2. u = L + Total(sizes)
    BY DEF Used
  <2>3. u <= avail_size
    BY <1>0 DEF Fits
  <2>4. L \in Nat /\ Total(sizes) \in Nat
    BY <1>1, <1>2
  <2> HIDE DEF u, L
  <2> QED
    BY <2>1, <2>2, <2>3, <2>4
<1>5. /\ \A a \in StringAreas(i) :
           /\ a.low \in Nat /\ a.high \in Nat /\ a.low <= a.high
           /\ buffer_end - u <= a.low /\ a.high <= buffer_end
      /\ \A a, b \in StringAreas(i) : a = b \/ Disjoint(a, b)
      /\ \A k \in DOMAIN sizes :
           \E a \in StringAreas(i) : a.id = <<i, k>> /\ a.high = a.low + sizes[k]
  BY <1>0, NewStrings
<1> HIDE DEF new, u, l, L, sizes
<1>6. StoreTypeOK'
  <2>1. buffer_end' \in Nat /\ avail_size' \in 0..data_size /\ svc_opcode_count' \in Nat
    BY <1>0, <1>1, <1>2, <1>4
  <2>2. \A r \in opcodes' \union strings' : r.low \in Nat /\ r.high \in Nat /\ r.low <= r.high
    <3>1. \A r \in opcodes \union strings : r.low \in Nat /\ r.high \in Nat /\ r.low <= r.high
      BY <1>1 DEF StoreTypeOK
    <3>2. new.low <= new.high
      BY <1>2, <1>3
    <3> QED
      BY <1>0, <1>3, <1>5, <3>1, <3>2
  <2> QED
    BY <1>0, <1>1, <2>1, <2>2 DEF StoreTypeOK
<1>7. Untouched' /\ Fresh' /\ Complete'
  BY <1>0, <1>1 DEF Untouched, Fresh, Complete
<1>8. Laid' = Laid \union {i}
  BY <1>0, <1>1 DEF Laid
<1>9. Entries'
  <2>1. service' # NumServices => service' \in DOMAIN entry' /\ entry'[service'] = current_buffer'
    BY <1>0, <1>1 DEF Entries
  <2>2. \A s \in DOMAIN entry' : s <= service'
    BY <1>0, <1>1 DEF Entries
  <2>3. DOMAIN entry' \subseteq {nodes'[j].service : j \in DOMAIN nodes'}
    BY <1>0, <1>1 DEF Entries
  <2>4. \A j \in Laid' : nodes'[j].service \in DOMAIN entry'
    BY <1>0, <1>1, <1>8 DEF Entries
  <2>5. \A j \in todo' : service' <= nodes'[j].service
    BY <1>0
  <2>6. \A s, t \in DOMAIN entry' : s <= t => entry'[s] <= entry'[t]
    BY <1>0, <1>1 DEF Entries
  <2> QED
    BY <2>1, <2>2, <2>3, <2>4, <2>5, <2>6 DEF Entries
<1>10. OpcodeAreas'
  <2> SUFFICES ASSUME NEW a \in opcodes'
               PROVE  /\ \E j \in Laid' :
                           /\ a.id = <<j, 0>>
                           /\ a.low >= entry[nodes[j].service] + CountSize
                           /\ \A t \in DOMAIN entry : nodes[j].service < t => a.high <= entry[t]
                      /\ a.high <= Top'
    BY <1>0 DEF OpcodeAreas
  <2>1. CASE a \in opcodes
    <3>1. /\ \E j \in Laid :
               /\ a.id = <<j, 0>>
               /\ a.low >= entry[nodes[j].service] + CountSize
               /\ \A t \in DOMAIN entry : nodes[j].service < t => a.high <= entry[t]
          /\ a.high <= Top /\ a.high \in Nat
      BY <1>1, <2>1 DEF StoreIInv, OpcodeAreas, StoreTypeOK
    <3>2. a.high <= Top'
      BY <1>2, <1>3, <3>1
    <3> QED
      BY <1>8, <3>1, <3>2
  <2>2. CASE a = new
    <3>1. entry[service] = current_buffer /\ \A t \in DOMAIN entry : ~(service < t)
      <4>1. \A t \in DOMAIN entry : t <= service /\ t \in Nat
        BY <1>1 DEF Entries, StoreTypeOK, Services
      <4> QED
        BY <1>1, <4>1 DEF Entries
    <3>2. Top >= current_buffer + CountSize
      BY <1>2 DEF Top
    <3>3. a.id = <<i, 0>> /\ a.low >= entry[nodes[i].service] + CountSize
      BY <1>0, <1>3, <2>2, <3>1, <3>2
    <3>4. \A t \in DOMAIN entry : nodes[i].service < t => a.high <= entry[t]
      BY <1>0, <3>1
    <3>5. a.high <= Top'
      BY <1>3, <2>2
    <3> QED
      BY <1>8, <3>3, <3>4, <3>5
  <2> QED
    BY <1>0, <2>1, <2>2
<1>11. StringsAbove'
  <2> SUFFICES ASSUME NEW a \in strings'
               PROVE  a.low >= buffer_end - u /\ a.high <= data_size
    BY <1>0 DEF StringsAbove
  <2>1. CASE a \in strings
    <3>1. a.low >= buffer_end /\ a.high <= data_size /\ a.low \in Nat
      BY <1>1, <2>1 DEF StoreIInv, StringsAbove, StoreTypeOK
    <3> QED
      BY <1>4, <3>1
  <2>2. CASE a \in StringAreas(i)
    BY <1>4, <1>5, <2>2
  <2> QED
    BY <1>0, <2>1, <2>2
<1>12. SameKindApart'
  <2>1. \A a, b \in opcodes' : a = b \/ Disjoint(a, b)
    <3>1. \A a \in opcodes : a.high <= new.low
      BY <1>3 DEF StoreIInv, OpcodeAreas
    <3>2. \A a, b \in opcodes : a = b \/ Disjoint(a, b)
      BY DEF StoreIInv, SameKindApart
    <3> QED
      BY <1>0, <3>1, <3>2 DEF Disjoint
  <2>2. \A a, b \in strings' : a = b \/ Disjoint(a, b)
    <3>1. \A a \in strings : buffer_end <= a.low /\ a.low \in Nat
      BY <1>1, <1>4 DEF StoreIInv, StringsAbove, StoreTypeOK
    <3>2. \A a \in strings, b \in StringAreas(i) : b.high <= a.low
      BY <1>4, <1>5, <3>1
    <3>3. \A a, b \in strings : a = b \/ Disjoint(a, b)
      BY DEF StoreIInv, SameKindApart
    <3> QED
      BY <1>0, <1>5, <3>2, <3>3 DEF Disjoint
  <2> QED
    BY <2>1, <2>2 DEF SameKindApart, Disjoint
<1>13. AllPacked'
  <2>1. ASSUME NEW j \in Laid PROVE Packed(j)'
    <3>1. Packed(j)
      BY <1>0, <2>1 DEF StoreIInv, AllPacked
    <3> QED
      BY <1>0, <3>1 DEF Packed
  <2>2. Packed(i)'
    <3>1. /\ \E a \in opcodes' : /\ a.id = <<i, 0>>
                                 /\ a.low >= entry[nodes[i].service] + CountSize
                                 /\ a.high = a.low + Len(nodes[i].sizes) * OpcodeSize
      <4>1. new.low >= entry[nodes[i].service] + CountSize
        <5>1. entry[service] = current_buffer
          BY <1>1 DEF Entries
        <5>2. Top >= current_buffer + CountSize
          BY <1>2 DEF Top
        <5> QED
          BY <1>0, <1>3, <5>1, <5>2
      <4>2. new.high = new.low + Len(nodes[i].sizes) * OpcodeSize
        BY <1>3 DEF L, l, sizes
      <4> QED
        BY <1>0, <1>3, <4>1, <4>2
    <3>2. ASSUME NEW k \in DOMAIN sizes, sizes[k] > 0
          PROVE  \E a \in strings' : a.id = <<i, k>> /\ a.high = a.low + sizes[k]
      <4>1. PICK a \in StringAreas(i) : a.id = <<i, k>> /\ a.high = a.low + sizes[k]
        BY <1>5
      <4>2. a.low < a.high
        <5>1. a.low \in Nat /\ sizes[k] \in Nat
          BY <1>1, <1>5
        <5> QED
          BY <3>2, <4>1, <5>1
      <4>3. a \in strings'
        BY <1>0, <4>2
      <4> QED
        BY <4>1, <4>3
    <3>3. nodes' = nodes /\ entry' = entry
      BY <1>0
    <3> QED
      BY <3>1, <3>2, <3>3 DEF Packed, sizes
  <2> QED
    BY <1>8, <2>1, <2>2 DEF AllPacked
<1>14. TotalOpcodes' = TotalOpcodes /\ TotalStrings' = TotalStrings
       /\ OpcodesOf(todo)' = OpcodesOf(todo \ {i}) /\ StringsOf(todo)' = StringsOf(todo \ {i})
  <2>1. OpcodesOf(todo)' = OpcodesOf(todo') /\ StringsOf(todo)' = StringsOf(todo')
        /\ TotalOpcodes' = TotalOpcodes /\ TotalStrings' = TotalStrings
    BY <1>0, SameSums
  <2> QED
    BY <1>0, <2>1
<1> DEFINE p == OpcodesOf(todo \ {i})
           P == p * OpcodeSize
           Q == StringsOf(todo \ {i})
           T == TotalOpcodes * OpcodeSize
           x == Total(sizes)
<1>15. /\ OpcodesOf(todo) * OpcodeSize = P + L /\ StringsOf(todo) = Q + x
       /\ P \in Nat /\ Q \in Nat /\ T \in Nat /\ x \in Nat /\ TotalStrings \in Nat
  <2>1. /\ OpcodesOf(todo) = p + l /\ StringsOf(todo) = Q + x
        /\ p \in Nat /\ Q \in Nat /\ TotalOpcodes \in Nat /\ TotalStrings \in Nat
    <3>1. todo \subseteq DOMAIN nodes /\ todo \ {i} \subseteq DOMAIN nodes
      BY <1>1 DEF StoreTypeOK
    <3> QED
      BY <1>1, <3>1, StoreSums DEF TotalOpcodes, TotalStrings, sizes, l
  <2> HIDE DEF p, Q, x
  <2>2. (p + l) * OpcodeSize = p * OpcodeSize + l * OpcodeSize
    BY <1>1, <1>2, <2>1
  <2> QED
    BY <1>1, <1>2, <2>1, <2>2 DEF L, x
<1> HIDE DEF P, Q, T, x
<1>16. RoomLeft'
  <2>1. avail_size + T + TotalStrings = data_size + ((P + L) + (Q + x))
    BY <1>0, <1>15 DEF StoreIInv, RoomLeft, T
  <2>2. u = L + x
    BY <1>4 DEF x
  <2>3. (avail_size - u) + T + TotalStrings = data_size + (P + Q)
    BY <1>2, <1>4, <1>15, <2>1, <2>2
  <2>4. buffer_end' = avail_size'
    BY <1>0, <1>4
  <2> QED
    BY <1>0, <1>14, <2>3, <2>4 DEF RoomLeft, T, P, Q
<1>17. TopBound'
  <2> DEFINE v == service * BufferSize
             w == svc_opcode_count * OpcodeSize
  <2>1. v \in Nat /\ w \in Nat
    BY <1>1, <1>2
  <2>2. current_buffer + w + (P + L) <= T + v
    BY <1>0, <1>1, <1>15 DEF StoreIInv, TopBound, T
  <2>3. svc_opcode_count' * OpcodeSize = w + L
    BY <1>2
  <2> HIDE DEF v, w
  <2>4. current_buffer + (w + L) + P <= T + v
    BY <1>2, <1>15, <2>1, <2>2
  <2> QED
    BY <1>0, <1>14, <2>3, <2>4 DEF TopBound, T, P, v
<1>18. Roomy'
  BY <1>0, <1>14 DEF StoreIInv, Roomy, Needed
<1> QED
  BY <1>6, <1>7, <1>9, <1>10, <1>11, <1>12, <1>13, <1>16, <1>17, <1>18 DEF StoreIInv

LEMMA StoreStep == StoreIInv /\ [StoreNext]_storeVars => StoreIInv'
<1> SUFFICES ASSUME StoreIInv, [StoreNext]_storeVars PROVE StoreIInv'
  OBVIOUS
<1>1. CASE UNCHANGED storeVars
  <2>1. UNCHANGED <<nodes, data_size, status, todo, service, current_buffer,
                    svc_opcode_count, buffer_end, avail_size, entry, opcodes, strings>>
    BY <1>1 DEF storeVars, givenVars, packVars
  <2> USE DEF StoreIInv
  <2>2. StoreTypeOK'
    BY <2>1 DEF StoreTypeOK
  <2>3. Untouched' /\ Fresh' /\ Entries' /\ OpcodeAreas' /\ StringsAbove' /\ SameKindApart'
    BY <2>1 DEF Untouched, Fresh, Entries, OpcodeAreas, StringsAbove, SameKindApart, Laid,
                Top, Disjoint
  <2>4. TotalOpcodes' = TotalOpcodes /\ TotalStrings' = TotalStrings
        /\ OpcodesOf(todo)' = OpcodesOf(todo) /\ StringsOf(todo)' = StringsOf(todo)
    BY <2>1, SameSums
  <2>5. RoomLeft' /\ TopBound' /\ Complete' /\ Roomy'
    BY <2>1, <2>4 DEF RoomLeft, TopBound, Complete, Roomy, Needed
  <2>6. \A i \in DOMAIN nodes : Packed(i)' <=> Packed(i)
    BY <2>1 DEF Packed
  <2>7. AllPacked'
    BY <2>1, <2>6 DEF AllPacked, Laid
  <2> QED
    BY <2>2, <2>3, <2>5, <2>7
<1>2. CASE \E n \in RuleNodes : AddNode(n)
  BY <1>2, AddNodeStep
<1>3. CASE \E i \in todo : EnterService(i) \/ PackRule(i) \/ RunOut(i)
  BY <1>3, EnterStep, PackStep, RunOutStep
<1> QED
  BY <1>1, <1>2, <1>3, BeginStep, FinishStep DEF StoreNext

LEMMA StoreMeans == StoreIInv => StoreInv
<1> SUFFICES ASSUME StoreIInv PROVE StoreInv
  OBVIOUS
<1>0. StoreTypeOK /\ Fresh /\ Entries /\ OpcodeAreas /\ StringsAbove /\ SameKindApart
      /\ Untouched
  BY DEF StoreIInv
<1>1. BuffersApart
  <2> SUFFICES ASSUME NEW s \in DOMAIN entry, NEW t \in DOMAIN entry, s < t, NEW a \in opcodes
               PROVE  a.low >= entry[t] \/ a.high <= entry[t]
    BY DEF BuffersApart
  <2>1. PICK i \in Laid :
          /\ a.low >= entry[nodes[i].service] + CountSize
          /\ \A r \in DOMAIN entry : nodes[i].service < r => a.high <= entry[r]
    BY <1>0 DEF OpcodeAreas
  <2>2. status # "adding"
    BY <1>0 DEF Untouched
  <2>3. nodes[i].service \in DOMAIN entry
    BY <1>0, <2>2 DEF Entries
  <2>4. CASE nodes[i].service < t
    BY <2>1, <2>4
  <2>5. CASE ~(nodes[i].service < t)
    <3>1. nodes[i].service \in Nat /\ t \in Nat
      BY <1>0, <2>3 DEF StoreTypeOK, Services
    <3>2. entry[t] <= entry[nodes[i].service]
      BY <1>0, <2>3, <2>5, <3>1 DEF Entries
    <3>3. entry[t] \in Nat /\ entry[nodes[i].service] \in Nat /\ a.low \in Nat
          /\ CountSize \in Nat
      BY <1>0, <2>3, SizesAssumption DEF StoreTypeOK
    <3> QED
      BY <2>1, <3>2, <3>3
  <2> QED
    BY <2>4, <2>5
<1>2. LayoutWithRoom
  <2> SUFFICES ASSUME data_size >= Needed(2)
               PROVE  /\ status # "false"
                      /\ \A a \in Areas : a.high <= data_size
                      /\ \A a, b \in Areas : a = b \/ Disjoint(a, b)
    BY DEF LayoutWithRoom
  <2>1. status # "false"
    BY DEF StoreIInv, Roomy
  <2>2. CASE opcodes = {}
    BY <1>0, <2>1, <2>2 DEF Areas, StringsAbove, SameKindApart
  <2>3. CASE opcodes # {}
    <3> DEFINE T == TotalOpcodes * OpcodeSize
               N == NumServices * BufferSize
               P == OpcodesOf(todo) * OpcodeSize
               v == service * BufferSize
               w == svc_opcode_count * OpcodeSize
    <3>0. status # "adding" /\ service # NumServices
      BY <1>0, <2>3 DEF Untouched, Fresh
    <3>1. /\ service \in Nat /\ service + 1 <= NumServices /\ NumServices \in Nat
          /\ current_buffer \in Nat /\ svc_opcode_count \in Nat
          /\ BufferSize \in Nat /\ CountSize \in Nat /\ CountSize <= BufferSize
          /\ OpcodeSize \in Nat /\ avail_size \in Nat /\ data_size \in Nat
          /\ avail_size <= data_size /\ buffer_end = avail_size
      BY <1>0, <3>0, SizesAssumption
         DEF StoreTypeOK, Services, BufferSize, StoreIInv, RoomLeft
    <3>2. /\ TotalOpcodes \in Nat /\ OpcodesOf(todo) \in Nat /\ StringsOf(todo) \in Nat
      <4>1. DOMAIN nodes \in SUBSET DOMAIN nodes /\ todo \in SUBSET DOMAIN nodes
        BY <1>0 DEF StoreTypeOK
      <4>2. OpcodesOf(DOMAIN nodes) \in Nat /\ OpcodesOf(todo) \in Nat
        BY <4>1, <1>0, StoreSums
      <4>3. StringsOf(todo) \in Nat
        BY <4>1, <1>0, StoreSums
      <4> QED
        BY <4>2, <4>3 DEF TotalOpcodes
    <3>3. T \in Nat /\ N \in Nat /\ P \in Nat /\ v \in Nat /\ w \in Nat
      BY <3>1, <3>2
    <3>4. v + BufferSize <= N
      <4>1. \A a, b \in Nat : a <= b => a * BufferSize <= b * BufferSize
        BY <3>1
      <4>2. (service + 1) * BufferSize <= NumServices * BufferSize
        BY <3>1, <4>1
      <4>3. (service + 1) * BufferSize = service * BufferSize + BufferSize
        BY <3>1
      <4> QED
        BY <4>2, <4>3
    <3>5. current_buffer + w + P <= T + v
      BY <3>0 DEF StoreIInv, TopBound
    <3>6. avail_size >= T + N + (P + StringsOf(todo))
      BY <3>0, RoomFacts
    <3>7. Top = current_buffer + CountSize + w
      BY DEF Top
    <3> HIDE DEF T, N, P, v, w
    <3>8. Top \in Nat /\ Top <= avail_size
      BY <3>1, <3>2, <3>3, <3>4, <3>5, <3>6, <3>7
    <3>9. \A a \in opcodes : a.high <= avail_size /\ a.high \in Nat
      <4>1. \A a \in opcodes : a.high \in Nat /\ a.high <= Top
        BY <1>0 DEF StoreTypeOK, OpcodeAreas
      <4> QED
        BY <3>1, <3>8, <4>1
    <3>10. \A a \in strings : a.low >= avail_size /\ a.high <= data_size /\ a.low \in Nat
      BY <1>0, <3>1 DEF StoreTypeOK, StringsAbove
    <3>11. \A a \in opcodes : a.high <= data_size
      BY <3>1, <3>9
    <3>12. \A a \in opcodes, b \in strings : a.high <= b.low
      BY <3>1, <3>9, <3>10
    <3> QED
      BY <1>0, <2>1, <3>10, <3>11, <3>12 DEF Areas, SameKindApart, Disjoint
  <2> QED
    BY <2>2, <2>3
<1>3. NothingDropped
  <2> SUFFICES ASSUME status = "true"
               PROVE  /\ DOMAIN entry = {nodes[i].service : i \in DOMAIN nodes}
                      /\ \A i \in DOMAIN nodes : Packed(i)
    BY DEF NothingDropped
  <2>1. Laid = DOMAIN nodes
    BY DEF StoreIInv, Complete, Laid
  <2> QED
    BY <1>0, <2>1 DEF StoreIInv, AllPacked, Entries
<1> QED
  BY <1>0, <1>1, <1>2, <1>3 DEF StoreInv

(* Whatever rules are added, LowLevelPolicy::Done lays them out so that the  *)
(* buffer of a service does not run into the next one, opcodes keep off      *)
(* opcodes and strings off strings; when it returns TRUE every rule is there *)
(* with all its opcodes and strings; and in a memory that holds the opcodes  *)
(* twice it does return TRUE, and strings keep off opcodes (policy_low_      *)
(* level.cc:69).                                                             *)
THEOREM StoreRight == StoreSpec => []StoreInv
  BY StoreStart, StoreStep, StoreMeans, PTL DEF StoreSpec

-----------------------------------------------------------------------------
(* PolicyEngine.  The opcodes of rules are typed, and every rule ends with   *)
(* its action.                                                               *)
Chars == UNION {{p[i] : i \in DOMAIN p} : p \in Patterns}

Opcodes ==
  [kind : {"string", "equal", "and", "action"}, options : SUBSET Options, num : Numbers,
   fragment : Seq(Chars), start : {kSeekForward, kSeekToEnd} \union Nat,
   exact : BOOLEAN, action : Actions \union {"none"}]
ConditionOpcodes ==
  {op \in Opcodes : op.kind # "action" /\ (op.kind = "string" => op.fragment # <<>>)}
ActionOpcodes == {op \in Opcodes : op.kind = "action" /\ op.action \in Actions}
AnyOpcode == ConditionOpcodes \union ActionOpcodes
Ended == {ops \in Seq(AnyOpcode) : ops # <<>> => ops[Len(ops)] \in ActionOpcodes}

RulesRight ==
  /\ rule # NoRule =>
       rule \in [action : Actions, conditions : Seq(Conditions), opcodes : Seq(ConditionOpcodes)]
  /\ rules \in Seq([action : Actions, conditions : Seq(Conditions), opcodes : Ended])
  /\ refused \in Patterns \union {<<>>}
  /\ RefusedIsMalformed

EvalTyped ==
  /\ phase \in {"rules", "ready", "evaluating", "answered"}
  /\ call \in Calls \union {NoCall}
  /\ policy \in Ended /\ ix \in 1..(Len(policy) + 1)
  /\ context \in [position : Nat, options : {{}, {"or"}}]
  /\ context.position \in 0..Len(call.str)
  /\ skip_group \in BOOLEAN /\ evaluation \in BOOLEAN
  /\ result \in Actions \union {"none", "no_match", "error"} /\ NoPolicyError

(* Where a rule starts nothing is skipped and nothing held; while opcodes    *)
(* are skipped the last value and the mode say for which of the two reasons. *)
AtRuleStart == ix = 1 \/ policy[ix - 1].kind = "action"
StartsClean == phase \in {"rules", "ready"} \/ (phase = "evaluating" /\ AtRuleStart) =>
  ~skip_group /\ ~evaluation /\ context = ClearContext
SkipReason == skip_group => (evaluation <=> context.options = {"or"})
PhasesInOrder ==
  /\ phase \in {"rules", "ready"} => ix = 1
  /\ phase = "evaluating" => policy # <<>>

EngineIInv == RulesRight /\ EvalTyped /\ StartsClean /\ SkipReason /\ PhasesInOrder

LEMMA Words ==
  /\ \A p \in Patterns : p \in Seq(Chars) /\ Len(p) \in Nat /\ \A i \in 1..Len(p) : p[i] \in Chars
  /\ \A p \in Strings : Len(p) \in Nat
<1>1. ASSUME NEW p \in Patterns PROVE p \in Seq(Chars)
  <2>1. p \in Seq({p[i] : i \in DOMAIN p})
    BY PatternsAssumption
  <2>2. p \in [1..Len(p) -> {p[i] : i \in DOMAIN p}] /\ Len(p) \in Nat
    BY <2>1
  <2>3. \A i \in 1..Len(p) : p[i] \in Chars
    BY <2>2 DEF Chars
  <2>4. p \in [1..Len(p) -> Chars]
    BY <2>2, <2>3
  <2> QED
    BY <2>2, <2>4
<1>2. ASSUME NEW p \in Strings PROVE Len(p) \in Nat
  <2>1. p \in Seq({p[i] : i \in DOMAIN p})
    BY PatternsAssumption
  <2> QED
    BY <2>1
<1> QED
  BY <1>1, <1>2

(* The generator of a string condition.                                      *)
Generators ==
  [opcodes : Seq(ConditionOpcodes), fragment : Seq(Chars),
   last_char : {"none", "alpha", "asterisk", "qmark"}, state : {"none", "asterisk", "qmark"},
   skip_count : Nat, escaped : BOOLEAN, ok : BOOLEAN]

LEMMA GenFacts ==
  ASSUME NEW g \in Generators, NEW negate \in BOOLEAN, NEW last_call \in BOOLEAN
  PROVE  LET h == GenStringOpcode(g, negate, last_call) IN
         /\ h \in Generators
         /\ h.ok = g.ok /\ h.escaped = g.escaped /\ h.last_char = g.last_char
<1> DEFINE options == StringOptions(negate, last_call)
           start == StartPosition(g, last_call)
           op == StringOpcode(g.fragment, start, last_call /\ g.state = "none", options)
<1>0. g.opcodes \in Seq(ConditionOpcodes) /\ g.fragment \in Seq(Chars) /\ g.skip_count \in Nat
  BY DEF Generators
<1>1. options \in SUBSET Options /\ StringOptions(negate, TRUE) \in SUBSET Options
  BY DEF StringOptions, Options
<1>2. start \in {kSeekForward, kSeekToEnd} \union Nat
  BY <1>0 DEF StartPosition
<1>3. CASE g.fragment = <<>>
  <2>1. CASE last_call /\ g.opcodes # <<>>
    <3> DEFINE n == Len(g.opcodes)
               ops == [g.opcodes EXCEPT ![n].options = StringOptions(negate, TRUE)]
    <3>1. n \in 1..n /\ g.opcodes[n] \in ConditionOpcodes
      BY <1>0, <2>1
    <3>2. [g.opcodes[n] EXCEPT !.options = StringOptions(negate, TRUE)] \in ConditionOpcodes
      BY <1>1, <3>1 DEF ConditionOpcodes, Opcodes
    <3>3. ops = [g.opcodes EXCEPT ![n] = [g.opcodes[n] EXCEPT !.options = StringOptions(negate, TRUE)]]
      OBVIOUS
    <3>4. ops \in Seq(ConditionOpcodes)
      BY <1>0, <3>1, <3>2, <3>3
    <3>5. GenStringOpcode(g, negate, last_call) = [g EXCEPT !.opcodes = ops]
      BY <1>3, <2>1 DEF GenStringOpcode
    <3> HIDE DEF ops
    <3> QED
      BY <3>4, <3>5 DEF Generators
  <2>2. CASE ~(last_call /\ g.opcodes # <<>>)
    BY <1>3, <2>2 DEF GenStringOpcode
  <2> QED
    BY <2>1, <2>2
<1>4. CASE g.fragment # <<>>
  <2>1. op \in ConditionOpcodes
    BY <1>0, <1>1, <1>2, <1>4 DEF ConditionOpcodes, Opcodes, StringOpcode, Numbers
  <2>2. Append(g.opcodes, op) \in Seq(ConditionOpcodes) /\ <<>> \in Seq(Chars)
    BY <1>0, <2>1
  <2>3. GenStringOpcode(g, negate, last_call) =
          [g EXCEPT !.opcodes = Append(g.opcodes, op),
                    !.skip_count = IF g.state = "qmark" THEN 0 ELSE g.skip_count,
                    !.fragment = <<>>]
    BY <1>4 DEF GenStringOpcode
  <2> DEFINE ops == Append(g.opcodes, op)
             skip == IF g.state = "qmark" THEN 0 ELSE g.skip_count
             h == [g EXCEPT !.opcodes = ops, !.skip_count = skip, !.fragment = <<>>]
  <2>4. ops \in Seq(ConditionOpcodes) /\ skip \in Nat
    BY <1>0, <2>2
  <2>5. GenStringOpcode(g, negate, last_call) = h
    BY <2>3
  <2> HIDE DEF ops, skip
  <2>6. h \in Generators /\ h.ok = g.ok /\ h.escaped = g.escaped /\ h.last_char = g.last_char
    BY <2>2, <2>4 DEF Generators
  <2> QED
    BY <2>5, <2>6
<1> QED
  BY <1>3, <1>4

(* What the generator knows behind the first i characters of a pattern: no   *)
(* pair of wildcards so far was malformed, whether a character was escaped   *)
(* and, unless one is, which wildcard came last.                             *)
PairsFine(p, i) ==
  \A j \in Wild(p) : j + 1 \in Wild(p) /\ j + 1 <= i => {j, j + 1} \subseteq QuestionMarks(p)

ReadRight(g, p, i) ==
  /\ g.ok <=> PairsFine(p, i)
  /\ g.ok => /\ g.escaped <=> (i > 0 /\ Escape(p, i))
             /\ ~g.escaped => /\ g.last_char = "asterisk" <=> i \in Asterisks(p)
                              /\ g.last_char = "qmark" <=> i \in QuestionMarks(p)

LEMMA WildFacts ==
  ASSUME NEW p, Len(p) \in Nat, NEW i \in 1..Len(p)
  PROVE  /\ i \in Wild(p) <=> p[i] \in {"*", "?"} /\ ~(i - 1 > 0 /\ Escape(p, i - 1))
         /\ i \in Asterisks(p) <=> i \in Wild(p) /\ p[i] = "*"
         /\ i \in QuestionMarks(p) <=> i \in Wild(p) /\ p[i] = "?"
         /\ Wild(p) = Asterisks(p) \union QuestionMarks(p) /\ Wild(p) \subseteq Nat
         /\ \A j \in Asterisks(p) : j \notin QuestionMarks(p)
         /\ Escape(p, i) => p[i] = "/"
         /\ i - 1 > 0 /\ Escape(p, i - 1) => p[i] = "?"
<1>1. (i > 1) <=> (i - 1 > 0)
  OBVIOUS
<1>2. i \in Wild(p) <=> p[i] \in {"*", "?"} /\ ~(i - 1 > 0 /\ Escape(p, i - 1))
  BY <1>1 DEF Wild
<1>3. /\ i \in Asterisks(p) <=> i \in Wild(p) /\ p[i] = "*"
      /\ i \in QuestionMarks(p) <=> i \in Wild(p) /\ p[i] = "?"
      /\ \A j \in Asterisks(p) : j \notin QuestionMarks(p)
  BY DEF Asterisks, QuestionMarks
<1>4. \A j \in Wild(p) : p[j] \in {"*", "?"} /\ j \in Nat
  BY DEF Wild
<1>5. Wild(p) = Asterisks(p) \union QuestionMarks(p) /\ Wild(p) \subseteq Nat
  BY <1>4 DEF Asterisks, QuestionMarks
<1>6. i - 1 + 1 = i
  OBVIOUS
<1>7. (Escape(p, i) => p[i] = "/") /\ (Escape(p, i - 1) => p[i] = "?")
  BY <1>6 DEF Escape
<1> QED
  BY <1>2, <1>3, <1>5, <1>7

LEMMA PairStep ==
  ASSUME NEW p, Len(p) \in Nat, NEW i \in 1..Len(p)
  PROVE  PairsFine(p, i) <=>
           /\ PairsFine(p, i - 1)
           /\ i - 1 \in Wild(p) /\ i \in Wild(p) => {i - 1, i} \subseteq QuestionMarks(p)
<1>1. Wild(p) \subseteq Nat
  BY WildFacts
<1>2. \A j \in Nat : (j + 1 <= i <=> j + 1 <= i - 1 \/ j = i - 1) /\ (j = i - 1 => j + 1 = i)
  OBVIOUS
<1> QED
  BY <1>1, <1>2 DEF PairsFine

LEMMA ReadTyped ==
  ASSUME NEW p \in Patterns, NEW i \in 1..Len(p), NEW negate \in BOOLEAN, NEW g \in Generators
  PROVE  ReadChar(g, negate, p, i) \in Generators
<1> DEFINE h == ReadChar(g, negate, p, i)
           f == GenStringOpcode(g, negate, FALSE)
<1>1. f \in Generators /\ f.skip_count + 1 \in Nat
  <2>1. f \in Generators
    BY GenFacts
  <2> HIDE DEF f
  <2>2. f.skip_count \in Nat
    BY <2>1 DEF Generators
  <2> QED
    BY <2>1, <2>2
<1>2. AddChar(g, p[i]) \in Generators
  <2>1. g.fragment \in Seq(Chars) /\ p[i] \in Chars
    BY Words DEF Generators
  <2>2. Append(g.fragment, p[i]) \in Seq(Chars)
    BY <2>1
  <2> QED
    BY <2>2 DEF AddChar, Generators
<1>3. [g EXCEPT !.ok = FALSE] \in Generators /\ [g EXCEPT !.escaped = TRUE] \in Generators
  BY DEF Generators
<1> HIDE DEF f
<1>4. [f EXCEPT !.last_char = "asterisk", !.state = "asterisk"] \in Generators
  BY <1>1 DEF Generators
<1>5. [f EXCEPT !.last_char = "qmark", !.state = "qmark", !.skip_count = @ + 1] \in Generators
  <2> DEFINE skip == f.skip_count + 1
  <2>1. skip \in Nat
    BY <1>1
  <2> HIDE DEF skip
  <2>2. [f EXCEPT !.last_char = "qmark", !.state = "qmark", !.skip_count = skip] \in Generators
    BY <1>1, <2>1 DEF Generators
  <2> QED
    BY <2>2 DEF skip
<1>6. \/ h = g \/ h = AddChar(g, p[i])
      \/ h = [g EXCEPT !.ok = FALSE] \/ h = [g EXCEPT !.escaped = TRUE]
      \/ h = [f EXCEPT !.last_char = "asterisk", !.state = "asterisk"]
      \/ h = [f EXCEPT !.last_char = "qmark", !.state = "qmark", !.skip_count = @ + 1]
  BY DEF ReadChar, f, Generators
<1> QED
  BY <1>2, <1>3, <1>4, <1>5, <1>6

LEMMA ReadStep ==
  ASSUME NEW p \in Patterns, NEW i \in 1..Len(p), NEW negate \in BOOLEAN,
         NEW g \in Generators, ReadRight(g, p, i - 1)
  PROVE  ReadRight(ReadChar(g, negate, p, i), p, i)
<1> DEFINE h == ReadChar(g, negate, p, i)
           f == GenStringOpcode(g, negate, FALSE)
<1>0. Len(p) \in Nat /\ p[i] \in Chars
  BY Words
<1>1. /\ f \in Generators
      /\ f.ok = g.ok /\ f.escaped = g.escaped /\ f.last_char = g.last_char
  BY GenFacts
<1>2. /\ i \in Wild(p) <=> p[i] \in {"*", "?"} /\ ~(i - 1 > 0 /\ Escape(p, i - 1))
      /\ i \in Asterisks(p) <=> i \in Wild(p) /\ p[i] = "*"
      /\ i \in QuestionMarks(p) <=> i \in Wild(p) /\ p[i] = "?"
      /\ Wild(p) = Asterisks(p) \union QuestionMarks(p)
      /\ \A j \in Asterisks(p) : j \notin QuestionMarks(p)
      /\ Escape(p, i) => p[i] = "/"
      /\ i - 1 > 0 /\ Escape(p, i - 1) => p[i] = "?"
  BY <1>0, WildFacts
<1>3. PairsFine(p, i) <=>
        /\ PairsFine(p, i - 1)
        /\ i - 1 \in Wild(p) /\ i \in Wild(p) => {i - 1, i} \subseteq QuestionMarks(p)
  BY <1>0, PairStep
<1>4. i > 0 /\ i - 1 \in 0..Len(p)
  BY <1>0
<1>5. CASE ~g.ok
  <2>1. h = g
    BY <1>5 DEF ReadChar
  <2> QED
    BY <1>3, <1>5, <2>1 DEF ReadRight
<1>6. ASSUME g.ok
      PROVE  /\ PairsFine(p, i - 1)
             /\ g.escaped <=> (i - 1 > 0 /\ Escape(p, i - 1))
             /\ ~g.escaped => /\ g.last_char = "asterisk" <=> i - 1 \in Asterisks(p)
                              /\ g.last_char = "qmark" <=> i - 1 \in QuestionMarks(p)
  BY <1>6 DEF ReadRight
<1>7. /\ AddChar(g, p[i]).ok = g.ok /\ AddChar(g, p[i]).escaped = FALSE
      /\ AddChar(g, p[i]).last_char = "alpha"
  BY DEF AddChar, Generators
<1>8. CASE g.ok /\ g.escaped
  <2>1. h = AddChar(g, p[i])
    BY <1>8 DEF ReadChar
  <2> QED
    BY <1>2, <1>3, <1>6, <1>7, <1>8, <2>1 DEF ReadRight
<1>9. CASE g.ok /\ ~g.escaped /\ p[i] = "*"
  <2>1. i \in Asterisks(p) /\ i \notin QuestionMarks(p) /\ ~Escape(p, i)
    BY <1>2, <1>6, <1>9
  <2>2. CASE g.last_char \in {"asterisk", "qmark"}
    <3>1. h = [g EXCEPT !.ok = FALSE]
      BY <1>9, <2>2 DEF ReadChar
    <3>2. h.ok = FALSE
      BY <3>1 DEF Generators
    <3>3. ~PairsFine(p, i)
      BY <1>2, <1>3, <1>6, <1>9, <2>1, <2>2
    <3> QED
      BY <3>2, <3>3 DEF ReadRight
  <2>3. CASE g.last_char \notin {"asterisk", "qmark"}
    <3>1. h = [f EXCEPT !.last_char = "asterisk", !.state = "asterisk"]
      BY <1>9, <2>3 DEF ReadChar
    <3>2. h.ok = g.ok /\ h.escaped = g.escaped /\ h.last_char = "asterisk"
      <4> HIDE DEF f
      <4> QED
        BY <1>1, <3>1 DEF Generators
    <3>3. PairsFine(p, i)
      BY <1>2, <1>3, <1>6, <1>9, <2>3
    <3> QED
      BY <1>9, <2>1, <3>2, <3>3 DEF ReadRight
  <2> QED
    BY <2>2, <2>3
<1>10. CASE g.ok /\ ~g.escaped /\ p[i] = "?"
  <2>1. i \in QuestionMarks(p) /\ i \notin Asterisks(p) /\ ~Escape(p, i)
    BY <1>2, <1>6, <1>10
  <2>2. CASE g.last_char = "asterisk"
    <3>1. h = [g EXCEPT !.ok = FALSE]
      BY <1>10, <2>2 DEF ReadChar
    <3>2. h.ok = FALSE
      BY <3>1 DEF Generators
    <3>3. ~PairsFine(p, i)
      BY <1>2, <1>3, <1>6, <1>10, <2>1, <2>2
    <3> QED
      BY <3>2, <3>3 DEF ReadRight
  <2>3. CASE g.last_char # "asterisk"
    <3>1. h = [f EXCEPT !.last_char = "qmark", !.state = "qmark", !.skip_count = @ + 1]
      BY <1>10, <2>3 DEF ReadChar
    <3>2. h.ok = g.ok /\ h.escaped = g.escaped /\ h.last_char = "qmark"
      <4> HIDE DEF f
      <4>2. h = [f EXCEPT !.last_char = "qmark", !.state = "qmark", !.skip_count = f.skip_count + 1]
        BY <3>1
      <4> DEFINE skip == f.skip_count + 1
      <4> HIDE DEF skip
      <4> QED
        BY <1>1, <4>2 DEF Generators
    <3>3. PairsFine(p, i)
      BY <1>2, <1>3, <1>6, <1>10, <2>1, <2>3
    <3> QED
      BY <1>10, <2>1, <3>2, <3>3 DEF ReadRight
  <2> QED
    BY <2>2, <2>3
<1>11. CASE g.ok /\ ~g.escaped /\ p[i] # "*" /\ p[i] # "?"
  <2>1. i \notin Wild(p) /\ i \notin Asterisks(p) /\ i \notin QuestionMarks(p)
    BY <1>2, <1>11
  <2>2. PairsFine(p, i)
    BY <1>3, <1>6, <1>11, <2>1
  <2>3. CASE Escape(p, i)
    <3>1. h = [g EXCEPT !.escaped = TRUE]
      BY <1>11, <2>3 DEF ReadChar, Escape
    <3>2. h.ok = g.ok /\ h.escaped = TRUE
      BY <3>1 DEF Generators
    <3> QED
      BY <1>4, <1>11, <2>2, <2>3, <3>2 DEF ReadRight
  <2>4. CASE ~Escape(p, i)
    <3>1. h = AddChar(g, p[i])
      BY <1>11, <2>4 DEF ReadChar, Escape
    <3> QED
      BY <1>7, <1>11, <2>1, <2>2, <2>4, <3>1 DEF ReadRight
  <2> QED
    BY <2>3, <2>4
<1> QED
  BY <1>5, <1>8, <1>9, <1>10, <1>11

(* A pattern is refused exactly when it is malformed.                        *)
LEMMA GeneratedRight ==
  ASSUME NEW p \in Patterns, NEW negate \in BOOLEAN, NEW ops \in Seq(ConditionOpcodes)
  PROVE  /\ Generated(ops, negate, p).opcodes \in Seq(ConditionOpcodes)
         /\ Generated(ops, negate, p).ok <=> WellFormed(p)
<1> DEFINE n == Len(p)
           step == [q \in (1..n) \X Generators |-> ReadChar(q[2], negate, p, q[1])]
           start == Generator(ops)
<1>0. n \in Nat
  BY Words
<1>1. start \in Generators
  BY DEF Generator, Generators
<1>2. step \in [(1..n) \X Generators -> Generators]
  <2>1. ASSUME NEW q \in (1..n) \X Generators PROVE ReadChar(q[2], negate, p, q[1]) \in Generators
    BY ReadTyped
  <2> QED
    BY <2>1
<1>3. \A i \in 1..n, g \in Generators : step[<<i, g>>] = ReadChar(g, negate, p, i)
  OBVIOUS
<1>4. \A f : (f \in [0..n -> Generators]
               /\ f = [i \in 0..n |-> IF i = 0 THEN start ELSE step[<<i, f[i - 1]>>]]) =>
             f = [i \in 0..n |-> IF i = 0 THEN start ELSE ReadChar(f[i - 1], negate, p, i)]
  <2> HIDE DEF step, n, start
  <2> SUFFICES ASSUME NEW f \in [0..n -> Generators],
                      f = [i \in 0..n |-> IF i = 0 THEN start ELSE step[<<i, f[i - 1]>>]],
                      NEW i \in 0..n
               PROVE  (IF i = 0 THEN start ELSE step[<<i, f[i - 1]>>])
                        = (IF i = 0 THEN start ELSE ReadChar(f[i - 1], negate, p, i))
    OBVIOUS
  <2>1. i # 0 => i \in 1..n /\ i - 1 \in 0..n
    BY <1>0
  <2>2. i # 0 => f[i - 1] \in Generators
    BY <2>1
  <2> QED
    BY <1>3, <2>1, <2>2
<1> HIDE DEF step
<1>5. PICK f \in [0..n -> Generators] :
        f = [i \in 0..n |-> IF i = 0 THEN start ELSE ReadChar(f[i - 1], negate, p, i)]
  <2> HIDE DEF n, start
  <2>1. PICK f \in [0..n -> Generators] : IsRecursion(f, n, start, step)
    BY <1>0, <1>1, <1>2, Recursion
  <2> QED
    BY <1>4, <2>1 DEF IsRecursion
<1> DEFINE read == CHOOSE r : r = [i \in 0..n |-> IF i = 0 THEN start
                                                  ELSE ReadChar(r[i - 1], negate, p, i)]
<1>6. read = [i \in 0..n |-> IF i = 0 THEN start ELSE ReadChar(read[i - 1], negate, p, i)]
  BY <1>5
<1>7. Generated(ops, negate, p) =
        IF read[n].ok THEN GenStringOpcode(read[n], negate, TRUE) ELSE read[n]
  BY DEF Generated
<1> HIDE DEF read, start
<1>8. \A i \in 0..n : read[i] = IF i = 0 THEN start ELSE ReadChar(read[i - 1], negate, p, i)
  BY <1>6
<1> DEFINE G == {i \in 0..n : read[i] \in Generators /\ ReadRight(read[i], p, i)}
<1>9. n \in G
  <2>1. 0 \in G
    <3>1. read[0] = start /\ 0 \in 0..n
      BY <1>0, <1>8
    <3>2. PairsFine(p, 0)
      BY <1>0 DEF PairsFine, Wild
    <3>3. 0 \notin Asterisks(p) /\ 0 \notin QuestionMarks(p)
      BY DEF Asterisks, QuestionMarks, Wild
    <3>4. ReadRight(start, p, 0)
      BY <3>2, <3>3 DEF ReadRight, start, Generator
    <3> QED
      BY <1>1, <3>1, <3>4
  <2>2. ASSUME NEW i \in 0..n, i > 0, i - 1 \in G PROVE i \in G
    <3>1. i \in 1..n /\ read[i] = ReadChar(read[i - 1], negate, p, i)
      BY <1>0, <1>8, <2>2
    <3> QED
      BY <2>2, <3>1, ReadTyped, ReadStep
  <2>3. G \in SUBSET (0..n)
    OBVIOUS
  <2> HIDE DEF G
  <2>4. G = 0..n
    BY <1>0, <2>1, <2>2, <2>3, Segment
  <2> QED
    BY <1>0, <2>4
<1>10. read[n] \in Generators /\ (read[n].ok <=> PairsFine(p, n))
  BY <1>9 DEF ReadRight
<1>11. PairsFine(p, n) <=> WellFormed(p)
  <2>1. \A j \in Wild(p) : j + 1 \in Wild(p) => j + 1 <= n
    BY <1>0 DEF Wild
  <2> QED
    BY <2>1 DEF PairsFine, WellFormed
<1>12. GenStringOpcode(read[n], negate, TRUE) \in Generators
       /\ GenStringOpcode(read[n], negate, TRUE).ok = read[n].ok
  BY <1>10, GenFacts
<1>13. \A g \in Generators : g.opcodes \in Seq(ConditionOpcodes) /\ g.ok \in BOOLEAN
  BY DEF Generators
<1> QED
  BY <1>7, <1>10, <1>11, <1>12, <1>13

-----------------------------------------------------------------------------
(* Opcodes that end with an action, one behind the other.                    *)
LEMMA EndedConcat ==
  ASSUME NEW s \in Ended, NEW t \in Ended PROVE s \o t \in Ended
<1>1. s \in Seq(AnyOpcode) /\ t \in Seq(AnyOpcode) /\ s \o t \in Seq(AnyOpcode)
  BY DEF Ended
<1>2. CASE t = <<>>
  <2>1. s \o t = s
    BY <1>1, <1>2
  <2> QED
    BY <2>1
<1>3. CASE t # <<>>
  <2>1. (s \o t)[Len(s \o t)] = t[Len(t)]
    BY <1>1, <1>3
  <2> QED
    BY <1>1, <1>3, <2>1 DEF Ended
<1> QED
  BY <1>2, <1>3

LEMMA LaidOutEnded ==
  ASSUME rules \in Seq([action : Actions, conditions : Seq(Conditions), opcodes : Ended])
  PROVE  LaidOut \in Ended
<1> DEFINE n == Len(rules)
           step == [q \in (1..n) \X Ended |-> q[2] \o rules[q[1]].opcodes]
<1> DEFINE R == [action : Actions, conditions : Seq(Conditions), opcodes : Ended]
<1>0. n \in Nat /\ \A i \in 1..n : rules[i].opcodes \in Ended
  <2>1. \A r \in R : r.opcodes \in Ended
    OBVIOUS
  <2>2. rules \in Seq(R)
    OBVIOUS
  <2> HIDE DEF R
  <2>3. n \in Nat /\ \A i \in 1..n : rules[i] \in R
    BY <2>2
  <2> QED
    BY <2>1, <2>3
<1>1. <<>> \in Ended
  BY DEF Ended
<1>2. step \in [(1..n) \X Ended -> Ended]
  <2>1. ASSUME NEW q \in (1..n) \X Ended PROVE q[2] \o rules[q[1]].opcodes \in Ended
    BY <1>0, EndedConcat
  <2> QED
    BY <2>1
<1>3. \A i \in 1..n, s \in Ended : step[<<i, s>>] = s \o rules[i].opcodes
  OBVIOUS
<1> HIDE DEF step, n
<1>4. PICK f \in [0..n -> Ended] : f = [i \in 0..n |-> IF i = 0 THEN <<>> ELSE f[i - 1] \o rules[i].opcodes]
  <2>1. PICK f \in [0..n -> Ended] : IsRecursion(f, n, <<>>, step)
    BY <1>0, <1>1, <1>2, Recursion
  <2>2. \A i \in 0..n : (IF i = 0 THEN <<>> ELSE step[<<i, f[i - 1]>>])
                          = (IF i = 0 THEN <<>> ELSE f[i - 1] \o rules[i].opcodes)
    <3> SUFFICES ASSUME NEW i \in 0..n, i # 0 PROVE step[<<i, f[i - 1]>>] = f[i - 1] \o rules[i].opcodes
      OBVIOUS
    <3>1. i \in 1..n /\ i - 1 \in 0..n
      BY <1>0
    <3> QED
      BY <1>3, <2>1, <3>1
  <2>3. f = [i \in 0..n |-> IF i = 0 THEN <<>> ELSE f[i - 1] \o rules[i].opcodes]
    BY <2>1, <2>2 DEF IsRecursion
  <2> QED
    BY <2>1, <2>3
<1> DEFINE upto == CHOOSE g : g = [i \in 0..n |-> IF i = 0 THEN <<>> ELSE g[i - 1] \o rules[i].opcodes]
<1>5. upto = [i \in 0..n |-> IF i = 0 THEN <<>> ELSE upto[i - 1] \o rules[i].opcodes]
  BY <1>4
<1>6. LaidOut = upto[n]
  BY DEF LaidOut, n
<1> HIDE DEF upto
<1>7. \A i \in 0..n : upto[i] = IF i = 0 THEN <<>> ELSE upto[i - 1] \o rules[i].opcodes
  BY <1>5
<1> DEFINE G == {i \in 0..n : upto[i] \in Ended}
<1>8. 0 \in G
  <2>1. 0 \in 0..n /\ upto[0] = <<>>
    BY <1>0, <1>7
  <2> QED
    BY <1>1, <2>1
<1>9. ASSUME NEW i \in 0..n, i > 0, i - 1 \in G PROVE i \in G
  <2>1. i \in 1..n /\ i # 0
    BY <1>0, <1>9
  <2>2. upto[i] = upto[i - 1] \o rules[i].opcodes
    BY <1>7, <2>1
  <2>3. upto[i - 1] \in Ended /\ rules[i].opcodes \in Ended
    BY <1>0, <1>9, <2>1
  <2> QED
    BY <2>2, <2>3, EndedConcat
<1>10. n \in G
  <2>1. G \in SUBSET (0..n)
    OBVIOUS
  <2> HIDE DEF G
  <2>2. G = 0..n
    BY <1>0, <1>8, <1>9, <2>1, Segment
  <2> QED
    BY <1>0, <2>2
<1> QED
  BY <1>6, <1>10

(* A match stays inside the string.                                          *)
LEMMA AdvanceFacts ==
  ASSUME Len(call.str) \in Nat, context.position \in 0..Len(call.str),
         NEW op \in ConditionOpcodes
  PROVE  Advance(op) \in 0..Len(call.str)
<1> DEFINE S == Found(op, Rest)
           n == Len(call.str)
           len == Len(op.fragment)
<1>1. CASE op.kind = "string" /\ S # {}
  <2>1. len \in Nat
    BY DEF ConditionOpcodes, Opcodes
  <2>2. Len(Rest) = n - context.position
    BY DEF Rest
  <2>3. \A k \in S : k \in Nat /\ k + len <= Len(Rest)
    <3>1. op.start \in {kSeekForward, kSeekToEnd} \union Nat
      BY DEF ConditionOpcodes, Opcodes
    <3>2. Len(Rest) \in Nat
      BY <2>2
    <3>3. \A k \in Offsets(op, Rest) : k \in Nat /\ k + len <= Len(Rest)
      <4> DEFINE m == Len(Rest)
      <4>1. Offsets(op, Rest) \subseteq
              {k \in Nat : k + len <= m}
        BY <2>1, <3>1, <3>2 DEF Offsets
      <4> QED
        BY <4>1
    <3> QED
      BY <3>3 DEF Found
  <2>4. Min(S) \in S
    <3>1. S \in SUBSET Nat
      BY <2>3
    <3>2. \E x \in S : \A y \in S : x <= y
      BY <1>1, <3>1, LeastNumber
    <3> QED
      BY <3>2 DEF Min
  <2>5. Advance(op) = context.position + Min(S) + len
    BY <1>1 DEF Advance
  <2> HIDE DEF S, len
  <2> QED
    BY <2>1, <2>2, <2>3, <2>4, <2>5
<1>2. CASE ~(op.kind = "string" /\ S # {})
  BY <1>2 DEF Advance
<1> QED
  BY <1>1, <1>2

-----------------------------------------------------------------------------
LEMMA OpcodeKinds ==
  /\ \A op \in AnyOpcode : IsOpcode(op)
  /\ \A op \in AnyOpcode : op.kind # "action" => op \in ConditionOpcodes
  /\ \A op \in AnyOpcode : op.kind = "action" => op.action \in Actions
  BY DEF AnyOpcode, ConditionOpcodes, ActionOpcodes, Opcodes, IsOpcode

LEMMA RuleKinds ==
  /\ \A r \in [action : Actions, conditions : Seq(Conditions), opcodes : Seq(ConditionOpcodes)] : IsRule(r)
  /\ \A r \in [action : Actions, conditions : Seq(Conditions), opcodes : Ended] : IsRule(r)
<1>1. \A ops \in Seq(AnyOpcode) : \A i \in 1..Len(ops) : IsOpcode(ops[i])
  BY OpcodeKinds
<1>2. \A ops \in Seq(ConditionOpcodes) : \A i \in 1..Len(ops) : ops[i] \in AnyOpcode
  BY DEF AnyOpcode
<1>3. \A ops \in Seq(ConditionOpcodes) : \A i \in 1..Len(ops) : IsOpcode(ops[i])
  BY <1>2, OpcodeKinds
<1>4. \A cs \in Seq(Conditions) : \A i \in 1..Len(cs) : cs[i] \in Conditions
  OBVIOUS
<1>5. Ended \subseteq Seq(AnyOpcode)
  BY DEF Ended
<1> QED
  BY <1>1, <1>3, <1>4, <1>5 DEF IsRule

LEMMA PolicyKinds ==
  ASSUME policy \in Ended
  PROVE  /\ Len(policy) \in Nat /\ policy \in Seq(AnyOpcode)
         /\ \A i \in 1..Len(policy) : policy[i] \in AnyOpcode
         /\ policy # <<>> => Len(policy) > 0 /\ policy[Len(policy)].kind = "action"
  BY DEF Ended, ActionOpcodes

LEMMA EngineMeans == ASSUME EngineIInv PROVE EngineInv
<1>1. \A i \in 1..Len(rules) : IsRule(rules[i])
  <2> DEFINE R == [action : Actions, conditions : Seq(Conditions), opcodes : Ended]
  <2>1. rules \in Seq(R)
    BY DEF EngineIInv, RulesRight
  <2> HIDE DEF R
  <2>2. \A i \in 1..Len(rules) : rules[i] \in R
    BY <2>1
  <2> QED
    BY <2>2, RuleKinds DEF R
<1>2. rule = NoRule \/ IsRule(rule)
  BY RuleKinds DEF EngineIInv, RulesRight
<1>3. \A i \in 1..Len(policy) : IsOpcode(policy[i])
  BY PolicyKinds, OpcodeKinds DEF EngineIInv, EvalTyped
<1>4. TypeOK
  BY <1>1, <1>2, <1>3 DEF EngineIInv, RulesRight, EvalTyped, TypeOK
<1>5. ContextIsOwn
  BY DEF EngineIInv, StartsClean, AtRuleStart, ContextIsOwn
<1> QED
  BY <1>4, <1>5 DEF EngineIInv, RulesRight, EvalTyped, EngineInv

LEMMA EngineStart == ASSUME Init PROVE EngineIInv
<1>1. policy \in Ended /\ Len(policy) = 0 /\ Len(call.str) = 0
  BY DEF Init, Ended, NoCall
<1>2. "none" # "error" /\ ClearContext \in [position : Nat, options : {{}, {"or"}}] /\ ClearContext.position = 0
  BY DEF ClearContext
<1>3. EvalTyped
  <2>1. ix \in 1..(Len(policy) + 1) /\ context.position \in 0..Len(call.str)
    BY <1>1, <1>2 DEF Init
  <2>2. phase \in {"rules", "ready", "evaluating", "answered"} /\ call \in Calls \union {NoCall}
    BY DEF Init
  <2>3. skip_group \in BOOLEAN /\ evaluation \in BOOLEAN
    BY DEF Init
  <2>4. context \in [position : Nat, options : {{}, {"or"}}]
    BY <1>2 DEF Init
  <2>5. result \in Actions \union {"none", "no_match", "error"} /\ NoPolicyError
    BY DEF Init, NoPolicyError
  <2> QED
    BY <1>1, <2>1, <2>2, <2>3, <2>4, <2>5 DEF EvalTyped
<1>4. RulesRight
  <2>1. rules \in Seq([action : Actions, conditions : Seq(Conditions), opcodes : Ended])
    BY DEF Init
  <2>2. RefusedIsMalformed
    BY DEF Init, RefusedIsMalformed, NoRule
  <2> QED
    BY <2>1, <2>2 DEF Init, RulesRight
<1> QED
  BY <1>3, <1>4 DEF Init, EngineIInv, StartsClean, SkipReason, PhasesInOrder

(* Writing rules leaves the evaluation alone.                                *)
LEMMA EvalKept ==
  ASSUME EngineIInv, UNCHANGED <<policy, phase, evalVars>>, RulesRight' PROVE EngineIInv'
<1>1. EvalTyped'
  BY DEF EngineIInv, EvalTyped, NoPolicyError, evalVars
<1>2. StartsClean'
  BY DEF EngineIInv, StartsClean, AtRuleStart, evalVars
<1>3. SkipReason' /\ PhasesInOrder'
  BY DEF EngineIInv, SkipReason, PhasesInOrder, evalVars
<1> QED
  BY <1>1, <1>2, <1>3 DEF EngineIInv

LEMMA NewRuleStep == ASSUME EngineIInv, NEW a \in Actions, NewRule(a) PROVE EngineIInv'
<1>1. rule' = [action |-> a, conditions |-> <<>>, opcodes |-> <<>>]
  BY DEF NewRule, NoRule
<1>2. rule' \in [action : Actions, conditions : Seq(Conditions), opcodes : Seq(ConditionOpcodes)]
  BY <1>1
<1>3. RefusedIsMalformed'
  BY <1>1 DEF NewRule, RefusedIsMalformed
<1>4. RulesRight'
  BY <1>2, <1>3 DEF EngineIInv, RulesRight, NewRule
<1> QED
  BY <1>4, EvalKept DEF NewRule

LEMMA AddStringStep ==
  ASSUME EngineIInv, NEW c \in StringMatches, AddStringMatch(c) PROVE EngineIInv'
<1> DEFINE g == Generated(rule.opcodes, c.negate, c.pattern)
<1>0. /\ rule.action \in Actions /\ rule.conditions \in Seq(Conditions)
      /\ rule.opcodes \in Seq(ConditionOpcodes)
      /\ c.negate \in BOOLEAN /\ c.pattern \in Patterns /\ c \in Conditions
  BY DEF EngineIInv, RulesRight, AddStringMatch, StringMatches, Conditions
<1>1. g.opcodes \in Seq(ConditionOpcodes) /\ (g.ok <=> WellFormed(c.pattern))
  BY <1>0, GeneratedRight
<1>2. UNCHANGED <<rules, policy, phase, evalVars>>
  BY DEF AddStringMatch
<1> HIDE DEF g
<1>3. CASE g.ok
  <2>1. /\ rule' = [rule EXCEPT !.opcodes = g.opcodes, !.conditions = Append(@, c)]
        /\ refused' = refused
    BY <1>3 DEF AddStringMatch, g
  <2>2. rule \in [action : Actions, conditions : Seq(Conditions), opcodes : Seq(ConditionOpcodes)]
    BY DEF EngineIInv, RulesRight, AddStringMatch
  <2>3. rule' = [action |-> rule.action, conditions |-> Append(rule.conditions, c), opcodes |-> g.opcodes]
    BY <2>1, <2>2
  <2>4. Append(rule.conditions, c) \in Seq(Conditions)
    BY <1>0
  <2>5. rule' \in [action : Actions, conditions : Seq(Conditions), opcodes : Seq(ConditionOpcodes)]
    BY <1>0, <1>1, <2>3, <2>4
  <2>6. RefusedIsMalformed'
    <3> SUFFICES ASSUME NEW i \in 1..Len(rule.conditions'), rule.conditions'[i].kind = "string"
                 PROVE  WellFormed(rule.conditions'[i].pattern)
      BY <2>1 DEF EngineIInv, RulesRight, RefusedIsMalformed
    <3>1. rule.conditions' = Append(rule.conditions, c)
      BY <2>3
    <3>2. CASE i \in 1..Len(rule.conditions)
      <4>1. rule.conditions'[i] = rule.conditions[i]
        BY <1>0, <3>1, <3>2
      <4> QED
        BY <3>2, <4>1 DEF EngineIInv, RulesRight, RefusedIsMalformed
    <3>3. CASE i \notin 1..Len(rule.conditions)
      <4>1. rule.conditions'[i] = c
        BY <1>0, <3>1, <3>3
      <4> QED
        BY <1>1, <1>3, <4>1
    <3> QED
      BY <3>2, <3>3
  <2>7. RulesRight'
    BY <1>2, <2>1, <2>5, <2>6 DEF EngineIInv, RulesRight
  <2> QED
    BY <1>2, <2>7, EvalKept
<1>4. CASE ~g.ok
  <2>1. rule' = NoRule /\ refused' = c.pattern
    BY <1>4 DEF AddStringMatch, g
  <2>2. RefusedIsMalformed'
    BY <1>1, <1>4, <2>1 DEF RefusedIsMalformed, NoRule
  <2>3. RulesRight'
    BY <1>0, <1>2, <2>1, <2>2 DEF EngineIInv, RulesRight
  <2> QED
    BY <1>2, <2>3, EvalKept
<1> QED
  BY <1>3, <1>4

LEMMA AddNumberStep ==
  ASSUME EngineIInv, NEW c \in NumberMatches, AddNumberMatch(c) PROVE EngineIInv'
<1> DEFINE op == NumberOpcode(c.kind, c.num, IF c.negate THEN {"negate"} ELSE {})
<1>0. /\ rule.action \in Actions /\ rule.conditions \in Seq(Conditions)
      /\ rule.opcodes \in Seq(ConditionOpcodes) /\ c \in Conditions /\ c.kind # "string"
      /\ rule \in [action : Actions, conditions : Seq(Conditions), opcodes : Seq(ConditionOpcodes)]
  BY DEF EngineIInv, RulesRight, AddNumberMatch, NumberMatches, Conditions
<1>1. op \in ConditionOpcodes
  BY DEF NumberMatches, NumberOpcode, ConditionOpcodes, Opcodes, Options
<1>2. UNCHANGED <<rules, refused, policy, phase, evalVars>>
  BY DEF AddNumberMatch
<1>3. rule' = [action |-> rule.action, conditions |-> Append(rule.conditions, c),
               opcodes |-> Append(rule.opcodes, op)]
  BY <1>0 DEF AddNumberMatch
<1> HIDE DEF op
<1>4. Append(rule.conditions, c) \in Seq(Conditions) /\ Append(rule.opcodes, op) \in Seq(ConditionOpcodes)
  BY <1>0, <1>1
<1>5. rule' \in [action : Actions, conditions : Seq(Conditions), opcodes : Seq(ConditionOpcodes)]
  BY <1>0, <1>3, <1>4
<1>6. RefusedIsMalformed'
  <2> SUFFICES ASSUME NEW i \in 1..Len(rule.conditions'), rule.conditions'[i].kind = "string"
               PROVE  WellFormed(rule.conditions'[i].pattern)
    BY <1>2 DEF EngineIInv, RulesRight, RefusedIsMalformed
  <2>1. rule.conditions' = Append(rule.conditions, c)
    BY <1>3
  <2>2. i \in 1..Len(rule.conditions) /\ rule.conditions'[i] = rule.conditions[i]
    BY <1>0, <2>1
  <2> QED
    BY <2>2 DEF EngineIInv, RulesRight, RefusedIsMalformed
<1>7. RulesRight'
  BY <1>2, <1>5, <1>6 DEF EngineIInv, RulesRight
<1> QED
  BY <1>2, <1>7, EvalKept

LEMMA AddRuleStep == ASSUME EngineIInv, AddRule PROVE EngineIInv'
<1> DEFINE op == ActionOpcode(rule.action)
           ops == Append(rule.opcodes, op)
           R == [action : Actions, conditions : Seq(Conditions), opcodes : Ended]
<1>0. /\ rule \in [action : Actions, conditions : Seq(Conditions), opcodes : Seq(ConditionOpcodes)]
      /\ rule.action \in Actions /\ rule.opcodes \in Seq(ConditionOpcodes)
      /\ rule.conditions \in Seq(Conditions)
  BY DEF EngineIInv, RulesRight, AddRule
<1>1. op \in ActionOpcodes
  BY <1>0 DEF ActionOpcode, ActionOpcodes, Opcodes, Numbers
<1> HIDE DEF op
<1>2. ops \in Ended
  <2>1. rule.opcodes \in Seq(AnyOpcode) /\ op \in AnyOpcode
    BY <1>0, <1>1 DEF AnyOpcode
  <2>2. ops \in Seq(AnyOpcode) /\ ops[Len(ops)] = op
    BY <2>1
  <2> QED
    BY <1>1, <2>2 DEF Ended
<1> HIDE DEF ops
<1>3. [rule EXCEPT !.opcodes = ops] \in R
  BY <1>0, <1>2
<1>4. rules' = Append(rules, [rule EXCEPT !.opcodes = ops]) /\ rule' = NoRule
      /\ UNCHANGED <<refused, policy, phase, evalVars>>
  BY DEF AddRule, ops, op
<1>5. rules' \in Seq(R)
  <2>1. rules \in Seq(R)
    BY DEF EngineIInv, RulesRight
  <2> HIDE DEF R
  <2> QED
    BY <1>3, <1>4, <2>1
<1>6. RefusedIsMalformed'
  BY <1>4 DEF EngineIInv, RulesRight, RefusedIsMalformed, NoRule
<1>7. RulesRight'
  BY <1>4, <1>5, <1>6 DEF EngineIInv, RulesRight
<1> QED
  BY <1>4, <1>7, EvalKept

(* The rules stay as they are from Done on.                                  *)
LEMMA RulesKept ==
  ASSUME EngineIInv, UNCHANGED <<rule, rules>>, refused' \in {refused, <<>>} PROVE RulesRight'
<1>1. RefusedIsMalformed'
  BY DEF EngineIInv, RulesRight, RefusedIsMalformed
<1> QED
  BY <1>1 DEF EngineIInv, RulesRight

LEMMA DoneStep == ASSUME EngineIInv, Done PROVE EngineIInv'
<1>1. /\ policy' \in Ended /\ phase = "rules" /\ phase' = "ready"
      /\ UNCHANGED <<rule, rules, evalVars>> /\ refused' = <<>>
  BY LaidOutEnded DEF EngineIInv, RulesRight, Done
<1>2. Len(policy') \in Nat
  BY <1>1 DEF Ended
<1>3. ix' = 1 /\ ix' \in 1..(Len(policy') + 1)
  BY <1>1, <1>2 DEF EngineIInv, PhasesInOrder, evalVars
<1>4. EvalTyped'
  BY <1>1, <1>3 DEF EngineIInv, EvalTyped, NoPolicyError, evalVars
<1>5. StartsClean' /\ SkipReason' /\ PhasesInOrder'
  BY <1>1, <1>3 DEF EngineIInv, StartsClean, SkipReason, PhasesInOrder, evalVars
<1> QED
  BY <1>1, <1>4, <1>5, RulesKept DEF EngineIInv

LEMMA BeginEvaluation ==
  ASSUME EngineIInv, NEW c \in Calls, Evaluate(c) \/ EvaluateNothing(c) PROVE EngineIInv'
<1>1. /\ phase = "ready" /\ call' = c
      /\ UNCHANGED <<ruleVars, policy, ix, context, skip_group, evaluation>>
      /\ \/ phase' = "evaluating" /\ policy # <<>> /\ result' = result
         \/ phase' = "answered" /\ result' = "no_match"
  BY DEF Evaluate, EvaluateNothing
<1>2. ~skip_group /\ ~evaluation /\ context = ClearContext /\ ix = 1
  BY <1>1 DEF EngineIInv, StartsClean, PhasesInOrder
<1>3. context'.position \in 0..Len(c.str)
  BY <1>1, <1>2, Words DEF ClearContext, Calls
<1>4. EvalTyped'
  <2>1. NoPolicyError'
    BY <1>1 DEF EngineIInv, EvalTyped, NoPolicyError
  <2> QED
    BY <1>1, <1>3, <2>1 DEF EngineIInv, EvalTyped
<1>5. StartsClean' /\ SkipReason' /\ PhasesInOrder'
  BY <1>1, <1>2 DEF StartsClean, SkipReason, PhasesInOrder
<1> QED
  BY <1>1, <1>4, <1>5, RulesKept DEF EngineIInv, ruleVars

LEMMA SkipStep == ASSUME EngineIInv, SkipOpcode PROVE EngineIInv'
<1>1. /\ phase = "evaluating" /\ ix \in 1..Len(policy) /\ skip_group /\ Len(policy) \in Nat
      /\ UNCHANGED <<rule, rules, refused, policy, phase, call, evaluation, result>>
      /\ ix' = ix + 1
  BY PolicyKinds DEF EngineIInv, EvalTyped, SkipOpcode, ruleVars
<1>2. ix' \in 1..(Len(policy) + 1) /\ ix' - 1 = ix /\ ix' # 1
  BY <1>1
<1>3. evaluation <=> context.options = {"or"}
  BY <1>1 DEF EngineIInv, SkipReason
<1>4. CASE policy[ix].kind = "action"
  <2>1. context' = ClearContext /\ skip_group' = FALSE /\ ~evaluation'
    BY <1>1, <1>3, <1>4 DEF SkipOpcode
  <2>2. /\ context' \in [position : Nat, options : {{}, {"or"}}]
        /\ context'.position \in 0..Len(call.str)
    <3>1. 0 \in 0..Len(call.str)
      BY DEF EngineIInv, EvalTyped
    <3> QED
      BY <2>1, <3>1 DEF ClearContext
  <2>3. EvalTyped'
    BY <1>1, <1>2, <2>1, <2>2 DEF EngineIInv, EvalTyped, NoPolicyError
  <2>4. StartsClean' /\ SkipReason' /\ PhasesInOrder'
    BY <1>1, <2>1 DEF EngineIInv, StartsClean, SkipReason, PhasesInOrder
  <2> QED
    BY <1>1, <2>3, <2>4, RulesKept DEF EngineIInv
<1>5. CASE policy[ix].kind # "action"
  <2>1. context' = context /\ skip_group'
    BY <1>5 DEF SkipOpcode
  <2>2. EvalTyped'
    BY <1>1, <1>2, <2>1 DEF EngineIInv, EvalTyped, NoPolicyError
  <2>3. StartsClean' /\ PhasesInOrder'
    BY <1>1, <1>2, <1>5 DEF EngineIInv, StartsClean, AtRuleStart, PhasesInOrder
  <2>4. SkipReason'
    BY <1>1, <1>3, <2>1 DEF SkipReason
  <2> QED
    BY <1>1, <2>2, <2>3, <2>4, RulesKept DEF EngineIInv
<1> QED
  BY <1>4, <1>5

LEMMA ConditionStep == ASSUME EngineIInv, EvaluateCondition PROVE EngineIInv'
<1> DEFINE op == policy[ix]
           value == OpcodeEval(op) # ("negate" \in op.options)
<1>1. /\ phase = "evaluating" /\ ix \in 1..Len(policy) /\ Len(policy) \in Nat
      /\ UNCHANGED <<rule, rules, refused, policy, phase, call, result>>
      /\ ix' = ix + 1 /\ op.kind # "action"
      /\ context' = ContextAfter(op) /\ evaluation' = value
      /\ skip_group' = (value <=> context'.options = {"or"})
  BY PolicyKinds DEF EngineIInv, EvalTyped, EvaluateCondition, ruleVars
<1>2. ix' \in 1..(Len(policy) + 1) /\ ix' - 1 = ix /\ ix' # 1
  BY <1>1
<1>3. op \in ConditionOpcodes
  BY <1>1, PolicyKinds, OpcodeKinds DEF EngineIInv, EvalTyped
<1>4. Len(call.str) \in Nat
  BY Words DEF EngineIInv, EvalTyped, Calls, NoCall
<1>5. /\ context \in [position : Nat, options : {{}, {"or"}}]
      /\ context.position \in 0..Len(call.str)
  BY DEF EngineIInv, EvalTyped
<1>6. Advance(op) \in 0..Len(call.str) /\ Advance(op) \in Nat
  BY <1>3, <1>4, <1>5, AdvanceFacts
<1> HIDE DEF op
<1>7. /\ ContextAfter(op) \in [position : Nat, options : {{}, {"or"}}]
      /\ ContextAfter(op).position \in 0..Len(call.str)
  <2> DEFINE cleared == IF "clear" \in op.options THEN ClearContext
                        ELSE [context EXCEPT !.position = Advance(op)]
  <2>1. /\ cleared \in [position : Nat, options : {{}, {"or"}}]
        /\ cleared.position \in 0..Len(call.str)
    BY <1>4, <1>5, <1>6 DEF ClearContext
  <2>2. ContextAfter(op) = IF "or" \in op.options THEN [cleared EXCEPT !.options = {"or"}] ELSE cleared
    BY DEF ContextAfter
  <2> HIDE DEF cleared
  <2> QED
    BY <2>1, <2>2
<1>8. evaluation' \in BOOLEAN /\ skip_group' \in BOOLEAN
  BY <1>1
<1> HIDE DEF value
<1>9. EvalTyped'
  BY <1>1, <1>2, <1>7, <1>8 DEF EngineIInv, EvalTyped, NoPolicyError
<1>10. StartsClean' /\ PhasesInOrder'
  BY <1>1, <1>2 DEF EngineIInv, StartsClean, AtRuleStart, PhasesInOrder, op
<1>11. SkipReason'
  BY <1>1 DEF SkipReason
<1> QED
  BY <1>1, <1>9, <1>10, <1>11, RulesKept DEF EngineIInv

LEMMA ActionStep == ASSUME EngineIInv, EvaluateAction PROVE EngineIInv'
<1>1. /\ phase' = "answered" /\ result' = policy[ix].action /\ policy[ix].kind = "action"
      /\ UNCHANGED <<rule, rules, refused, policy, call, ix, evaluation>>
      /\ context' = IF skip_group THEN ClearContext ELSE context
      /\ skip_group' = FALSE /\ ix \in 1..Len(policy)
  BY PolicyKinds DEF EngineIInv, EvalTyped, EvaluateAction, ruleVars
<1>2. result' \in Actions /\ NoPolicyError'
  BY <1>1, PolicyKinds, OpcodeKinds, ActionsAssumption DEF EngineIInv, EvalTyped, NoPolicyError
<1>3. /\ context' \in [position : Nat, options : {{}, {"or"}}]
      /\ context'.position \in 0..Len(call.str)
  <2>1. 0 \in 0..Len(call.str)
    BY DEF EngineIInv, EvalTyped
  <2> QED
    BY <1>1, <2>1 DEF EngineIInv, EvalTyped, ClearContext
<1>4. EvalTyped'
  BY <1>1, <1>2, <1>3 DEF EngineIInv, EvalTyped
<1>5. StartsClean' /\ SkipReason' /\ PhasesInOrder'
  BY <1>1 DEF StartsClean, SkipReason, PhasesInOrder
<1> QED
  BY <1>1, <1>4, <1>5, RulesKept DEF EngineIInv

(* Behind the last opcode, an action, no condition holds.                    *)
LEMMA EndStep == ASSUME EngineIInv, EndOfPolicy PROVE EngineIInv'
<1>1. /\ phase = "evaluating" /\ phase' = "answered" /\ ix > Len(policy)
      /\ result' = IF evaluation THEN "error" ELSE "no_match"
      /\ UNCHANGED <<rule, rules, refused, policy, call, ix, context, skip_group, evaluation>>
  BY DEF EndOfPolicy, ruleVars
<1>2. ix - 1 = Len(policy) /\ policy # <<>>
  BY <1>1, PolicyKinds DEF EngineIInv, EvalTyped, PhasesInOrder
<1>3. AtRuleStart
  BY <1>2, PolicyKinds DEF EngineIInv, EvalTyped, AtRuleStart
<1>4. ~evaluation
  BY <1>1, <1>3 DEF EngineIInv, StartsClean
<1>5. EvalTyped'
  <2>1. result' = "no_match" /\ NoPolicyError'
    BY <1>1, <1>4 DEF NoPolicyError
  <2> QED
    BY <1>1, <2>1 DEF EngineIInv, EvalTyped
<1>6. StartsClean' /\ SkipReason' /\ PhasesInOrder'
  BY <1>1 DEF EngineIInv, StartsClean, SkipReason, PhasesInOrder
<1> QED
  BY <1>1, <1>5, <1>6, RulesKept DEF EngineIInv

LEMMA EngineStep == EngineIInv /\ [Next]_vars => EngineIInv'
<1> SUFFICES ASSUME EngineIInv, [Next]_vars PROVE EngineIInv'
  OBVIOUS
<1>1. CASE UNCHANGED vars
  <2>1. RulesRight'
    BY <1>1, RulesKept DEF vars, ruleVars
  <2> QED
    BY <1>1, <2>1, EvalKept DEF vars
<1>2. ASSUME NEW a \in Actions, NewRule(a) PROVE EngineIInv'
  BY <1>2, NewRuleStep
<1>3. ASSUME NEW c \in StringMatches, AddStringMatch(c) PROVE EngineIInv'
  BY <1>3, AddStringStep
<1>4. ASSUME NEW c \in NumberMatches, AddNumberMatch(c) PROVE EngineIInv'
  BY <1>4, AddNumberStep
<1>5. ASSUME NEW c \in Calls, Evaluate(c) \/ EvaluateNothing(c) PROVE EngineIInv'
  BY <1>5, BeginEvaluation
<1>6. CASE AddRule
  BY <1>6, AddRuleStep
<1>7. CASE Done
  BY <1>7, DoneStep
<1>8. CASE SkipOpcode
  BY <1>8, SkipStep
<1>9. CASE EvaluateCondition
  BY <1>9, ConditionStep
<1>10. CASE EvaluateAction
  BY <1>10, ActionStep
<1>11. CASE EndOfPolicy
  BY <1>11, EndStep
<1> QED
  BY <1>1, <1>2, <1>3, <1>4, <1>5, <1>6, <1>7, <1>8, <1>9, <1>10, <1>11 DEF Next

(* For any patterns, strings and rules: a pattern is refused exactly when it *)
(* is malformed, every rule starts with a context of its own, and evaluation *)
(* ends with an action or with no match, never behind a condition that held  *)
(* (policy_low_level.cc:240, policy_engine_processor.cc:70, 101).            *)
THEOREM EngineRight == Spec => []EngineInv
<1>1. Init => EngineIInv
  BY EngineStart
<1>2. EngineIInv => EngineInv
  BY EngineMeans
<1> QED
  BY <1>1, <1>2, EngineStep, PTL DEF Spec

-----------------------------------------------------------------------------
(* What a pattern means: the table behind Matches, as the set of the pairs   *)
(* <<i, j>> for which the pattern from i on matches the string from j on.    *)
Matched(T, p, s) ==
  /\ \A j \in 1..(Len(s) + 1) : <<Len(p) + 1, j>> \in T <=> j > Len(s)
  /\ \A i \in 1..Len(p), j \in 1..(Len(s) + 1) :
       /\ p[i] = "*" => (<<i, j>> \in T <=> \E k \in j..(Len(s) + 1) : <<i + 1, k>> \in T)
       /\ p[i] = "?" => (<<i, j>> \in T <=> j <= Len(s) /\ <<i + 1, j + 1>> \in T)
       /\ Escape(p, i) => (<<i, j>> \in T <=> j <= Len(s) /\ s[j] = "?" /\ <<i + 2, j + 1>> \in T)
       /\ p[i] \notin {"*", "?"} /\ ~Escape(p, i) =>
            (<<i, j>> \in T <=> j <= Len(s) /\ s[j] = p[i] /\ <<i + 1, j + 1>> \in T)

(* One cell of the table, from the cells it is made of: below, two below,    *)
(* and to the right.                                                         *)
Cell(p, s, i, j, down, below, lower, right) ==
  \/ i > Len(p) /\ j > Len(s)
  \/ i <= Len(p) /\ p[i] = "*" /\ (down \/ (j <= Len(s) /\ right))
  \/ /\ i <= Len(p) /\ p[i] # "*" /\ j <= Len(s)
     /\ \/ p[i] = "?" /\ below
        \/ Escape(p, i) /\ s[j] = "?" /\ lower
        \/ p[i] # "?" /\ ~Escape(p, i) /\ s[j] = p[i] /\ below

Row(p, s, i, a, b) ==
  {j \in 1..(Len(s) + 1) :
     IF i <= Len(p) /\ p[i] = "*" THEN \E k \in j..(Len(s) + 1) : k \in a
     ELSE Cell(p, s, i, j, FALSE, j + 1 \in a, j + 1 \in b, FALSE)}

IsTable(m, p, s) ==
  m = [at \in (1..(Len(p) + 2)) \X (1..(Len(s) + 1)) |->
         LET i == at[1]
             j == at[2]
         IN  \/ i > Len(p) /\ j > Len(s)
             \/ i <= Len(p) /\ p[i] = "*" /\ (m[<<i + 1, j>>] \/ (j <= Len(s) /\ m[<<i, j + 1>>]))
             \/ /\ i <= Len(p) /\ p[i] # "*" /\ j <= Len(s)
                /\ \/ p[i] = "?" /\ m[<<i + 1, j + 1>>]
                   \/ Escape(p, i) /\ s[j] = "?" /\ m[<<i + 2, j + 1>>]
                   \/ p[i] # "?" /\ ~Escape(p, i) /\ s[j] = p[i] /\ m[<<i + 1, j + 1>>]]

LEMMA MatchesTable ==
  ASSUME NEW p, NEW s, \E m : IsTable(m, p, s)
  PROVE  \E m : IsTable(m, p, s) /\ Matches(p, s) = m[<<1, 1>>]
<1> DEFINE m == CHOOSE m : IsTable(m, p, s)
<1>1. IsTable(m, p, s)
  OBVIOUS
<1>2. Matches(p, s) = m[<<1, 1>>]
  BY DEF Matches, IsTable
<1> QED
  BY <1>1, <1>2

CellOf(m, p, s, at) ==
  Cell(p, s, at[1], at[2], m[<<at[1] + 1, at[2]>>], m[<<at[1] + 1, at[2] + 1>>],
       m[<<at[1] + 2, at[2] + 1>>], m[<<at[1], at[2] + 1>>])

LEMMA TableCells ==
  ASSUME NEW p, NEW s, NEW m
  PROVE  IsTable(m, p, s) <=>
           m = [at \in (1..(Len(p) + 2)) \X (1..(Len(s) + 1)) |-> CellOf(m, p, s, at)]
  BY DEF IsTable, CellOf, Cell

(* The table exists: its rows are built from the last one up.                *)
LEMMA TableExists ==
  ASSUME NEW p, Len(p) \in Nat, NEW s, Len(s) \in Nat
  PROVE  \E m : IsTable(m, p, s)
<1> DEFINE n == Len(p) + 1
           J == 1..(Len(s) + 1)
           X == (SUBSET J) \X (SUBSET J)
           last == {j \in J : j > Len(s)}
           base == <<last, last>>
           step == [q \in (1..n) \X X |-> <<Row(p, s, Len(p) + 2 - q[1], q[2][1], q[2][2]), q[2][1]>>]
<1>1. base \in X
  OBVIOUS
<1>2. ASSUME NEW i, NEW a, NEW b PROVE Row(p, s, i, a, b) \in SUBSET J
  BY DEF Row
<1>3. step \in [(1..n) \X X -> X]
  <2>1. ASSUME NEW q \in (1..n) \X X
        PROVE  <<Row(p, s, Len(p) + 2 - q[1], q[2][1], q[2][2]), q[2][1]>> \in X
    BY <1>2
  <2> QED
    BY <2>1
<1>4. \A k \in 1..n, x \in X : step[<<k, x>>] = <<Row(p, s, Len(p) + 2 - k, x[1], x[2]), x[1]>>
  OBVIOUS
<1>5. n \in Nat
  OBVIOUS
<1> HIDE DEF step, base, last, n, X
<1>6. PICK f \in [0..n -> X] : IsRecursion(f, n, base, step)
  BY <1>1, <1>3, <1>5, Recursion
<1>7. \A k \in 0..n : f[k] \in X /\ f[k] = IF k = 0 THEN base ELSE step[<<k, f[k - 1]>>]
  BY <1>6 DEF IsRecursion
<1>8. \A k \in 1..n : f[k] = <<Row(p, s, Len(p) + 2 - k, f[k - 1][1], f[k - 1][2]), f[k - 1][1]>>
  <2> SUFFICES ASSUME NEW k \in 1..n
               PROVE  f[k] = <<Row(p, s, Len(p) + 2 - k, f[k - 1][1], f[k - 1][2]), f[k - 1][1]>>
    OBVIOUS
  <2>1. k \in 0..n /\ k - 1 \in 0..n /\ k # 0
    BY <1>5
  <2> QED
    BY <1>4, <1>7, <2>1
<1> DEFINE m == [at \in (1..(Len(p) + 2)) \X J |-> at[2] \in f[Len(p) + 2 - at[1]][1]]
           in(i, j) == j \in f[Len(p) + 2 - i][1]
<1>9. \A i \in 1..(Len(p) + 2), j \in J : m[<<i, j>>] <=> in(i, j)
  OBVIOUS
<1> HIDE DEF m
<1>10. \A i \in 1..(Len(p) + 2), j \in J :
         in(i, j) <=> Cell(p, s, i, j, in(i + 1, j), in(i + 1, j + 1), in(i + 2, j + 1), in(i, j + 1))
  <2> SUFFICES ASSUME NEW i \in 1..(Len(p) + 2), NEW j \in J
               PROVE  in(i, j) <=> Cell(p, s, i, j, in(i + 1, j), in(i + 1, j + 1),
                                        in(i + 2, j + 1), in(i, j + 1))
    OBVIOUS
  <2> DEFINE r == Len(p) + 2 - i
  <2>1. CASE i = Len(p) + 2
    <3>1. f[r] = base /\ i > Len(p)
      <4>1. r = 0 /\ 0 \in 0..n /\ i > Len(p)
        BY <1>5, <2>1
      <4> QED
        BY <1>7, <4>1
    <3>2. in(i, j) <=> j > Len(s)
      BY <3>1 DEF base, last
    <3>3. ~(i <= Len(p))
      BY <3>1
    <3> QED
      BY <3>1, <3>2, <3>3 DEF Cell
  <2>2. CASE i = Len(p) + 1
    <3>1. f[1] = <<Row(p, s, i, f[0][1], f[0][2]), f[0][1]>>
      <4>1. 1 \in 1..n /\ Len(p) + 2 - 1 = i /\ 1 - 1 = 0
        BY <2>2 DEF n
      <4> QED
        BY <1>8, <4>1
    <3>2. r = 1 /\ i > Len(p) /\ ~(i <= Len(p))
      BY <2>2
    <3>3. in(i, j) <=> j \in Row(p, s, i, f[0][1], f[0][2])
      BY <3>1, <3>2
    <3> QED
      BY <3>2, <3>3 DEF Row, Cell
  <2>3. CASE i <= Len(p)
    <3> DEFINE a == f[r - 1][1]
               b == f[r - 1][2]
    <3>1. r \in 1..n /\ r - 1 \in 1..n /\ Len(p) + 2 - r = i /\ Len(p) + 2 - (i + 1) = r - 1
          /\ Len(p) + 2 - (i + 2) = r - 1 - 1
      BY <2>3 DEF n
    <3>2. f[r] = <<Row(p, s, i, a, b), a>>
      BY <1>8, <3>1
    <3>3. b = f[r - 1 - 1][1]
      BY <1>8, <3>1
    <3>4. \A k : /\ in(i, k) <=> k \in Row(p, s, i, a, b)
                 /\ in(i + 1, k) <=> k \in a
                 /\ in(i + 2, k) <=> k \in b
      BY <3>1, <3>2, <3>3
    <3> HIDE DEF a, b, r
    <3>5. CASE p[i] = "*"
      <4>1. \A k \in J : in(i, k) <=> \E l \in k..(Len(s) + 1) : l \in a
        BY <2>3, <3>4, <3>5 DEF Row
      <4>2. j <= Len(s) => j + 1 \in J
        OBVIOUS
      <4>3. (\E l \in j..(Len(s) + 1) : l \in a)
              <=> j \in a \/ (j <= Len(s) /\ \E l \in (j + 1)..(Len(s) + 1) : l \in a)
        OBVIOUS
      <4>4. in(i, j) <=> in(i + 1, j) \/ (j <= Len(s) /\ in(i, j + 1))
        BY <3>4, <4>1, <4>2, <4>3
      <4> QED
        BY <2>3, <3>5, <4>4 DEF Cell
    <3>6. CASE p[i] # "*"
      <4>1. in(i, j) <=> Cell(p, s, i, j, FALSE, j + 1 \in a, j + 1 \in b, FALSE)
        BY <2>3, <3>4, <3>6 DEF Row
      <4> QED
        BY <2>3, <3>4, <3>6, <4>1 DEF Cell
    <3> QED
      BY <3>5, <3>6
  <2> QED
    BY <2>1, <2>2, <2>3
<1>11. \A at \in (1..(Len(p) + 2)) \X J : m[at] = CellOf(m, p, s, at)
  <2> SUFFICES ASSUME NEW i \in 1..(Len(p) + 2), NEW j \in J
               PROVE  m[<<i, j>>] = CellOf(m, p, s, <<i, j>>)
    OBVIOUS
  <2> HIDE DEF in
  <2>1. /\ i <= Len(p) => (m[<<i + 1, j>>] <=> in(i + 1, j))
        /\ i <= Len(p) /\ j <= Len(s) => /\ m[<<i + 1, j + 1>>] <=> in(i + 1, j + 1)
                                         /\ m[<<i + 2, j + 1>>] <=> in(i + 2, j + 1)
                                         /\ m[<<i, j + 1>>] <=> in(i, j + 1)
    BY <1>9
  <2>2. m[<<i, j>>] \in BOOLEAN
    <3>1. m[<<i, j>>] = in(i, j)
      BY DEF m, in
    <3> QED
      BY <3>1 DEF in
  <2>3. m[<<i, j>>] <=> Cell(p, s, i, j, m[<<i + 1, j>>], m[<<i + 1, j + 1>>],
                             m[<<i + 2, j + 1>>], m[<<i, j + 1>>])
    <3>1. in(i, j) <=> Cell(p, s, i, j, in(i + 1, j), in(i + 1, j + 1), in(i + 2, j + 1), in(i, j + 1))
      BY <1>10
    <3>2. m[<<i, j>>] <=> in(i, j)
      BY <1>9
    <3>3. i <= Len(p) \/ i > Len(p)
      OBVIOUS
    <3> QED
      BY <2>1, <3>1, <3>2, <3>3 DEF Cell
  <2>4. CellOf(m, p, s, <<i, j>>) \in BOOLEAN
    BY DEF CellOf, Cell
  <2> QED
    BY <2>2, <2>3, <2>4 DEF CellOf
<1>12. m = [at \in (1..(Len(p) + 2)) \X J |-> CellOf(m, p, s, at)]
  <2>1. m = [at \in (1..(Len(p) + 2)) \X J |-> m[at]]
    BY DEF m
  <2> QED
    BY <1>11, <2>1
<1> QED
  BY <1>12, TableCells

LEMMA MatchesFacts ==
  ASSUME NEW p, Len(p) \in Nat, NEW s, Len(s) \in Nat
  PROVE  \E T : Matched(T, p, s) /\ (Matches(p, s) <=> <<1, 1>> \in T)
<1> DEFINE I == 1..(Len(p) + 2)
           J == 1..(Len(s) + 1)
<1>1. PICK m : IsTable(m, p, s) /\ Matches(p, s) = m[<<1, 1>>]
  BY TableExists, MatchesTable
<1> DEFINE T == {at \in I \X J : m[at] = TRUE}
<1>2. m = [at \in I \X J |-> CellOf(m, p, s, at)]
  BY <1>1, TableCells
<1>3. \A i \in I, j \in J :
        <<i, j>> \in T <=> Cell(p, s, i, j, <<i + 1, j>> \in T, <<i + 1, j + 1>> \in T,
                                <<i + 2, j + 1>> \in T, <<i, j + 1>> \in T)
  <2> SUFFICES ASSUME NEW i \in I, NEW j \in J
               PROVE  <<i, j>> \in T <=> Cell(p, s, i, j, <<i + 1, j>> \in T, <<i + 1, j + 1>> \in T,
                                <<i + 2, j + 1>> \in T, <<i, j + 1>> \in T)
    OBVIOUS
  <2>1. m[<<i, j>>] = CellOf(m, p, s, <<i, j>>)
    BY <1>2
  <2>2. /\ <<i, j>> \in T <=> m[<<i, j>>]
        /\ i <= Len(p) => (<<i + 1, j>> \in T <=> m[<<i + 1, j>>])
        /\ i <= Len(p) /\ j <= Len(s) => /\ <<i + 1, j + 1>> \in T <=> m[<<i + 1, j + 1>>]
                                         /\ <<i, j + 1>> \in T <=> m[<<i, j + 1>>]
        /\ Escape(p, i) /\ j <= Len(s) => (<<i + 2, j + 1>> \in T <=> m[<<i + 2, j + 1>>])
    BY DEF Escape
  <2>3. m[<<i, j>>] <=> Cell(p, s, i, j, m[<<i + 1, j>>], m[<<i + 1, j + 1>>],
                             m[<<i + 2, j + 1>>], m[<<i, j + 1>>])
    BY <2>1 DEF CellOf
  <2> HIDE DEF T
  <2> QED
    BY <2>2, <2>3 DEF Cell
<1>4. Matches(p, s) <=> <<1, 1>> \in T
  BY <1>1
<1> HIDE DEF T
<1>5. ASSUME NEW i \in 1..Len(p), p[i] = "*", NEW j \in J
      PROVE  <<i, j>> \in T <=> \E k \in j..(Len(s) + 1) : <<i + 1, k>> \in T
  <2> DEFINE Q(l) == <<i, l>> \in T <=> \E k \in l..(Len(s) + 1) : <<i + 1, k>> \in T
             G == {d \in 0..Len(s) : Q((Len(s) + 1) - d)}
  <2>1. ASSUME NEW l \in J
        PROVE  <<i, l>> \in T <=> <<i + 1, l>> \in T \/ (l <= Len(s) /\ <<i, l + 1>> \in T)
    <3>1. i \in I /\ i <= Len(p) /\ ~(i > Len(p))
      OBVIOUS
    <3>2. <<i, l>> \in T <=> Cell(p, s, i, l, <<i + 1, l>> \in T, <<i + 1, l + 1>> \in T,
                                  <<i + 2, l + 1>> \in T, <<i, l + 1>> \in T)
      BY <1>3, <3>1
    <3> QED
      BY <1>5, <3>1, <3>2 DEF Cell
  <2>2. 0 \in G
    <3> DEFINE n == Len(s) + 1
    <3>1. n \in J /\ ~(n <= Len(s)) /\ n - 0 = n /\ n \in n..n /\ \A k \in n..n : k = n
      OBVIOUS
    <3>2. <<i, n>> \in T <=> <<i + 1, n>> \in T
      <4> HIDE DEF n
      <4> QED
        BY <2>1, <3>1
    <3>3. Q(n)
      <4> HIDE DEF n
      <4>1. (\E k \in n..n : <<i + 1, k>> \in T) <=> <<i + 1, n>> \in T
        BY <3>1
      <4>2. n = Len(s) + 1
        BY DEF n
      <4> QED
        BY <3>2, <4>1, <4>2
    <3>4. Q(n - 0) /\ 0 \in 0..Len(s)
      BY <3>1, <3>3
    <3> QED
      BY <3>4
  <2>3. ASSUME NEW d \in 0..Len(s), d > 0, d - 1 \in G PROVE d \in G
    <3> DEFINE l == (Len(s) + 1) - d
    <3>1. l \in J /\ l <= Len(s) /\ l + 1 = (Len(s) + 1) - (d - 1)
      BY <2>3
    <3>2. Q(l + 1)
      BY <2>3, <3>1
    <3>3. \A k : k \in l..(Len(s) + 1) <=> k = l \/ k \in (l + 1)..(Len(s) + 1)
      BY <3>1
    <3>4. Q(l)
      <4> HIDE DEF l
      <4> QED
        BY <2>1, <3>1, <3>2, <3>3
    <3> QED
      BY <3>4
  <2>4. G = 0..Len(s)
    <3>1. G \in SUBSET (0..Len(s))
      OBVIOUS
    <3> HIDE DEF G
    <3> QED
      BY <2>2, <2>3, <3>1, Segment
  <2>5. (Len(s) + 1) - j \in 0..Len(s) /\ (Len(s) + 1) - ((Len(s) + 1) - j) = j
    OBVIOUS
  <2>6. \A d \in 0..Len(s) : Q((Len(s) + 1) - d)
    BY <2>4
  <2>7. Q(j)
    <3> HIDE DEF G, Q
    <3> QED
      BY <2>5, <2>6
  <2> QED
    BY <2>7
<1>6. \A j \in J : <<Len(p) + 1, j>> \in T <=> j > Len(s)
  <2>1. Len(p) + 1 \in I /\ Len(p) + 1 > Len(p) /\ ~(Len(p) + 1 <= Len(p))
    OBVIOUS
  <2> QED
    BY <1>3, <2>1 DEF Cell
<1>7. ASSUME NEW i \in 1..Len(p), NEW j \in J
      PROVE  /\ p[i] = "?" => (<<i, j>> \in T <=> j <= Len(s) /\ <<i + 1, j + 1>> \in T)
             /\ Escape(p, i) => (<<i, j>> \in T <=> j <= Len(s) /\ s[j] = "?" /\ <<i + 2, j + 1>> \in T)
             /\ p[i] \notin {"*", "?"} /\ ~Escape(p, i) =>
                  (<<i, j>> \in T <=> j <= Len(s) /\ s[j] = p[i] /\ <<i + 1, j + 1>> \in T)
  <2>1. i \in I /\ i <= Len(p) /\ ~(i > Len(p))
    OBVIOUS
  <2>2. <<i, j>> \in T <=> Cell(p, s, i, j, <<i + 1, j>> \in T, <<i + 1, j + 1>> \in T,
                                <<i + 2, j + 1>> \in T, <<i, j + 1>> \in T)
    BY <1>3, <2>1
  <2>3. Escape(p, i) => p[i] = "/"
    BY DEF Escape
  <2> QED
    BY <2>1, <2>2, <2>3 DEF Cell
<1>8. Matched(T, p, s)
  BY <1>5, <1>6, <1>7 DEF Matched
<1> QED
  BY <1>4, <1>8

-----------------------------------------------------------------------------
(* Where the opcodes of a pattern find their fragments.  f stands behind the *)
(* first q characters of s.                                                  *)
At(f, s, q) == q + Len(f) <= Len(s) /\ \A j \in 1..Len(f) : s[q + j] = f[j]

LEMMA AtSubSeq ==
  ASSUME NEW S, NEW s \in Seq(S), NEW pos \in 0..Len(s), NEW F, NEW f \in Seq(F), NEW k \in Nat,
         k + Len(f) <= Len(s) - pos
  PROVE  SubSeq(SubSeq(s, pos + 1, Len(s)), k + 1, k + Len(f)) = f <=> At(f, s, pos + k)
<1> DEFINE rest == SubSeq(s, pos + 1, Len(s))
           l == Len(f)
           part == SubSeq(rest, k + 1, k + l)
<1>1. rest = [i \in 1..(Len(s) - pos) |-> s[pos + i]]
  <2>1. Len(s) - (pos + 1) + 1 = Len(s) - pos /\ \A i \in 1..(Len(s) - pos) : i + (pos + 1) - 1 = pos + i
    OBVIOUS
  <2> QED
    BY <2>1
<1>2. Len(rest) = Len(s) - pos /\ Len(s) - pos \in Nat /\ l \in Nat /\ Len(s) \in Nat
  BY <1>1
<1>3. \A i \in 1..l : k + i \in 1..(Len(s) - pos) /\ rest[k + i] = s[pos + (k + i)]
  BY <1>1, <1>2
<1> HIDE DEF rest
<1>4. part = [i \in 1..l |-> rest[k + i]]
  <2>1. (k + l) - (k + 1) + 1 = l /\ \A i \in 1..l : i + (k + 1) - 1 = k + i
    BY <1>2
  <2> QED
    BY <1>2, <2>1
<1>5. \A i \in 1..l : (pos + k) + i = pos + (k + i)
  BY <1>2
<1>6. \A i \in 1..l : rest[k + i] = s[(pos + k) + i]
  BY <1>3, <1>5
<1>7. f = [i \in 1..l |-> f[i]]
  BY <1>2
<1>8. part = f <=> \A i \in 1..l : rest[k + i] = f[i]
  <2> HIDE DEF part, l
  <2> QED
    BY <1>4, <1>7
<1>9. (pos + k) + l <= Len(s)
  BY <1>2
<1>10. At(f, s, pos + k) <=> \A i \in 1..l : s[(pos + k) + i] = f[i]
  BY <1>9 DEF At
<1>11. part = f <=> At(f, s, pos + k)
  <2> HIDE DEF part, l
  <2> QED
    BY <1>6, <1>8, <1>10
<1> QED
  BY <1>11 DEF rest

Rested(s, pos) == SubSeq(s, pos + 1, Len(s))

LEMMA FoundFacts ==
  ASSUME NEW S, NEW s \in Seq(S), NEW pos \in 0..Len(s), NEW op,
         NEW F, op.fragment \in Seq(F), op.fragment # <<>>
  PROVE  LET f == op.fragment
             found == Found(op, Rested(s, pos))
         IN  /\ op.start = kSeekForward => found = {k \in Nat : At(f, s, pos + k)}
             /\ op.start = kSeekToEnd =>
                  found = {k \in Nat : (pos + k) + Len(f) = Len(s) /\ At(f, s, pos + k)}
             /\ op.start \in Nat /\ op.start # kSeekToEnd /\ ~op.exact =>
                  found = {k \in Nat : k = op.start /\ At(f, s, pos + k)}
             /\ op.start = 0 /\ op.exact =>
                  found = {k \in Nat : k = 0 /\ pos + Len(f) = Len(s) /\ At(f, s, pos + k)}
<1> DEFINE f == op.fragment
           rest == Rested(s, pos)
           found == Found(op, rest)
           l == Len(f)
           n == Len(s) - pos
<1>1. l \in Nat /\ l > 0 /\ n \in Nat /\ Len(s) \in Nat
  BY EmptySeq, LenProperties
<1>2. Len(rest) = n /\ (rest = <<>> => n = 0)
  <2>1. rest \in Seq(S) /\ Len(rest) = Len(s) - (pos + 1) + 1
    BY SubSeqProperties DEF Rested
  <2>2. Len(rest) = n
    BY <2>1
  <2> QED
    BY <2>2
<1>3. \A k \in Nat : k + l <= n => (SubSeq(rest, k + 1, k + l) = f <=> At(f, s, pos + k))
  BY AtSubSeq DEF Rested
<1>4. \A k \in Nat : At(f, s, pos + k) => k + l <= n
  <2> SUFFICES ASSUME NEW k \in Nat, At(f, s, pos + k) PROVE k + l <= n
    OBVIOUS
  <2>1. (pos + k) + l <= Len(s)
    BY DEF At
  <2> HIDE DEF l
  <2> QED
    BY <1>1, <2>1
<1> HIDE DEF rest, l, n
<1>5. Offsets(op, rest) =
        IF rest = <<>> \/ l > n THEN {}
        ELSE IF op.start = kSeekForward THEN 0..(n - l)
        ELSE IF op.start = kSeekToEnd THEN {n - l}
        ELSE IF op.exact /\ l + op.start # n THEN {}
        ELSE {k \in {op.start} : l + k <= n}
  BY <1>2 DEF Offsets, l
<1>6. kSeekForward = -1 /\ kSeekToEnd = 1048575
  BY DEF kSeekForward, kSeekToEnd
<1>7. rest = <<>> \/ l > n => Offsets(op, rest) = {} /\ \A k \in Nat : ~(k + l <= n)
  BY <1>1, <1>2, <1>5
<1>8. rest = <<>> \/ l > n => found = {} /\ \A k \in Nat : ~At(f, s, pos + k)
  BY <1>4, <1>7 DEF Found
<1>9. \A k \in Nat : (pos + k) + l = Len(s) <=> k = n - l
  BY <1>1 DEF n
<1>10. ASSUME op.start = kSeekForward PROVE found = {k \in Nat : At(f, s, pos + k)}
  <2>1. CASE ~(rest = <<>> \/ l > n)
    <3>1. Offsets(op, rest) = {k \in Nat : k + l <= n}
      BY <1>1, <1>5, <1>10, <2>1
    <3> QED
      BY <1>3, <1>4, <3>1 DEF Found, l
  <2> QED
    BY <1>8, <2>1
<1>11. ASSUME op.start = kSeekToEnd
       PROVE  found = {k \in Nat : (pos + k) + l = Len(s) /\ At(f, s, pos + k)}
  <2>1. CASE ~(rest = <<>> \/ l > n)
    <3>1. Offsets(op, rest) = {k \in Nat : k + l <= n /\ k = n - l}
      <4>1. n - l \in Nat /\ (n - l) + l <= n
        BY <1>1, <1>2, <2>1
      <4> QED
        BY <1>5, <1>6, <1>11, <2>1, <4>1
    <3> QED
      BY <1>3, <1>4, <1>9, <3>1 DEF Found, l
  <2> QED
    BY <1>8, <2>1
<1>12. ASSUME op.start \in Nat, op.start # kSeekToEnd, ~op.exact
       PROVE  found = {k \in Nat : k = op.start /\ At(f, s, pos + k)}
  <2>1. CASE ~(rest = <<>> \/ l > n)
    <3>1. Offsets(op, rest) = {k \in Nat : k + l <= n /\ k = op.start}
      <4>1. op.start # kSeekForward /\ l + op.start = op.start + l
        BY <1>1, <1>6, <1>12
      <4> QED
        BY <1>5, <1>12, <2>1, <4>1
    <3> QED
      BY <1>3, <1>4, <3>1 DEF Found, l
  <2> QED
    BY <1>8, <2>1
<1>13. ASSUME op.start = 0, op.exact
       PROVE  found = {k \in Nat : k = 0 /\ pos + l = Len(s) /\ At(f, s, pos + k)}
  <2>1. CASE ~(rest = <<>> \/ l > n)
    <3>1. Offsets(op, rest) = {k \in Nat : k + l <= n /\ k = 0 /\ l = n}
      <4>1. op.start # kSeekForward /\ op.start # kSeekToEnd /\ l + op.start = l /\ 0 + l = l
        BY <1>1, <1>6, <1>13
      <4> QED
        BY <1>1, <1>5, <1>13, <2>1, <4>1
    <3>2. pos + l = Len(s) <=> l = n
      BY <1>1 DEF n
    <3> QED
      BY <1>3, <1>4, <3>1, <3>2 DEF Found, l
  <2> QED
    BY <1>8, <2>1
<1> QED
  BY <1>10, <1>11, <1>12, <1>13 DEF rest, l

(* Behind an opcode: Lost, or the position behind the fragment it found.     *)
Lost == -1
Places(s) == {Lost} \union (0..Len(s))
After(op, s, pos) ==
  IF pos = Lost \/ Found(op, Rested(s, pos)) = {} THEN Lost
  ELSE (pos + Min(Found(op, Rested(s, pos)))) + Len(op.fragment)

LEMMA AfterFacts ==
  ASSUME NEW S, NEW s \in Seq(S), NEW pos \in 0..Len(s), NEW op,
         NEW F, op.fragment \in Seq(F), op.fragment # <<>>
  PROVE  LET f == op.fragment
             e == After(op, s, pos)
         IN  /\ op.start = kSeekForward =>
                  \/ e = Lost /\ \A q \in pos..Len(s) : ~At(f, s, q)
                  \/ \E q \in pos..Len(s) : /\ At(f, s, q) /\ e = q + Len(f)
                                            /\ \A r \in pos..Len(s) : At(f, s, r) => q <= r
             /\ op.start = kSeekToEnd =>
                  \/ e = Lost /\ \A q \in pos..Len(s) : ~(At(f, s, q) /\ q + Len(f) = Len(s))
                  \/ \E q \in pos..Len(s) : At(f, s, q) /\ q + Len(f) = Len(s) /\ e = q + Len(f)
             /\ op.start \in Nat /\ op.start # kSeekToEnd /\ ~op.exact =>
                  e = IF At(f, s, pos + op.start) THEN (pos + op.start) + Len(f) ELSE Lost
             /\ op.start = 0 /\ op.exact =>
                  e = IF At(f, s, pos) /\ pos + Len(f) = Len(s) THEN pos + Len(f) ELSE Lost
<1> DEFINE f == op.fragment
           found == Found(op, Rested(s, pos))
           e == After(op, s, pos)
           l == Len(f)
<1>1. l \in Nat /\ l > 0 /\ Len(s) \in Nat /\ pos \in Nat /\ pos # Lost
  BY EmptySeq, LenProperties DEF Lost
<1>2. e = IF found = {} THEN Lost ELSE (pos + Min(found)) + l
  BY <1>1 DEF After
<1>3. ASSUME found \in SUBSET Nat, found # {}
      PROVE  Min(found) \in found /\ \A k \in found : Min(found) <= k
  <2> HIDE DEF found
  <2>1. \E x \in found : \A y \in found : x <= y
    BY <1>3, LeastNumber
  <2> QED
    BY <2>1 DEF Min
<1>4. \A k \in Nat : At(f, s, pos + k) => pos + k \in pos..Len(s)
  <2> SUFFICES ASSUME NEW k \in Nat, At(f, s, pos + k) PROVE pos + k \in pos..Len(s)
    OBVIOUS
  <2>1. (pos + k) + l <= Len(s)
    BY DEF At
  <2> HIDE DEF l
  <2> QED
    BY <1>1, <2>1
<1>5. \A q \in pos..Len(s) : q - pos \in Nat /\ pos + (q - pos) = q
  BY <1>1
<1>6. /\ op.start = kSeekForward => found = {k \in Nat : At(f, s, pos + k)}
      /\ op.start = kSeekToEnd => found = {k \in Nat : (pos + k) + l = Len(s) /\ At(f, s, pos + k)}
      /\ op.start \in Nat /\ op.start # kSeekToEnd /\ ~op.exact =>
           found = {k \in Nat : k = op.start /\ At(f, s, pos + k)}
      /\ op.start = 0 /\ op.exact =>
           found = {k \in Nat : k = 0 /\ pos + l = Len(s) /\ At(f, s, pos + k)}
  BY FoundFacts
<1> HIDE DEF found, e, l, f
<1>7. ASSUME op.start = kSeekForward
      PROVE  \/ e = Lost /\ \A q \in pos..Len(s) : ~At(f, s, q)
             \/ \E q \in pos..Len(s) : /\ At(f, s, q) /\ e = q + l
                                       /\ \A r \in pos..Len(s) : At(f, s, r) => q <= r
  <2>1. found = {k \in Nat : At(f, s, pos + k)}
    BY <1>6, <1>7
  <2>2. CASE found = {}
    <3>1. ASSUME NEW q \in pos..Len(s), At(f, s, q) PROVE FALSE
      <4>1. q - pos \in Nat /\ pos + (q - pos) = q
        BY <1>5
      <4>2. q - pos \in found
        BY <2>1, <3>1, <4>1
      <4> QED
        BY <2>2, <4>2
    <3> QED
      BY <1>2, <2>2, <3>1
  <2>3. CASE found # {}
    <3> DEFINE k == Min(found)
    <3>1. k \in found /\ \A y \in found : k <= y
      BY <1>3, <2>1, <2>3
    <3> HIDE DEF k
    <3>2. k \in Nat /\ At(f, s, pos + k) /\ pos + k \in pos..Len(s)
      BY <1>4, <2>1, <3>1
    <3>3. e = (pos + k) + l
      BY <1>2, <2>3 DEF k
    <3>4. ASSUME NEW r \in pos..Len(s), At(f, s, r) PROVE pos + k <= r
      <4>1. r - pos \in found
        BY <1>5, <2>1, <3>4
      <4>2. k <= r - pos
        BY <3>1, <4>1
      <4> QED
        BY <1>1, <3>2, <4>2
    <3> QED
      BY <3>2, <3>3, <3>4
  <2> QED
    BY <2>2, <2>3
<1>8. ASSUME op.start = kSeekToEnd
      PROVE  \/ e = Lost /\ \A q \in pos..Len(s) : ~(At(f, s, q) /\ q + l = Len(s))
             \/ \E q \in pos..Len(s) : At(f, s, q) /\ q + l = Len(s) /\ e = q + l
  <2>1. found = {k \in Nat : (pos + k) + l = Len(s) /\ At(f, s, pos + k)}
    BY <1>6, <1>8
  <2>2. CASE found = {}
    BY <1>2, <1>5, <2>1, <2>2
  <2>3. CASE found # {}
    <3> DEFINE k == Min(found)
    <3>1. k \in found
      BY <1>3, <2>1, <2>3
    <3> HIDE DEF k
    <3>2. k \in Nat /\ At(f, s, pos + k) /\ pos + k \in pos..Len(s) /\ (pos + k) + l = Len(s)
      BY <1>4, <2>1, <3>1
    <3>3. e = (pos + k) + l
      BY <1>2, <2>3 DEF k
    <3> QED
      BY <3>2, <3>3
  <2> QED
    BY <2>2, <2>3
<1>9. ASSUME op.start \in Nat, op.start # kSeekToEnd, ~op.exact
      PROVE  e = IF At(f, s, pos + op.start) THEN (pos + op.start) + l ELSE Lost
  <2>1. found = {k \in Nat : k = op.start /\ At(f, s, pos + k)}
    BY <1>6, <1>9
  <2>2. found # {} => Min(found) = op.start
    BY <1>3, <2>1
  <2> QED
    BY <1>2, <1>9, <2>1, <2>2
<1>10. ASSUME op.start = 0, op.exact
       PROVE  e = IF At(f, s, pos) /\ pos + l = Len(s) THEN pos + l ELSE Lost
  <2>1. found = {k \in Nat : k = 0 /\ pos + l = Len(s) /\ At(f, s, pos + k)}
    BY <1>6, <1>10
  <2>2. found # {} => Min(found) = 0
    BY <1>3, <2>1
  <2>3. pos + 0 = pos
    BY <1>1
  <2>4. found = {} <=> ~(At(f, s, pos) /\ pos + l = Len(s))
    BY <2>1, <2>3
  <2> QED
    BY <1>2, <2>2, <2>3, <2>4
<1> QED
  BY <1>7, <1>8, <1>9, <1>10 DEF e, l, f

(* What is left to match when the generator stands before row of the table:  *)
(* the fragment f read since the last wildcard, and the pattern from row on, *)
(* in the string behind pos.                                                 *)
Left(state, skip, f, T, s, pos, row) ==
  IF state = "asterisk" THEN \E q \in pos..Len(s) : At(f, s, q) /\ <<row, (q + Len(f)) + 1>> \in T
  ELSE At(f, s, pos + skip) /\ <<row, ((pos + skip) + Len(f)) + 1>> \in T

(* An opcode in the middle finds the first place, which leaves the most.     *)
LEMMA FlushMiddle ==
  ASSUME NEW S, NEW s \in Seq(S), NEW pos \in 0..Len(s), NEW T, NEW row,
         NEW state \in {"none", "asterisk", "qmark"}, NEW skip \in Nat, skip < kSeekToEnd,
         NEW op, NEW F, op.fragment \in Seq(F), op.fragment # <<>>, ~op.exact,
         op.start = IF state = "asterisk" THEN kSeekForward ELSE skip,
         state = "asterisk" =>
           \A j, k \in 1..(Len(s) + 1) : j <= k /\ <<row, k>> \in T => <<row, j>> \in T
  PROVE  /\ After(op, s, pos) \in Places(s)
         /\ Left(state, skip, op.fragment, T, s, pos, row)
              <=> After(op, s, pos) # Lost /\ <<row, After(op, s, pos) + 1>> \in T
<1> DEFINE f == op.fragment
           l == Len(f)
           e == After(op, s, pos)
<1>1. l \in Nat /\ Len(s) \in Nat /\ pos \in Nat /\ l > 0
  BY EmptySeq, LenProperties
<1>2. \A q : At(f, s, q) => q + l <= Len(s)
  BY DEF At
<1>3. CASE state = "asterisk"
  <2>1. \/ e = Lost /\ \A q \in pos..Len(s) : ~At(f, s, q)
        \/ \E q \in pos..Len(s) : /\ At(f, s, q) /\ e = q + l
                                  /\ \A r \in pos..Len(s) : At(f, s, r) => q <= r
    BY <1>3, AfterFacts
  <2>2. Left(state, skip, f, T, s, pos, row) <=>
          \E q \in pos..Len(s) : At(f, s, q) /\ <<row, (q + l) + 1>> \in T
    BY <1>3 DEF Left
  <2> HIDE DEF f, l, e
  <2>3. CASE e = Lost /\ \A q \in pos..Len(s) : ~At(f, s, q)
    BY <2>2, <2>3 DEF Places, e, f
  <2>4. ASSUME NEW q \in pos..Len(s), At(f, s, q), e = q + l,
               \A r \in pos..Len(s) : At(f, s, r) => q <= r
        PROVE  /\ e \in Places(s)
               /\ Left(state, skip, f, T, s, pos, row) <=> e # Lost /\ <<row, e + 1>> \in T
    <3>1. e \in 0..Len(s) /\ e # Lost
      BY <1>1, <1>2, <2>4 DEF Lost
    <3>2. ASSUME NEW r \in pos..Len(s), At(f, s, r), <<row, (r + l) + 1>> \in T
          PROVE  <<row, e + 1>> \in T
      <4>1. q <= r /\ r + l <= Len(s)
        BY <1>2, <2>4, <3>2
      <4>2. e + 1 \in 1..(Len(s) + 1) /\ (r + l) + 1 \in 1..(Len(s) + 1) /\ e + 1 <= (r + l) + 1
        BY <1>1, <2>4, <3>1, <4>1
      <4> QED
        BY <1>3, <3>2, <4>2
    <3>3. Left(state, skip, f, T, s, pos, row) <=> <<row, e + 1>> \in T
      BY <2>2, <2>4, <3>2
    <3> QED
      BY <3>1, <3>3 DEF Places
  <2> QED
    BY <2>1, <2>3, <2>4 DEF e, f
<1>4. CASE state # "asterisk"
  <2>1. op.start = skip /\ op.start # kSeekToEnd
    BY <1>4
  <2>2. e = IF At(f, s, pos + skip) THEN (pos + skip) + l ELSE Lost
    BY <2>1, AfterFacts
  <2>3. Left(state, skip, f, T, s, pos, row)
          <=> At(f, s, pos + skip) /\ <<row, ((pos + skip) + l) + 1>> \in T
    BY <1>4 DEF Left
  <2>4. At(f, s, pos + skip) => (pos + skip) + l \in 0..Len(s) /\ (pos + skip) + l # Lost
    <3>1. At(f, s, pos + skip) => (pos + skip) + l <= Len(s)
      BY <1>2
    <3> HIDE DEF l, f
    <3> QED
      BY <1>1, <3>1 DEF Lost
  <2> HIDE DEF e, l, f
  <2>5. e \in Places(s) /\ (Left(state, skip, f, T, s, pos, row) <=> e # Lost /\ <<row, e + 1>> \in T)
    BY <2>2, <2>3, <2>4 DEF Places
  <2> QED
    BY <2>5 DEF e, f
<1> QED
  BY <1>3, <1>4

(* The last opcode of a pattern.                                             *)
LEMMA FlushEnd ==
  ASSUME NEW S, NEW s \in Seq(S), NEW pos \in 0..Len(s), NEW T, NEW row,
         NEW state \in {"none", "asterisk", "qmark"}, NEW skip \in Nat, skip < kSeekToEnd,
         NEW op, NEW F, op.fragment \in Seq(F), op.fragment # <<>>,
         op.exact <=> state = "none",
         op.start = IF state = "asterisk" THEN kSeekToEnd ELSE skip,
         state = "none" => skip = 0,
         \A j \in 1..(Len(s) + 1) : <<row, j>> \in T <=> j > Len(s)
  PROVE  LET left == Left(state, skip, op.fragment, T, s, pos, row)
             e == After(op, s, pos)
         IN  e \in Places(s) /\ (left => e # Lost) /\ (e # Lost /\ state # "qmark" => left)
<1> DEFINE f == op.fragment
           l == Len(f)
           e == After(op, s, pos)
           left == Left(state, skip, f, T, s, pos, row)
<1>1. l \in Nat /\ Len(s) \in Nat /\ pos \in Nat /\ l > 0
  BY EmptySeq, LenProperties
<1>2. \A q : At(f, s, q) => q + l <= Len(s)
  BY DEF At
<1>3. \A q \in Nat : At(f, s, q) => /\ q + l \in 0..Len(s) /\ q + l # Lost /\ q \in 0..Len(s)
                                    /\ <<row, (q + l) + 1>> \in T <=> q + l = Len(s)
  <2> SUFFICES ASSUME NEW q \in Nat, At(f, s, q)
               PROVE  /\ q + l \in 0..Len(s) /\ q + l # Lost /\ q \in 0..Len(s)
                      /\ <<row, (q + l) + 1>> \in T <=> q + l = Len(s)
    OBVIOUS
  <2>1. q + l <= Len(s)
    BY <1>2
  <2> HIDE DEF l, f
  <2>2. /\ (q + l) + 1 \in 1..(Len(s) + 1)
        /\ (q + l) + 1 > Len(s) <=> q + l = Len(s)
        /\ q + l \in 0..Len(s) /\ q + l # Lost /\ q \in 0..Len(s)
    BY <1>1, <2>1 DEF Lost
  <2> QED
    BY <2>2
<1>4. CASE state = "asterisk"
  <2>1. \/ e = Lost /\ \A q \in pos..Len(s) : ~(At(f, s, q) /\ q + l = Len(s))
        \/ \E q \in pos..Len(s) : At(f, s, q) /\ q + l = Len(s) /\ e = q + l
    BY <1>4, AfterFacts
  <2>2. left <=> \E q \in pos..Len(s) : At(f, s, q) /\ <<row, (q + l) + 1>> \in T
    BY <1>4 DEF Left
  <2>3. \A q \in pos..Len(s) : q \in Nat
    BY <1>1
  <2> HIDE DEF e, l, f, left
  <2>4. left <=> \E q \in pos..Len(s) : At(f, s, q) /\ q + l = Len(s)
    BY <1>3, <2>2, <2>3
  <2>5. e \in Places(s) /\ (left <=> e # Lost)
    BY <1>3, <2>1, <2>3, <2>4 DEF Places
  <2> QED
    BY <2>5 DEF e, left, f
<1>5. CASE state = "qmark"
  <2>1. op.start = skip /\ op.start # kSeekToEnd /\ ~op.exact
    BY <1>5
  <2>2. e = IF At(f, s, pos + skip) THEN (pos + skip) + l ELSE Lost
    <3>1. e = IF At(f, s, pos + op.start) THEN (pos + op.start) + l ELSE Lost
      <4>1. op.start \in Nat
        BY <2>1
      <4> QED
        BY <2>1, <4>1, AfterFacts, SMTT(20)
    <3> QED
      BY <2>1, <3>1
  <2>3. left => At(f, s, pos + skip)
    BY <1>5 DEF Left
  <2>4. pos + skip \in Nat
    BY <1>1
  <2> HIDE DEF e, l, f, left
  <2>5. e \in Places(s) /\ (left => e # Lost)
    BY <1>3, <2>2, <2>3, <2>4 DEF Places
  <2> QED
    BY <1>5, <2>5 DEF e, left, f
<1>6. CASE state = "none"
  <2>1. op.start = 0 /\ op.exact /\ skip = 0 /\ pos + skip = pos
    BY <1>1, <1>6
  <2>2. e = IF At(f, s, pos) /\ pos + l = Len(s) THEN pos + l ELSE Lost
    BY <2>1, AfterFacts
  <2>3. left <=> At(f, s, pos) /\ <<row, (pos + l) + 1>> \in T
    BY <1>6, <2>1 DEF Left
  <2> HIDE DEF e, l, f, left
  <2>4. e \in Places(s) /\ (left <=> e # Lost)
    BY <1>1, <1>3, <2>2, <2>3 DEF Places
  <2> QED
    BY <2>4 DEF e, left, f
<1> QED
  BY <1>4, <1>5, <1>6

LEMMA AtAppend ==
  ASSUME NEW F, NEW f \in Seq(F), NEW c \in F, NEW s, Len(s) \in Nat, NEW q \in Nat
  PROVE  /\ At(Append(f, c), s, q)
              <=> At(f, s, q) /\ (q + Len(f)) + 1 <= Len(s) /\ s[(q + Len(f)) + 1] = c
         /\ Len(Append(f, c)) = Len(f) + 1
<1> DEFINE l == Len(f)
           g == Append(f, c)
<1>1. /\ l \in Nat /\ Len(g) = l + 1 /\ g[l + 1] = c /\ \A j \in 1..l : g[j] = f[j]
  OBVIOUS
<1>2. At(g, s, q) <=> q + (l + 1) <= Len(s) /\ \A j \in 1..(l + 1) : s[q + j] = g[j]
  BY <1>1 DEF At
<1>3. At(f, s, q) <=> q + l <= Len(s) /\ \A j \in 1..l : s[q + j] = f[j]
  BY DEF At
<1> HIDE DEF l, g
<1>4. \A j : j \in 1..(l + 1) <=> j \in 1..l \/ j = l + 1
  BY <1>1
<1>5. q + (l + 1) = (q + l) + 1 /\ ((q + l) + 1 <= Len(s) => q + l <= Len(s))
  BY <1>1
<1>6. (\A j \in 1..(l + 1) : s[q + j] = g[j])
        <=> (\A j \in 1..l : s[q + j] = f[j]) /\ s[(q + l) + 1] = c
  <2>1. (\A j \in 1..(l + 1) : s[q + j] = g[j])
          <=> (\A j \in 1..l : s[q + j] = g[j]) /\ s[q + (l + 1)] = g[l + 1]
    BY <1>4
  <2> QED
    BY <1>1, <1>5, <2>1
<1>7. At(g, s, q) <=> At(f, s, q) /\ (q + l) + 1 <= Len(s) /\ s[(q + l) + 1] = c
  BY <1>2, <1>3, <1>5, <1>6
<1> QED
  BY <1>1, <1>7 DEF g, l

LEMMA LeftChar ==
  ASSUME NEW F, NEW f \in Seq(F), NEW c \in F, NEW s, Len(s) \in Nat, NEW pos \in 0..Len(s),
         NEW T, NEW row, NEW next, NEW state, NEW skip \in Nat,
         \A j \in 1..(Len(s) + 1) : <<row, j>> \in T <=> j <= Len(s) /\ s[j] = c /\ <<next, j + 1>> \in T
  PROVE  Left(state, skip, f, T, s, pos, row) <=> Left(state, skip, Append(f, c), T, s, pos, next)
<1> DEFINE l == Len(f)
           g == Append(f, c)
<1>1. ASSUME NEW q \in Nat
      PROVE  At(f, s, q) /\ <<row, (q + l) + 1>> \in T
               <=> At(g, s, q) /\ <<next, (q + Len(g)) + 1>> \in T
  <2>1. At(g, s, q) <=> At(f, s, q) /\ (q + l) + 1 <= Len(s) /\ s[(q + l) + 1] = c
    BY AtAppend
  <2>2. Len(g) = l + 1 /\ l \in Nat
    BY AtAppend
  <2>3. At(f, s, q) => q + l <= Len(s)
    BY DEF At
  <2> HIDE DEF l, g
  <2>4. (q + Len(g)) + 1 = ((q + l) + 1) + 1
    BY <2>2
  <2>5. At(f, s, q) => (q + l) + 1 \in 1..(Len(s) + 1)
    BY <2>2, <2>3
  <2> QED
    BY <2>1, <2>4, <2>5
<1>2. pos + skip \in Nat /\ \A q \in pos..Len(s) : q \in Nat
  OBVIOUS
<1> HIDE DEF l, g
<1>3. Left(state, skip, f, T, s, pos, row) <=> Left(state, skip, g, T, s, pos, next)
  BY <1>1, <1>2 DEF Left, l
<1> QED
  BY <1>3 DEF g

LEMMA LeftWild ==
  ASSUME NEW p, Len(p) \in Nat, NEW s, Len(s) \in Nat, NEW T, Matched(T, p, s),
         NEW row \in 1..Len(p), NEW pos \in 0..Len(s), NEW skip \in Nat
  PROVE  /\ p[row] = "*" =>
              /\ <<row, pos + 1>> \in T <=> Left("asterisk", skip, <<>>, T, s, pos, row + 1)
              /\ \A j, k \in 1..(Len(s) + 1) : j <= k /\ <<row, k>> \in T => <<row, j>> \in T
         /\ p[row] = "?" =>
              <<row, pos + 1>> \in T <=> Left("qmark", 1, <<>>, T, s, pos, row + 1)
         /\ p[row] = "?" => \A state \in {"none", "qmark"} :
              Left(state, skip, <<>>, T, s, pos, row)
                <=> Left("qmark", skip + 1, <<>>, T, s, pos, row + 1)
         /\ Left("none", 0, <<>>, T, s, pos, row) <=> <<row, pos + 1>> \in T
<1>1. \A j \in 1..(Len(s) + 1) :
        /\ p[row] = "*" => (<<row, j>> \in T <=> \E k \in j..(Len(s) + 1) : <<row + 1, k>> \in T)
        /\ p[row] = "?" => (<<row, j>> \in T <=> j <= Len(s) /\ <<row + 1, j + 1>> \in T)
  BY DEF Matched
<1>2. \A q : /\ At(<<>>, s, q) <=> q + 0 <= Len(s)
             /\ (q + Len(<<>>)) + 1 = (q + 0) + 1
  BY DEF At
<1>3. \A q \in Nat : q + 0 = q
  OBVIOUS
<1>4. \A q \in Nat : (At(<<>>, s, q) <=> q <= Len(s)) /\ (q + Len(<<>>)) + 1 = q + 1
  BY <1>2, <1>3
<1>5. ASSUME p[row] = "*"
      PROVE  /\ <<row, pos + 1>> \in T <=> Left("asterisk", skip, <<>>, T, s, pos, row + 1)
             /\ \A j, k \in 1..(Len(s) + 1) : j <= k /\ <<row, k>> \in T => <<row, j>> \in T
  <2>1. Left("asterisk", skip, <<>>, T, s, pos, row + 1)
          <=> \E q \in pos..Len(s) : <<row + 1, q + 1>> \in T
    <3>1. \A q \in pos..Len(s) : q \in Nat /\ q <= Len(s)
      OBVIOUS
    <3> QED
      BY <1>4, <3>1 DEF Left
  <2>2. <<row, pos + 1>> \in T <=> \E k \in (pos + 1)..(Len(s) + 1) : <<row + 1, k>> \in T
    BY <1>1, <1>5
  <2>3. \A k \in (pos + 1)..(Len(s) + 1) : k - 1 \in pos..Len(s) /\ (k - 1) + 1 = k
    OBVIOUS
  <2>4. \A q \in pos..Len(s) : q + 1 \in (pos + 1)..(Len(s) + 1)
    OBVIOUS
  <2>5. <<row, pos + 1>> \in T <=> Left("asterisk", skip, <<>>, T, s, pos, row + 1)
    BY <2>1, <2>2, <2>3, <2>4
  <2>6. ASSUME NEW j \in 1..(Len(s) + 1), NEW k \in 1..(Len(s) + 1), j <= k, <<row, k>> \in T
        PROVE  <<row, j>> \in T
    <3>1. PICK i \in k..(Len(s) + 1) : <<row + 1, i>> \in T
      BY <1>1, <1>5, <2>6
    <3>2. i \in j..(Len(s) + 1)
      BY <2>6
    <3> QED
      BY <1>1, <1>5, <3>1, <3>2
  <2> QED
    BY <2>5, <2>6
<1>6. ASSUME NEW state, state # "asterisk", NEW n \in Nat, NEW r
      PROVE  Left(state, n, <<>>, T, s, pos, r) <=> pos + n <= Len(s) /\ <<r, (pos + n) + 1>> \in T
  <2>1. pos + n \in Nat
    OBVIOUS
  <2> QED
    BY <1>4, <1>6, <2>1 DEF Left
<1>7. ASSUME p[row] = "?", NEW n \in Nat
      PROVE  (pos + n <= Len(s) /\ <<row, (pos + n) + 1>> \in T)
               <=> Left("qmark", n + 1, <<>>, T, s, pos, row + 1)
  <2>1. (pos + n <= Len(s) => (pos + n) + 1 \in 1..(Len(s) + 1)) /\ pos + (n + 1) = (pos + n) + 1
        /\ n + 1 \in Nat /\ (pos + (n + 1) <= Len(s) <=> (pos + n) + 1 <= Len(s))
        /\ (pos + (n + 1) <= Len(s) => pos + n <= Len(s))
    OBVIOUS
  <2>2. Left("qmark", n + 1, <<>>, T, s, pos, row + 1)
          <=> (pos + n) + 1 <= Len(s) /\ <<row + 1, ((pos + n) + 1) + 1>> \in T
    BY <1>6, <2>1
  <2> QED
    BY <1>1, <1>7, <2>1, <2>2
<1>8. pos + 0 = pos /\ pos <= Len(s) /\ 0 + 1 = 1
  OBVIOUS
<1>9. p[row] = "?" => (<<row, pos + 1>> \in T <=> Left("qmark", 1, <<>>, T, s, pos, row + 1))
  BY <1>7, <1>8
<1>10. p[row] = "?" => \A state \in {"none", "qmark"} :
         Left(state, skip, <<>>, T, s, pos, row) <=> Left("qmark", skip + 1, <<>>, T, s, pos, row + 1)
  BY <1>6, <1>7
<1>11. Left("none", 0, <<>>, T, s, pos, row) <=> <<row, pos + 1>> \in T
  BY <1>6, <1>8
<1> QED
  BY <1>5, <1>9, <1>10, <1>11

(* What reading a character does, in terms of the fields of the generator.   *)
Flushed(g, negate, last_call) ==
  StringOpcode(g.fragment, StartPosition(g, last_call), last_call /\ g.state = "none",
               StringOptions(negate, last_call))

Added(g, h, c) ==
  /\ h.opcodes = g.opcodes /\ h.fragment = Append(g.fragment, c)
  /\ h.state = g.state /\ h.skip_count = g.skip_count /\ h.escaped = FALSE

Escaped(g, h) ==
  /\ h.opcodes = g.opcodes /\ h.fragment = g.fragment
  /\ h.state = g.state /\ h.skip_count = g.skip_count /\ h.escaped = TRUE
  /\ h.last_char = g.last_char

Wildcard(g, h, negate, state) ==
  /\ h.opcodes = IF g.fragment = <<>> THEN g.opcodes
                 ELSE Append(g.opcodes, Flushed(g, negate, FALSE))
  /\ h.skip_count = (IF g.fragment # <<>> /\ g.state = "qmark" THEN 0 ELSE g.skip_count)
                      + (IF state = "qmark" THEN 1 ELSE 0)
  /\ h.fragment = <<>> /\ h.state = state /\ h.last_char = state /\ h.escaped = FALSE

ReadAs(g, h, negate, p, i) ==
  \/ /\ g.escaped /\ i - 1 \in 1..Len(p) /\ Escape(p, i - 1) /\ i \notin Wild(p)
     /\ Added(g, h, p[i]) /\ p[i] = "?"
  \/ /\ ~g.escaped /\ p[i] \notin {"*", "?"} /\ ~Escape(p, i) /\ i \notin Wild(p)
     /\ Added(g, h, p[i])
  \/ /\ ~g.escaped /\ Escape(p, i) /\ i \notin Wild(p)
     /\ Escaped(g, h)
  \/ /\ ~g.escaped /\ p[i] = "*" /\ i \in Asterisks(p) /\ g.last_char \notin {"asterisk", "qmark"}
     /\ Wildcard(g, h, negate, "asterisk")
  \/ /\ ~g.escaped /\ p[i] = "?" /\ i \in QuestionMarks(p) /\ g.last_char # "asterisk"
     /\ Wildcard(g, h, negate, "qmark")

LEMMA ReadCases ==
  ASSUME NEW p \in Patterns, NEW i \in 1..Len(p), NEW negate \in BOOLEAN,
         NEW g \in Generators, ReadRight(g, p, i - 1), ReadChar(g, negate, p, i).ok
  PROVE  g.ok /\ ReadAs(g, ReadChar(g, negate, p, i), negate, p, i)
<1> DEFINE h == ReadChar(g, negate, p, i)
           f == GenStringOpcode(g, negate, FALSE)
<1>0. Len(p) \in Nat
  BY Words
<1>1. g.ok
  BY DEF ReadChar
<1>2. g.escaped <=> (i - 1 > 0 /\ Escape(p, i - 1))
  BY <1>1 DEF ReadRight
<1>3. /\ i \in Wild(p) <=> p[i] \in {"*", "?"} /\ ~(i - 1 > 0 /\ Escape(p, i - 1))
      /\ i \in Asterisks(p) <=> i \in Wild(p) /\ p[i] = "*"
      /\ i \in QuestionMarks(p) <=> i \in Wild(p) /\ p[i] = "?"
      /\ Escape(p, i) => p[i] = "/"
      /\ i - 1 > 0 /\ Escape(p, i - 1) => p[i] = "?"
  BY <1>0, WildFacts
<1>4. Added(g, AddChar(g, p[i]), p[i])
  BY DEF Added, AddChar, Generators
<1>5. /\ f = IF g.fragment = <<>> THEN g
             ELSE [g EXCEPT !.opcodes = Append(g.opcodes, Flushed(g, negate, FALSE)),
                            !.skip_count = IF g.state = "qmark" THEN 0 ELSE g.skip_count,
                            !.fragment = <<>>]
  BY DEF GenStringOpcode, Flushed
<1>6. /\ f \in Generators /\ f.ok = g.ok /\ f.escaped = g.escaped /\ f.last_char = g.last_char
      /\ f.skip_count \in Nat
  <2>1. f \in Generators /\ f.ok = g.ok /\ f.escaped = g.escaped /\ f.last_char = g.last_char
    BY GenFacts
  <2> HIDE DEF f
  <2> QED
    BY <2>1 DEF Generators
<1>7. /\ f.opcodes = IF g.fragment = <<>> THEN g.opcodes
                     ELSE Append(g.opcodes, Flushed(g, negate, FALSE))
      /\ f.skip_count = IF g.fragment # <<>> /\ g.state = "qmark" THEN 0 ELSE g.skip_count
      /\ f.fragment = <<>>
  <2> DEFINE ops == Append(g.opcodes, Flushed(g, negate, FALSE))
             skip == IF g.state = "qmark" THEN 0 ELSE g.skip_count
  <2>1. f = IF g.fragment = <<>> THEN g
            ELSE [g EXCEPT !.opcodes = ops, !.skip_count = skip, !.fragment = <<>>]
    BY <1>5
  <2> HIDE DEF f, ops
  <2> QED
    BY <2>1 DEF ops, Generators
<1>8. CASE g.escaped
  <2>1. h = AddChar(g, p[i])
    BY <1>1, <1>8 DEF ReadChar
  <2>2. i - 1 \in 1..Len(p)
    BY <1>0, <1>2, <1>8
  <2> QED
    BY <1>1, <1>2, <1>3, <1>4, <1>8, <2>1, <2>2 DEF ReadAs
<1>9. CASE ~g.escaped /\ p[i] = "*"
  <2>1. g.last_char \notin {"asterisk", "qmark"}
    <3> SUFFICES ASSUME g.last_char \in {"asterisk", "qmark"} PROVE FALSE
      OBVIOUS
    <3>1. h = [g EXCEPT !.ok = FALSE]
      BY <1>1, <1>9 DEF ReadChar
    <3> QED
      BY <3>1 DEF Generators
  <2>2. h = [f EXCEPT !.last_char = "asterisk", !.state = "asterisk"]
    BY <1>1, <1>9, <2>1 DEF ReadChar
  <2> HIDE DEF f
  <2>3. /\ h.opcodes = f.opcodes /\ h.fragment = f.fragment /\ h.skip_count = f.skip_count
        /\ h.escaped = f.escaped /\ h.state = "asterisk" /\ h.last_char = "asterisk"
    BY <1>6, <2>2 DEF Generators
  <2>4. f.skip_count + 0 = f.skip_count /\ g.escaped = FALSE
    BY <1>6, <1>9 DEF Generators
  <2> HIDE DEF h
  <2>5. Wildcard(g, h, negate, "asterisk")
    BY <1>6, <1>7, <2>3, <2>4 DEF Wildcard
  <2> QED
    BY <1>1, <1>2, <1>3, <1>9, <2>1, <2>5 DEF ReadAs, h
<1>10. CASE ~g.escaped /\ p[i] = "?"
  <2>1. g.last_char # "asterisk"
    <3> SUFFICES ASSUME g.last_char = "asterisk" PROVE FALSE
      OBVIOUS
    <3>1. h = [g EXCEPT !.ok = FALSE]
      BY <1>1, <1>10 DEF ReadChar
    <3> QED
      BY <3>1 DEF Generators
  <2> DEFINE skip == f.skip_count + 1
  <2>2. h = [f EXCEPT !.last_char = "qmark", !.state = "qmark", !.skip_count = skip]
    BY <1>1, <1>10, <2>1 DEF ReadChar
  <2> HIDE DEF f, skip
  <2>3. /\ h.opcodes = f.opcodes /\ h.fragment = f.fragment /\ h.skip_count = skip
        /\ h.escaped = f.escaped /\ h.state = "qmark" /\ h.last_char = "qmark"
    BY <1>6, <2>2 DEF Generators
  <2>4. g.escaped = FALSE
    BY <1>10 DEF Generators
  <2> HIDE DEF h
  <2>5. Wildcard(g, h, negate, "qmark")
    BY <1>6, <1>7, <2>3, <2>4 DEF Wildcard, skip
  <2> QED
    BY <1>1, <1>2, <1>3, <1>10, <2>1, <2>5 DEF ReadAs, h
<1>11. CASE ~g.escaped /\ p[i] \notin {"*", "?"} /\ Escape(p, i)
  <2>1. h = [g EXCEPT !.escaped = TRUE]
    BY <1>1, <1>11 DEF ReadChar, Escape
  <2>2. Escaped(g, h)
    BY <2>1 DEF Escaped, Generators
  <2> QED
    BY <1>1, <1>3, <1>11, <2>2 DEF ReadAs
<1>12. CASE ~g.escaped /\ p[i] \notin {"*", "?"} /\ ~Escape(p, i)
  <2>1. h = AddChar(g, p[i])
    BY <1>1, <1>12 DEF ReadChar, Escape
  <2> QED
    BY <1>1, <1>3, <1>4, <1>12, <2>1 DEF ReadAs
<1> QED
  BY <1>8, <1>9, <1>10, <1>11, <1>12

(* What holds behind the first i characters of a pattern.  Grown: the        *)
(* opcodes so far follow those of the conditions before.  Counts: the        *)
(* wildcard that waits.  Cut: every opcode, and the fragment that is open,   *)
(* has a piece of the pattern of its own.                                    *)
PieceStarts(p) == {i \in (1..Len(p)) \ Wild(p) : i = 1 \/ i - 1 \in Wild(p)}

Grown(ops, before, negate) ==
  /\ Len(ops) >= Len(before)
  /\ \A k \in 1..Len(before) : ops[k] = before[k]
  /\ \A k \in (Len(before) + 1)..Len(ops) :
       ops[k].kind = "string" /\ ops[k].options = StringOptions(negate, FALSE)

Counts(g, before, p, i) ==
  /\ g.skip_count \in 0..i /\ (g.skip_count > 0 => QuestionMarks(p) # {})
  /\ g.state = "none" =>
       /\ Len(g.opcodes) = Len(before) /\ g.skip_count = 0
       /\ \A j \in 1..i : j \notin Wild(p)
  /\ g.state = "asterisk" => g.skip_count = 0 /\ \E a \in Asterisks(p) : a <= i
  /\ g.state = "qmark" => QuestionMarks(p) # {}
  /\ g.fragment = <<>> /\ g.state # "none" => g.last_char = g.state

Open(g) == g.fragment # <<>> \/ g.escaped
Started(g, before) == Len(g.opcodes) > Len(before)
Cut(g, before, p, i) ==
  /\ ~Open(g) => i = 0 \/ i \in Wild(p)
  /\ Started(g, before) \/ Open(g) => \E a \in PieceStarts(p) : a <= i
  /\ Len(g.opcodes) > Len(before) + 1 \/ (Started(g, before) /\ Open(g)) =>
       \E a, b \in PieceStarts(p) : a < b /\ b <= i
  /\ ~Started(g, before) /\ ~Open(g) => \A j \in 1..i : j \in Wild(p)

LEMMA GrownStep ==
  ASSUME NEW before \in Seq(ConditionOpcodes), NEW ops \in Seq(ConditionOpcodes),
         NEW negate \in BOOLEAN, Grown(ops, before, negate),
         NEW op, op.kind = "string", op.options = StringOptions(negate, FALSE)
  PROVE  Grown(Append(ops, op), before, negate)
<1> DEFINE n == Len(ops)
           out == Append(ops, op)
<1>1. n \in Nat /\ Len(before) \in Nat /\ Len(out) = n + 1 /\ out[n + 1] = op
      /\ \A k \in 1..n : out[k] = ops[k]
  OBVIOUS
<1> HIDE DEF n, out
<1>2. \A k \in (Len(before) + 1)..(n + 1) : k = n + 1 \/ k \in (Len(before) + 1)..n
  BY <1>1
<1>3. \A k \in 1..Len(before) : k \in 1..n
  BY <1>1 DEF Grown, n
<1>4. \A k \in (Len(before) + 1)..n : k \in 1..n
  BY <1>1
<1>5. Len(out) >= Len(before)
  BY <1>1 DEF Grown, n
<1> QED
  BY <1>1, <1>2, <1>3, <1>4, <1>5 DEF Grown, n, out

LEMMA CountsStep ==
  ASSUME NEW p \in Patterns, NEW i \in 1..Len(p), NEW negate \in BOOLEAN,
         NEW before \in Seq(ConditionOpcodes), NEW g \in Generators, NEW h \in Generators,
         ReadAs(g, h, negate, p, i), Counts(g, before, p, i - 1)
  PROVE  Counts(h, before, p, i)
<1>0. Len(p) \in Nat /\ i \in Nat /\ i - 1 \in Nat
  BY Words
<1>1. \A j : j \in 1..i <=> j \in 1..(i - 1) \/ j = i
  BY <1>0
<1>2. /\ g.skip_count \in 0..(i - 1) /\ g.skip_count \in Nat
      /\ g.state \in {"none", "asterisk", "qmark"} /\ g.fragment \in Seq(Chars)
      /\ g.opcodes \in Seq(ConditionOpcodes)
  BY DEF Counts, Generators
<1>3. \A a : a \in Asterisks(p) => a \in Nat
  BY DEF Asterisks, Wild
<1>4. \A a \in Asterisks(p) : a <= i - 1 => a <= i
  BY <1>0, <1>3
<1>5. ASSUME NEW c \in Chars, Added(g, h, c), i \notin Wild(p) PROVE Counts(h, before, p, i)
  <2>1. h.fragment # <<>>
    BY <1>2, <1>5 DEF Added
  <2>2. h.skip_count \in 0..i
    BY <1>0, <1>2, <1>5 DEF Added
  <2> QED
    BY <1>1, <1>4, <1>5, <2>1, <2>2 DEF Counts, Added
<1>6. ASSUME Escaped(g, h), i \notin Wild(p) PROVE Counts(h, before, p, i)
  <2>1. h.skip_count \in 0..i
    BY <1>0, <1>2, <1>6 DEF Escaped
  <2> QED
    BY <1>1, <1>4, <1>6, <2>1 DEF Counts, Escaped
<1>7. ASSUME i \in Asterisks(p), g.last_char \notin {"asterisk", "qmark"},
             Wildcard(g, h, negate, "asterisk")
      PROVE  Counts(h, before, p, i)
  <2>1. g.state = "qmark" => g.fragment # <<>>
    BY <1>7 DEF Counts
  <2>2. h.skip_count = 0
    BY <1>2, <1>7, <2>1 DEF Counts, Wildcard
  <2>3. i <= i /\ 0 \in 0..i /\ ~(0 > 0)
    BY <1>0
  <2> QED
    BY <1>7, <2>2, <2>3 DEF Counts, Wildcard
<1>8. ASSUME i \in QuestionMarks(p), Wildcard(g, h, negate, "qmark")
      PROVE  Counts(h, before, p, i)
  <2>1. h.skip_count \in {0 + 1, g.skip_count + 1}
    BY <1>8 DEF Wildcard
  <2>2. h.skip_count \in 0..i
    BY <1>0, <1>2, <2>1
  <2> QED
    BY <1>8, <2>2 DEF Counts, Wildcard
<1>9. p[i] \in Chars
  BY Words
<1> QED
  BY <1>5, <1>6, <1>7, <1>8, <1>9 DEF ReadAs

LEMMA CutStep ==
  ASSUME NEW p \in Patterns, NEW i \in 1..Len(p), NEW negate \in BOOLEAN,
         NEW before \in Seq(ConditionOpcodes), NEW g \in Generators, NEW h \in Generators,
         ReadAs(g, h, negate, p, i), Cut(g, before, p, i - 1), Len(g.opcodes) >= Len(before)
  PROVE  Cut(h, before, p, i)
<1>0. Len(p) \in Nat /\ i \in Nat /\ i - 1 \in Nat
  BY Words
<1>1. \A j : j \in 1..i <=> j \in 1..(i - 1) \/ j = i
  BY <1>0
<1>2. PieceStarts(p) \subseteq Nat /\ \A a \in Nat : a <= i - 1 => a <= i /\ a < i
  BY <1>0 DEF PieceStarts
<1>3. g.fragment \in Seq(Chars) /\ g.opcodes \in Seq(ConditionOpcodes) /\ Len(g.opcodes) \in Nat
      /\ Len(before) \in Nat
  BY DEF Generators
<1>4. ASSUME i \notin Wild(p), h.opcodes = g.opcodes, Open(h) PROVE Cut(h, before, p, i)
  <2>1. CASE Open(g)
    BY <1>2, <1>4, <2>1 DEF Cut, Started
  <2>2. CASE ~Open(g)
    <3>1. i \in PieceStarts(p)
      <4>1. i - 1 = 0 \/ i - 1 \in Wild(p)
        BY <2>2 DEF Cut
      <4>2. i - 1 = 0 => i = 1
        BY <1>0
      <4> QED
        BY <1>4, <4>1, <4>2 DEF PieceStarts
    <3>2. i <= i
      BY <1>0
    <3>3. Len(g.opcodes) > Len(before) + 1 => Started(g, before)
      BY <1>3 DEF Started
    <3>4. Started(g, before) => \E a \in PieceStarts(p) : a <= i - 1
      BY DEF Cut
    <3>5. Started(g, before) => \E a \in PieceStarts(p) : a < i
      BY <1>2, <3>4
    <3> QED
      BY <1>4, <3>1, <3>2, <3>3, <3>5 DEF Cut, Started
  <2> QED
    BY <2>1, <2>2
<1>5. ASSUME NEW c, Added(g, h, c), i \notin Wild(p) PROVE Cut(h, before, p, i)
  <2>1. Open(h) /\ h.opcodes = g.opcodes
    <3> DEFINE fragment == g.fragment
               longer == Append(g.fragment, c)
    <3>1. h.fragment = longer /\ h.opcodes = g.opcodes
      BY <1>5 DEF Added
    <3>2. fragment \in Seq(Chars \union {c}) /\ longer = Append(fragment, c)
      BY <1>3
    <3> HIDE DEF fragment, longer
    <3>3. longer # <<>>
      BY <3>2, AppendProperties
    <3> QED
      BY <3>1, <3>3 DEF Open
  <2> QED
    BY <1>4, <1>5, <2>1
<1>6. ASSUME Escaped(g, h), i \notin Wild(p) PROVE Cut(h, before, p, i)
  BY <1>4, <1>6 DEF Escaped, Open
<1>7. ASSUME NEW state, Wildcard(g, h, negate, state), i \in Wild(p), ~g.escaped
      PROVE  Cut(h, before, p, i)
  <2>1. ~Open(h) /\ (Open(g) <=> g.fragment # <<>>)
    BY <1>7 DEF Wildcard, Open
  <2>2. CASE g.fragment = <<>>
    <3>1. h.opcodes = g.opcodes
      BY <1>7, <2>2 DEF Wildcard
    <3> QED
      BY <1>1, <1>2, <1>7, <2>1, <2>2, <3>1 DEF Cut, Started
  <2>3. CASE g.fragment # <<>>
    <3>1. Len(h.opcodes) = Len(g.opcodes) + 1
      BY <1>3, <1>7, <2>3 DEF Wildcard
    <3>2. Started(h, before) /\ (Len(h.opcodes) > Len(before) + 1 <=> Started(g, before))
      BY <1>3, <3>1 DEF Started
    <3> QED
      BY <1>2, <1>7, <2>1, <2>3, <3>2 DEF Cut
  <2> QED
    BY <2>2, <2>3
<1>8. Asterisks(p) \subseteq Wild(p) /\ QuestionMarks(p) \subseteq Wild(p)
  BY DEF Asterisks, QuestionMarks
<1> QED
  BY <1>5, <1>6, <1>7, <1>8 DEF ReadAs

(* The positions a string condition goes through, and what they mean: Lost   *)
(* when the string cannot match, and otherwise the string matches exactly    *)
(* when what is left of the pattern does.                                    *)
Chain(w, ops, n, s) ==
  /\ w \in [n..Len(ops) -> Places(s)] /\ w[n] = 0
  /\ \A k \in (n + 1)..Len(ops) : w[k] = After(ops[k], s, w[k - 1])

RowOf(g, i) == IF g.escaped THEN i ELSE i + 1
Tells(g, e, T, s, i) ==
  /\ e = Lost => <<1, 1>> \notin T
  /\ e # Lost =>
       (<<1, 1>> \in T <=> Left(g.state, g.skip_count, g.fragment, T, s, e, RowOf(g, i)))
Searched(g, before, T, s, i) ==
  \E w : Chain(w, g.opcodes, Len(before), s) /\ Tells(g, w[Len(g.opcodes)], T, s, i)

(* What a pattern must keep to be searched as it is read.                    *)
Readable(p) ==
  /\ QuestionMarks(p) = {} \/ Len(p) < kSeekToEnd
  /\ \A q \in QuestionMarks(p), a \in Asterisks(p) : q < a

Reaches(ops, n, s, e) == \E v : Chain(v, ops, n, s) /\ v[Len(ops)] = e

LEMMA ChainAppend ==
  ASSUME NEW n \in Nat, NEW s, NEW ops \in Seq(ConditionOpcodes), Len(ops) >= n,
         NEW op \in ConditionOpcodes,
         NEW w, Chain(w, ops, n, s), After(op, s, w[Len(ops)]) \in Places(s)
  PROVE  Reaches(Append(ops, op), n, s, After(op, s, w[Len(ops)]))
<1> DEFINE l == Len(ops)
           out == Append(ops, op)
           e == After(op, s, w[l])
           v == [k \in n..(l + 1) |-> IF k = l + 1 THEN e ELSE w[k]]
<1>1. l \in Nat /\ Len(out) = l + 1 /\ out[l + 1] = op /\ \A k \in 1..l : out[k] = ops[k]
  OBVIOUS
<1>2. /\ w \in [n..l -> Places(s)] /\ w[n] = 0 /\ l >= n
      /\ \A k \in (n + 1)..l : w[k] = After(ops[k], s, w[k - 1])
  BY DEF Chain
<1> HIDE DEF l, out, e
<1>3. e \in Places(s)
  BY DEF e, l
<1>4. \A k \in n..(l + 1) : k # l + 1 => k \in n..l
  BY <1>1
<1>5. v \in [n..(l + 1) -> Places(s)]
  BY <1>2, <1>3, <1>4
<1>6. n \in n..(l + 1) /\ l + 1 \in n..(l + 1) /\ n # l + 1
  BY <1>1, <1>2
<1>7. v[n] = 0 /\ v[l + 1] = e
  BY <1>2, <1>6
<1>8. ASSUME NEW k \in (n + 1)..(l + 1) PROVE v[k] = After(out[k], s, v[k - 1])
  <2>1. k \in n..(l + 1) /\ k - 1 \in n..(l + 1) /\ k - 1 # l + 1
    BY <1>1, <1>2
  <2>2. v[k - 1] = w[k - 1]
    BY <2>1
  <2>3. CASE k = l + 1
    <3>1. k - 1 = l
      BY <1>1, <2>3
    <3> QED
      BY <1>1, <1>7, <2>2, <2>3, <3>1 DEF e
  <2>4. CASE k # l + 1
    <3>1. k \in (n + 1)..l /\ k \in 1..l
      BY <1>1, <2>4
    <3> QED
      BY <1>1, <1>2, <2>1, <2>2, <2>4, <3>1
  <2> QED
    BY <2>3, <2>4
<1> HIDE DEF v
<1>9. Chain(v, out, n, s)
  BY <1>1, <1>5, <1>7, <1>8 DEF Chain
<1>10. v[Len(out)] = e
  BY <1>1, <1>7
<1> QED
  BY <1>9, <1>10 DEF out, e, l, Reaches

LEMMA FlushedTyped ==
  ASSUME NEW g \in Generators, g.fragment # <<>>, NEW negate \in BOOLEAN, NEW last_call \in BOOLEAN
  PROVE  Flushed(g, negate, last_call) \in ConditionOpcodes
<1> DEFINE options == StringOptions(negate, last_call)
           start == StartPosition(g, last_call)
<1>1. g.fragment \in Seq(Chars) /\ g.skip_count \in Nat
  BY DEF Generators
<1>2. options \in SUBSET Options
  BY DEF StringOptions, Options
<1>3. start \in {kSeekForward, kSeekToEnd} \union Nat
  BY <1>1 DEF StartPosition
<1> QED
  BY <1>1, <1>2, <1>3 DEF Flushed, ConditionOpcodes, Opcodes, StringOpcode, Numbers

LEMMA SearchStep ==
  ASSUME NEW p \in Patterns, NEW i \in 1..Len(p), NEW negate \in BOOLEAN,
         NEW before \in Seq(ConditionOpcodes), NEW g \in Generators, NEW h \in Generators,
         ReadAs(g, h, negate, p, i), Counts(g, before, p, i - 1), Len(g.opcodes) >= Len(before),
         NEW S, NEW s \in Seq(S), NEW T, Matched(T, p, s), Readable(p),
         Searched(g, before, T, s, i - 1)
  PROVE  Searched(h, before, T, s, i)
<1> DEFINE n == Len(before)
           l == Len(g.opcodes)
           f == g.fragment
           op == Flushed(g, negate, FALSE)
           row == RowOf(g, i - 1)
<1>0. /\ Len(p) \in Nat /\ i \in Nat /\ (i - 1) + 1 = i /\ (i - 1) + 2 = i + 1 /\ n \in Nat /\ l \in Nat
      /\ Len(s) \in Nat /\ p[i] \in Chars
  BY Words DEF Generators
<1>1. /\ g.opcodes \in Seq(ConditionOpcodes) /\ f \in Seq(Chars) /\ g.skip_count \in Nat
      /\ g.state \in {"none", "asterisk", "qmark"}
      /\ h.opcodes \in Seq(ConditionOpcodes)
  BY DEF Generators
<1>2. PICK w : Chain(w, g.opcodes, n, s) /\ Tells(g, w[l], T, s, i - 1)
  BY DEF Searched
<1> DEFINE e == w[l]
<1>3. e \in Places(s)
  BY <1>0, <1>2 DEF Chain
<1>4. /\ e = Lost => <<1, 1>> \notin T
      /\ e # Lost => (<<1, 1>> \in T <=> Left(g.state, g.skip_count, f, T, s, e, row))
      /\ e # Lost => e \in 0..Len(s)
  BY <1>2, <1>3 DEF Tells, Places
<1>5. g.skip_count < kSeekToEnd
  BY <1>0, <1>1 DEF Counts, Readable, kSeekToEnd
<1>6. ASSUME h.opcodes = g.opcodes,
             e # Lost => (Left(g.state, g.skip_count, f, T, s, e, row)
                            <=> Left(h.state, h.skip_count, h.fragment, T, s, e, RowOf(h, i)))
      PROVE  Searched(h, before, T, s, i)
  <2>1. Tells(h, e, T, s, i)
    BY <1>4, <1>6 DEF Tells
  <2> QED
    BY <1>2, <1>6, <2>1 DEF Searched
<1>7. ASSUME NEW next, NEW c \in Chars, Added(g, h, c), RowOf(h, i) = next,
             \A j \in 1..(Len(s) + 1) : <<row, j>> \in T <=> j <= Len(s) /\ s[j] = c /\ <<next, j + 1>> \in T
      PROVE  Searched(h, before, T, s, i)
  <2>1. e # Lost => (Left(g.state, g.skip_count, f, T, s, e, row)
                       <=> Left(g.state, g.skip_count, Append(f, c), T, s, e, next))
    BY <1>0, <1>1, <1>4, <1>7, LeftChar
  <2> QED
    BY <1>6, <1>7, <2>1 DEF Added
<1>8. ASSUME Wildcard(g, h, negate, h.state), f # <<>>, row = i,
             g.state = "asterisk" =>
               \A j, k \in 1..(Len(s) + 1) : j <= k /\ <<row, k>> \in T => <<row, j>> \in T,
             \A d \in 0..Len(s) :
               <<row, d + 1>> \in T <=> Left(h.state, h.skip_count, <<>>, T, s, d, i + 1)
      PROVE  Searched(h, before, T, s, i)
  <2> DEFINE d == After(op, s, e)
  <2>1. /\ op.fragment = f /\ op.exact = FALSE
        /\ op.start = IF g.state = "asterisk" THEN kSeekForward ELSE g.skip_count
    <3>1. StartPosition(g, FALSE) = IF g.state = "asterisk" THEN kSeekForward ELSE g.skip_count
      BY <1>1 DEF StartPosition, Counts
    <3> QED
      BY <3>1 DEF Flushed, StringOpcode
  <2>2. /\ h.opcodes = Append(g.opcodes, op) /\ h.fragment = <<>> /\ RowOf(h, i) = i + 1
    BY <1>8 DEF Wildcard, RowOf
  <2>3. op \in ConditionOpcodes
    BY <1>8, FlushedTyped
  <2> HIDE DEF op, row, f, l, n
  <2>4. e # Lost =>
          /\ d \in Places(s)
          /\ Left(g.state, g.skip_count, f, T, s, e, row) <=> d # Lost /\ <<row, d + 1>> \in T
    <3> SUFFICES ASSUME e # Lost
                 PROVE  /\ d \in Places(s)
                        /\ Left(g.state, g.skip_count, f, T, s, e, row)
                             <=> d # Lost /\ <<row, d + 1>> \in T
      OBVIOUS
    <3>1. e \in 0..Len(s) /\ ~op.exact
      BY <1>4, <2>1
    <3> HIDE DEF e, d
    <3>2. op.fragment \in Seq(Chars) /\ op.fragment # <<>>
      BY <1>1, <1>8, <2>1
    <3>3. After(op, s, e) \in Places(s) /\
          (Left(g.state, g.skip_count, op.fragment, T, s, e, row)
              <=> After(op, s, e) # Lost /\ <<row, After(op, s, e) + 1>> \in T)
      BY <1>1, <1>5, <1>8, <2>1, <3>1, <3>2, FlushMiddle
    <3> QED
      BY <2>1, <3>3 DEF d
  <2>5. e = Lost => d = Lost
    BY DEF After
  <2>6. d \in Places(s)
    BY <2>4, <2>5 DEF Places
  <2> HIDE DEF d
  <2>7. Tells(h, d, T, s, i)
    <3>1. d # Lost => d \in 0..Len(s)
      BY <2>6 DEF Places
    <3> HIDE DEF e
    <3> QED
      BY <1>4, <1>8, <2>2, <2>4, <2>5, <3>1 DEF Tells
  <2>8. PICK v : Chain(v, Append(g.opcodes, op), n, s) /\ v[Len(Append(g.opcodes, op))] = d
    <3>1. Len(g.opcodes) >= n
      BY DEF n
    <3>2. After(op, s, w[Len(g.opcodes)]) = d
      BY DEF d, l
    <3>3. n \in Nat /\ g.opcodes \in Seq(ConditionOpcodes) /\ Chain(w, g.opcodes, n, s)
      BY <1>0, <1>1, <1>2
    <3>4. After(op, s, w[Len(g.opcodes)]) \in Places(s)
      BY <2>6, <3>2
    <3>5. Reaches(Append(g.opcodes, op), n, s, After(op, s, w[Len(g.opcodes)]))
      BY <2>3, <3>1, <3>3, <3>4, ChainAppend
    <3> QED
      BY <3>2, <3>5 DEF Reaches
  <2> QED
    BY <2>2, <2>7, <2>8 DEF Searched, n
<1>9. CASE g.escaped /\ i - 1 \in 1..Len(p) /\ Escape(p, i - 1) /\ Added(g, h, p[i]) /\ p[i] = "?"
  <2>1. row = i - 1 /\ RowOf(h, i) = i + 1
    BY <1>9 DEF RowOf, Added
  <2>2. \A j \in 1..(Len(s) + 1) :
          <<i - 1, j>> \in T <=> j <= Len(s) /\ s[j] = "?" /\ <<(i - 1) + 2, j + 1>> \in T
    BY <1>9 DEF Matched
  <2> QED
    BY <1>0, <1>7, <1>9, <2>1, <2>2
<1>10. CASE ~g.escaped /\ p[i] \notin {"*", "?"} /\ ~Escape(p, i) /\ Added(g, h, p[i])
  <2>1. row = i /\ RowOf(h, i) = i + 1
    BY <1>0, <1>10 DEF RowOf, Added
  <2>2. \A j \in 1..(Len(s) + 1) :
          <<i, j>> \in T <=> j <= Len(s) /\ s[j] = p[i] /\ <<i + 1, j + 1>> \in T
    BY <1>10 DEF Matched
  <2> QED
    BY <1>0, <1>7, <1>10, <2>1, <2>2
<1>11. CASE ~g.escaped /\ Escaped(g, h)
  <2>1. row = i /\ RowOf(h, i) = i
    BY <1>0, <1>11 DEF RowOf, Escaped
  <2> QED
    BY <1>6, <1>11, <2>1 DEF Escaped
<1>12. CASE /\ ~g.escaped /\ p[i] = "*" /\ i \in Asterisks(p)
            /\ g.last_char \notin {"asterisk", "qmark"} /\ Wildcard(g, h, negate, "asterisk")
  <2>1. row = i /\ RowOf(h, i) = i + 1 /\ h.state = "asterisk" /\ h.fragment = <<>>
    BY <1>0, <1>12 DEF RowOf, Wildcard
  <2>2. \A d \in 0..Len(s) :
          /\ <<row, d + 1>> \in T <=> Left("asterisk", h.skip_count, <<>>, T, s, d, i + 1)
          /\ \A j, k \in 1..(Len(s) + 1) : j <= k /\ <<row, k>> \in T => <<row, j>> \in T
          /\ Left("none", 0, <<>>, T, s, d, row) <=> <<row, d + 1>> \in T
    <3>1. h.skip_count \in Nat
      BY DEF Generators
    <3> QED
      BY <1>0, <1>12, <2>1, <3>1, LeftWild, SMTT(20)
  <2>3. CASE f = <<>>
    <3>1. g.state = "none" /\ g.skip_count = 0
      BY <1>1, <1>12, <2>3 DEF Counts
    <3>2. h.opcodes = g.opcodes
      BY <1>12, <2>3 DEF Wildcard
    <3> HIDE DEF e, row, f
    <3> QED
      BY <1>4, <1>6, <2>1, <2>2, <2>3, <3>1, <3>2
  <2>4. CASE f # <<>>
    <3>1. 0 \in 0..Len(s)
      BY <1>0
    <3> HIDE DEF row, f
    <3> QED
      BY <1>8, <1>12, <2>1, <2>2, <2>4, <3>1
  <2> QED
    BY <2>3, <2>4
<1>13. CASE /\ ~g.escaped /\ p[i] = "?" /\ i \in QuestionMarks(p)
            /\ Wildcard(g, h, negate, "qmark")
  <2>1. row = i /\ RowOf(h, i) = i + 1 /\ h.state = "qmark" /\ h.fragment = <<>>
    BY <1>0, <1>13 DEF RowOf, Wildcard
  <2>2. g.state # "asterisk"
    <3>1. \A a \in Asterisks(p) : a \in Nat /\ i < a
      BY <1>13 DEF Readable, Asterisks, Wild
    <3>2. \A a \in Nat : i < a => ~(a <= i - 1)
      BY <1>0
    <3> QED
      BY <3>1, <3>2 DEF Counts
  <2>3. \A d \in 0..Len(s) :
          /\ <<row, d + 1>> \in T <=> Left("qmark", 1, <<>>, T, s, d, i + 1)
          /\ \A state \in {"none", "qmark"} :
               Left(state, g.skip_count, <<>>, T, s, d, row)
                 <=> Left("qmark", g.skip_count + 1, <<>>, T, s, d, i + 1)
    <3> SUFFICES ASSUME NEW d \in 0..Len(s)
                 PROVE  /\ <<row, d + 1>> \in T <=> Left("qmark", 1, <<>>, T, s, d, i + 1)
                        /\ \A state \in {"none", "qmark"} :
                             Left(state, g.skip_count, <<>>, T, s, d, row)
                               <=> Left("qmark", g.skip_count + 1, <<>>, T, s, d, i + 1)
      OBVIOUS
    <3> HIDE DEF row
    <3>1. /\ <<i, d + 1>> \in T <=> Left("qmark", 1, <<>>, T, s, d, i + 1)
          /\ \A state \in {"none", "qmark"} :
               Left(state, g.skip_count, <<>>, T, s, d, i)
                 <=> Left("qmark", g.skip_count + 1, <<>>, T, s, d, i + 1)
      BY <1>0, <1>1, <1>13, LeftWild
    <3> QED
      BY <2>1, <3>1
  <2>4. g.state \in {"none", "qmark"}
    BY <1>1, <2>2
  <2>5. CASE f = <<>>
    <3>1. h.skip_count = g.skip_count + 1 /\ h.opcodes = g.opcodes
      BY <1>1, <1>13, <2>5 DEF Wildcard
    <3> HIDE DEF e, row, f
    <3> QED
      BY <1>4, <1>6, <2>1, <2>3, <2>4, <2>5, <3>1
  <2>6. CASE f # <<>>
    <3>1. h.skip_count = 1
      BY <1>1, <1>13, <2>4, <2>6 DEF Wildcard, Counts
    <3> HIDE DEF row, f
    <3> QED
      BY <1>8, <1>13, <2>1, <2>2, <2>3, <2>6, <3>1
  <2> QED
    BY <2>5, <2>6
<1> QED
  BY <1>9, <1>10, <1>11, <1>12, <1>13 DEF ReadAs

(* What a string condition adds to the opcodes of a rule.                    *)
ReadsAll(read, ops, negate, p) ==
  /\ read \in [0..Len(p) -> Generators] /\ read[0] = Generator(ops)
  /\ \A i \in 1..Len(p) : read[i] = ReadChar(read[i - 1], negate, p, i)

LEMMA ReadSequence ==
  ASSUME NEW p \in Patterns, NEW negate \in BOOLEAN, NEW ops \in Seq(ConditionOpcodes)
  PROVE  \E read : /\ ReadsAll(read, ops, negate, p)
                   /\ Generated(ops, negate, p) =
                        LET g == read[Len(p)]
                        IN  IF g.ok THEN GenStringOpcode(g, negate, TRUE) ELSE g
<1> DEFINE n == Len(p)
           step == [q \in (1..n) \X Generators |-> ReadChar(q[2], negate, p, q[1])]
           start == Generator(ops)
<1>0. n \in Nat
  BY Words
<1>1. start \in Generators
  BY DEF Generator, Generators
<1>2. step \in [(1..n) \X Generators -> Generators]
  <2>1. ASSUME NEW q \in (1..n) \X Generators PROVE ReadChar(q[2], negate, p, q[1]) \in Generators
    BY ReadTyped
  <2> QED
    BY <2>1
<1>3. \A i \in 1..n, g \in Generators : step[<<i, g>>] = ReadChar(g, negate, p, i)
  OBVIOUS
<1>4. \A f : (f \in [0..n -> Generators]
               /\ f = [i \in 0..n |-> IF i = 0 THEN start ELSE step[<<i, f[i - 1]>>]]) =>
             f = [i \in 0..n |-> IF i = 0 THEN start ELSE ReadChar(f[i - 1], negate, p, i)]
  <2> HIDE DEF step, n, start
  <2> SUFFICES ASSUME NEW f \in [0..n -> Generators],
                      f = [i \in 0..n |-> IF i = 0 THEN start ELSE step[<<i, f[i - 1]>>]],
                      NEW i \in 0..n
               PROVE  (IF i = 0 THEN start ELSE step[<<i, f[i - 1]>>])
                        = (IF i = 0 THEN start ELSE ReadChar(f[i - 1], negate, p, i))
    OBVIOUS
  <2>1. i # 0 => i \in 1..n /\ i - 1 \in 0..n
    BY <1>0
  <2>2. i # 0 => f[i - 1] \in Generators
    BY <2>1
  <2> QED
    BY <1>3, <2>1, <2>2
<1> HIDE DEF step
<1>5. PICK f \in [0..n -> Generators] :
        f = [i \in 0..n |-> IF i = 0 THEN start ELSE ReadChar(f[i - 1], negate, p, i)]
  <2> HIDE DEF n, start
  <2>1. PICK f \in [0..n -> Generators] : IsRecursion(f, n, start, step)
    BY <1>0, <1>1, <1>2, Recursion
  <2> QED
    BY <1>4, <2>1 DEF IsRecursion
<1> DEFINE read == CHOOSE r : r = [i \in 0..n |-> IF i = 0 THEN start
                                                  ELSE ReadChar(r[i - 1], negate, p, i)]
<1>6. read = [i \in 0..n |-> IF i = 0 THEN start ELSE ReadChar(read[i - 1], negate, p, i)]
  BY <1>5
<1>7. Generated(ops, negate, p) =
        IF read[n].ok THEN GenStringOpcode(read[n], negate, TRUE) ELSE read[n]
  BY DEF Generated
<1> HIDE DEF read, start
<1>8. \A i \in 0..n : read[i] = IF i = 0 THEN start ELSE ReadChar(read[i - 1], negate, p, i)
  BY <1>6
<1>9. read[0] = start /\ \A i \in 1..n : read[i] = ReadChar(read[i - 1], negate, p, i)
  BY <1>0, <1>8
<1> DEFINE G == {i \in 0..n : read[i] \in Generators}
<1>10. G = 0..n
  <2>1. 0 \in G
    BY <1>0, <1>1, <1>9
  <2>2. ASSUME NEW i \in 0..n, i > 0, i - 1 \in G PROVE i \in G
    <3>1. i \in 1..n
      BY <1>0, <2>2
    <3> QED
      BY <1>9, <2>2, <3>1, ReadTyped
  <2>3. G \in SUBSET (0..n)
    OBVIOUS
  <2> HIDE DEF G
  <2> QED
    BY <1>0, <2>1, <2>2, <2>3, Segment
<1>11. read \in [0..n -> Generators]
  <2>1. \A i \in 0..n : read[i] \in Generators
    BY <1>10
  <2> QED
    BY <1>6, <2>1
<1>12. ReadsAll(read, ops, negate, p)
  BY <1>9, <1>11 DEF ReadsAll, start
<1> QED
  BY <1>7, <1>12

ReadSoFar(g, before, negate, p, T, s, i) ==
  /\ ReadRight(g, p, i)
  /\ g.ok => /\ Grown(g.opcodes, before, negate) /\ Counts(g, before, p, i)
             /\ Cut(g, before, p, i) /\ Searched(g, before, T, s, i)

LEMMA ReadStart ==
  ASSUME NEW p \in Patterns, NEW negate \in BOOLEAN, NEW before \in Seq(ConditionOpcodes),
         NEW s, Len(s) \in Nat, NEW T, Matched(T, p, s)
  PROVE  ReadSoFar(Generator(before), before, negate, p, T, s, 0)
<1> DEFINE g == Generator(before)
           n == Len(before)
<1>0. n \in Nat /\ Len(p) \in Nat
  BY Words
<1>1. /\ g.opcodes = before /\ g.fragment = <<>> /\ g.last_char = "none" /\ g.state = "none"
      /\ g.skip_count = 0 /\ g.escaped = FALSE /\ g.ok = TRUE
  BY DEF Generator
<1> HIDE DEF g
<1>2. Grown(g.opcodes, before, negate)
  <2>1. (n + 1)..n = {} /\ n >= n
    BY <1>0
  <2>2. \A k \in 1..n : g.opcodes[k] = before[k]
    BY <1>1
  <2>3. \A k \in (n + 1)..n : FALSE
    BY <2>1
  <2> QED
    BY <1>1, <2>1, <2>2, <2>3 DEF Grown
<1>3. Counts(g, before, p, 0)
  BY <1>1 DEF Counts
<1>4. Cut(g, before, p, 0)
  <2>1. ~(n > n) /\ ~(n > n + 1)
    BY <1>0
  <2> QED
    BY <1>1, <2>1 DEF Cut, Open, Started
<1>5. Searched(g, before, T, s, 0)
  <2> DEFINE w == [k \in {n} |-> 0]
  <2>1. n..n = {n} /\ (n + 1)..n = {}
    BY <1>0
  <2>2. 0 \in Places(s) /\ 0 # Lost
    BY DEF Places, Lost
  <2>3. Chain(w, before, n, s)
    BY <2>1, <2>2 DEF Chain
  <2>4. w[n] = 0
    OBVIOUS
  <2>5. Left("none", 0, <<>>, T, s, 0, 1) <=> <<1, 1>> \in T
    <3>1. At(<<>>, s, 0)
      BY DEF At
    <3> QED
      BY <3>1 DEF Left
  <2>6. RowOf(g, 0) = 1
    BY <1>1 DEF RowOf
  <2> HIDE DEF w, n
  <2>7. Tells(g, w[n], T, s, 0)
    BY <1>1, <2>2, <2>4, <2>5, <2>6 DEF Tells
  <2> QED
    BY <1>1, <2>3, <2>7 DEF Searched, n
<1>6. ReadRight(g, p, 0)
  <2>1. PairsFine(p, 0)
    BY <1>0 DEF PairsFine, Wild
  <2>2. 0 \notin Asterisks(p) /\ 0 \notin QuestionMarks(p)
    BY DEF Asterisks, QuestionMarks, Wild
  <2> QED
    BY <1>1, <2>1, <2>2 DEF ReadRight
<1> QED
  BY <1>1, <1>2, <1>3, <1>4, <1>5, <1>6 DEF ReadSoFar, g

LEMMA ReadOn ==
  ASSUME NEW p \in Patterns, NEW i \in 1..Len(p), NEW negate \in BOOLEAN,
         NEW before \in Seq(ConditionOpcodes), NEW g \in Generators,
         NEW S, NEW s \in Seq(S), NEW T, Matched(T, p, s), Readable(p),
         ReadSoFar(g, before, negate, p, T, s, i - 1)
  PROVE  ReadSoFar(ReadChar(g, negate, p, i), before, negate, p, T, s, i)
<1> DEFINE h == ReadChar(g, negate, p, i)
<1>1. ReadRight(g, p, i - 1) /\ ReadRight(h, p, i) /\ h \in Generators
  BY ReadStep, ReadTyped DEF ReadSoFar
<1>2. ASSUME h.ok
      PROVE  /\ Grown(h.opcodes, before, negate) /\ Counts(h, before, p, i)
             /\ Cut(h, before, p, i) /\ Searched(h, before, T, s, i)
  <2>1. g.ok /\ ReadAs(g, h, negate, p, i)
    BY <1>1, <1>2, ReadCases
  <2>2. /\ Grown(g.opcodes, before, negate) /\ Counts(g, before, p, i - 1)
        /\ Cut(g, before, p, i - 1) /\ Searched(g, before, T, s, i - 1)
    BY <2>1 DEF ReadSoFar
  <2> HIDE DEF h
  <2>3. Len(g.opcodes) >= Len(before) /\ g.opcodes \in Seq(ConditionOpcodes)
    BY <2>2 DEF Grown, Generators
  <2>4. Counts(h, before, p, i) /\ Cut(h, before, p, i)
    BY <1>1, <2>1, <2>2, <2>3, CountsStep, CutStep
  <2>5. Searched(h, before, T, s, i)
    BY <1>1, <2>1, <2>2, <2>3, SearchStep
  <2>6. Grown(h.opcodes, before, negate)
    <3>1. h.opcodes \in {g.opcodes, Append(g.opcodes, Flushed(g, negate, FALSE))}
      BY <2>1 DEF ReadAs, Added, Escaped, Wildcard
    <3>2. /\ Flushed(g, negate, FALSE).kind = "string"
          /\ Flushed(g, negate, FALSE).options = StringOptions(negate, FALSE)
      BY DEF Flushed, StringOpcode
    <3> QED
      BY <2>2, <2>3, <3>1, <3>2, GrownStep
  <2> QED
    BY <2>4, <2>5, <2>6
<1> QED
  BY <1>1, <1>2 DEF ReadSoFar

LEMMA ReadMeans ==
  ASSUME NEW p \in Patterns, NEW negate \in BOOLEAN, NEW before \in Seq(ConditionOpcodes),
         NEW S, NEW s \in Seq(S), NEW T, Matched(T, p, s), Readable(p),
         NEW read, ReadsAll(read, before, negate, p)
  PROVE  ReadSoFar(read[Len(p)], before, negate, p, T, s, Len(p))
<1> DEFINE n == Len(p)
           G == {i \in 0..n : ReadSoFar(read[i], before, negate, p, T, s, i)}
<1>0. n \in Nat /\ Len(s) \in Nat
  BY Words
<1>1. /\ read \in [0..n -> Generators] /\ read[0] = Generator(before)
      /\ \A i \in 1..n : read[i] = ReadChar(read[i - 1], negate, p, i)
  BY DEF ReadsAll
<1>2. 0 \in G
  BY <1>0, <1>1, ReadStart
<1>3. ASSUME NEW i \in 0..n, i > 0, i - 1 \in G PROVE i \in G
  <2>1. i \in 1..n /\ i - 1 \in 0..n
    BY <1>0, <1>3
  <2>2. read[i - 1] \in Generators /\ read[i] = ReadChar(read[i - 1], negate, p, i)
    BY <1>1, <2>1
  <2> DEFINE g == read[i - 1]
  <2>3. ReadSoFar(g, before, negate, p, T, s, i - 1)
    BY <1>3
  <2> HIDE DEF g
  <2>4. ReadSoFar(ReadChar(g, negate, p, i), before, negate, p, T, s, i)
    BY <2>1, <2>2, <2>3, ReadOn DEF g
  <2> QED
    BY <2>1, <2>2, <2>4 DEF g
<1>4. G \in SUBSET (0..n)
  OBVIOUS
<1> HIDE DEF G
<1>5. G = 0..n
  BY <1>0, <1>2, <1>3, <1>4, Segment
<1> QED
  BY <1>0, <1>5 DEF G

(* The last call: without a fragment it labels the opcode written last.      *)
Relabelled(ops, options) == [ops EXCEPT ![Len(ops)].options = options]

LEMMA RelabelledFacts ==
  ASSUME NEW ops \in Seq(ConditionOpcodes), ops # <<>>, NEW options \in SUBSET Options
  PROVE  LET out == Relabelled(ops, options)
             l == Len(ops)
         IN  /\ out \in Seq(ConditionOpcodes) /\ Len(out) = l
             /\ \A k \in 1..l : k # l => out[k] = ops[k]
             /\ out[l] = [ops[l] EXCEPT !.options = options]
             /\ out[l].options = options /\ out[l].kind = ops[l].kind /\ out[l].num = ops[l].num
             /\ out[l].fragment = ops[l].fragment /\ out[l].start = ops[l].start
             /\ out[l].exact = ops[l].exact
<1> DEFINE l == Len(ops)
           op == ops[l]
           new == [op EXCEPT !.options = options]
           out == [ops EXCEPT ![l] = new]
<1>1. l \in 1..l /\ l \in Nat /\ op \in ConditionOpcodes
  OBVIOUS
<1>2. Relabelled(ops, options) = out
  BY DEF Relabelled
<1> HIDE DEF op
<1>3. /\ new \in ConditionOpcodes
      /\ new.options = options /\ new.kind = op.kind /\ new.num = op.num
      /\ new.fragment = op.fragment /\ new.start = op.start /\ new.exact = op.exact
  BY <1>1 DEF ConditionOpcodes, Opcodes
<1> HIDE DEF new
<1>4. out \in Seq(ConditionOpcodes) /\ Len(out) = l /\ out[l] = new
      /\ \A k \in 1..l : k # l => out[k] = ops[k]
  BY <1>1, <1>3
<1> HIDE DEF out
<1> QED
  BY <1>2, <1>3, <1>4 DEF op, new

LEMMA SameAfter ==
  ASSUME NEW op, NEW new, NEW s, NEW pos,
         new.fragment = op.fragment, new.start = op.start, new.exact = op.exact
  PROVE  After(new, s, pos) = After(op, s, pos)
BY DEF After, Found, Offsets

LEMMA ChainRelabelled ==
  ASSUME NEW ops \in Seq(ConditionOpcodes), ops # <<>>, NEW options \in SUBSET Options,
         NEW n \in Nat, NEW s, NEW w, Chain(w, ops, n, s)
  PROVE  Chain(w, Relabelled(ops, options), n, s)
<1> DEFINE out == Relabelled(ops, options)
           l == Len(ops)
<1>0. l \in Nat
  OBVIOUS
<1>1. /\ Len(out) = l
      /\ \A k \in 1..l : k # l => out[k] = ops[k]
      /\ out[l].fragment = ops[l].fragment /\ out[l].start = ops[l].start
      /\ out[l].exact = ops[l].exact
  BY RelabelledFacts
<1> HIDE DEF out, l
<1>2. ASSUME NEW k \in (n + 1)..l PROVE After(out[k], s, w[k - 1]) = After(ops[k], s, w[k - 1])
  <2>1. CASE k = l
    BY <1>1, <2>1, SameAfter
  <2>2. CASE k # l
    <3>1. k \in 1..l
      BY <1>0
    <3> QED
      BY <1>1, <2>2, <3>1
  <2> QED
    BY <2>1, <2>2
<1> QED
  BY <1>1, <1>2 DEF Chain, out, l

(* What the condition means for the string s of a call.  A pattern of a      *)
(* single wildcard adds no opcode.                                           *)
Block(out, before, negate) ==
  /\ Len(out) > Len(before)
  /\ \A k \in 1..Len(before) : out[k] = before[k]
  /\ \A k \in (Len(before) + 1)..Len(out) :
       out[k].kind = "string" /\ out[k].options = StringOptions(negate, k = Len(out))
SearchFor(out, n, s, p) ==
  \E w : /\ Chain(w, out, n, s)
         /\ Matches(p, s) => w[Len(out)] # Lost
         /\ QuestionMarks(p) = {} /\ w[Len(out)] # Lost => Matches(p, s)
Settled(out, before, negate, p, s) ==
  /\ OnlyWild(p)
  /\ out = before \/ (before # <<>> /\ out = Relabelled(before, StringOptions(negate, TRUE)))
  /\ p # <<>> /\ QuestionMarks(p) = {} => Matches(p, s)

LEMMA OnlyWildEnd ==
  ASSUME NEW p \in Patterns, NEW before \in Seq(ConditionOpcodes), NEW negate \in BOOLEAN,
         NEW S, NEW s \in Seq(S), NEW T, Matched(T, p, s), Matches(p, s) <=> <<1, 1>> \in T,
         NEW g \in Generators, g.fragment = <<>>, ~g.escaped, Len(g.opcodes) = Len(before),
         ReadSoFar(g, before, negate, p, T, s, Len(p)), g.ok
  PROVE  OnlyWild(p) /\ (p # <<>> /\ QuestionMarks(p) = {} => Matches(p, s)) /\ g.opcodes = before
<1> DEFINE n == Len(before)
           l == Len(p)
<1>0. n \in Nat /\ l \in Nat /\ Len(s) \in Nat /\ g.opcodes \in Seq(ConditionOpcodes)
      /\ Len(g.opcodes) = n
  BY Words DEF Generators
<1>1. /\ Grown(g.opcodes, before, negate) /\ Counts(g, before, p, l)
      /\ Cut(g, before, p, l) /\ Searched(g, before, T, s, l)
  BY DEF ReadSoFar
<1>2. ~Started(g, before) /\ ~Open(g)
  BY <1>0 DEF Started, Open
<1>3. OnlyWild(p)
  <2>1. \A j \in 1..l : j \in Wild(p)
    BY <1>1, <1>2 DEF Cut
  <2>2. Wild(p) \subseteq 1..l
    BY DEF Wild
  <2> QED
    BY <2>1, <2>2 DEF OnlyWild
<1>4. g.opcodes = before
  <2>1. \A k \in 1..Len(g.opcodes) : g.opcodes[k] = before[k]
    BY <1>0, <1>1 DEF Grown
  <2> QED
    BY <1>0, <2>1, SeqEqual
<1>5. ASSUME p # <<>>, QuestionMarks(p) = {} PROVE <<1, 1>> \in T
  <2>1. 1 \in 1..l
    BY <1>0, <1>5, EmptySeq, LenProperties, Words
  <2>2. g.state = "asterisk"
    <3>1. 1 \in Wild(p)
      BY <1>3, <2>1 DEF OnlyWild
    <3> QED
      BY <1>1, <1>5, <2>1, <3>1 DEF Counts, Generators
  <2>3. PICK w : Chain(w, g.opcodes, n, s) /\ Tells(g, w[Len(g.opcodes)], T, s, l)
    BY <1>1 DEF Searched
  <2>4. w[Len(g.opcodes)] = 0 /\ 0 # Lost
    BY <1>0, <2>3 DEF Chain, Lost
  <2>5. Left("asterisk", g.skip_count, <<>>, T, s, 0, l + 1)
    <3>1. At(<<>>, s, Len(s)) /\ Len(s) \in 0..Len(s)
      BY <1>0 DEF At
    <3>2. <<l + 1, (Len(s) + Len(<<>>)) + 1>> \in T
      <4>1. (Len(s) + Len(<<>>)) + 1 = Len(s) + 1 /\ Len(s) + 1 \in 1..(Len(s) + 1)
            /\ Len(s) + 1 > Len(s)
        BY <1>0
      <4> QED
        BY <4>1 DEF Matched
    <3> QED
      BY <3>1, <3>2 DEF Left
  <2>6. RowOf(g, l) = l + 1
    BY DEF RowOf
  <2> HIDE DEF l
  <2> QED
    BY <2>2, <2>3, <2>4, <2>5, <2>6 DEF Tells
<1> QED
  BY <1>3, <1>4, <1>5

LEMMA EmptyEnd ==
  ASSUME NEW p \in Patterns, NEW before \in Seq(ConditionOpcodes), NEW negate \in BOOLEAN,
         NEW S, NEW s \in Seq(S), NEW T, Matched(T, p, s), Matches(p, s) <=> <<1, 1>> \in T,
         NEW g \in Generators, g.fragment = <<>>, ~g.escaped, Len(g.opcodes) > Len(before),
         ReadSoFar(g, before, negate, p, T, s, Len(p)), g.ok
  PROVE  LET out == Relabelled(g.opcodes, StringOptions(negate, TRUE))
         IN  /\ Block(out, before, negate) /\ SearchFor(out, Len(before), s, p)
             /\ Len(out) > Len(before) + 1 => \E a, b \in PieceStarts(p) : a < b
<1> DEFINE n == Len(before)
           l == Len(g.opcodes)
           row == Len(p) + 1
           options == StringOptions(negate, TRUE)
           out == Relabelled(g.opcodes, options)
<1>0. n \in Nat /\ l \in Nat /\ Len(p) \in Nat /\ Len(s) \in Nat
      /\ g.opcodes \in Seq(ConditionOpcodes)
  BY Words DEF Generators
<1>1. /\ Grown(g.opcodes, before, negate) /\ Counts(g, before, p, Len(p))
      /\ Cut(g, before, p, Len(p)) /\ Searched(g, before, T, s, Len(p))
  BY DEF ReadSoFar
<1>2. g.opcodes # <<>> /\ options \in SUBSET Options
  <2>1. l > n
    OBVIOUS
  <2>2. options \in SUBSET Options
    BY DEF StringOptions, Options
  <2>3. g.opcodes = <<>> => l = 0
    OBVIOUS
  <2>4. l # 0
    BY <1>0, <2>1
  <2> QED
    BY <2>2, <2>3, <2>4
<1>3. /\ Len(out) = l
      /\ \A k \in 1..l : k # l => out[k] = g.opcodes[k]
      /\ out[l].options = options /\ out[l].kind = g.opcodes[l].kind
  BY <1>0, <1>2, RelabelledFacts
<1>4. Block(out, before, negate)
  <2>1. /\ \A k \in 1..n : k \in 1..l /\ k # l
        /\ \A k \in (n + 1)..l : k \in 1..l
    BY <1>0
  <2>2. /\ \A k \in 1..n : g.opcodes[k] = before[k]
        /\ \A k \in (n + 1)..l :
             g.opcodes[k].kind = "string" /\ g.opcodes[k].options = StringOptions(negate, FALSE)
    BY <1>1 DEF Grown
  <2>3. l > n /\ l \in (n + 1)..l
    BY <1>0
  <2> HIDE DEF out, l, n
  <2>4. \A k \in 1..n : out[k] = before[k]
    BY <1>3, <2>1, <2>2
  <2>5. ASSUME NEW k \in (n + 1)..l
        PROVE  out[k].kind = "string" /\ out[k].options = StringOptions(negate, k = l)
    <3>1. CASE k = l
      <4>1. (k = l) = TRUE
        BY <3>1
      <4> QED
        BY <1>3, <2>2, <3>1, <4>1 DEF options
    <3>2. CASE k # l
      <4>1. (k = l) = FALSE
        BY <3>2
      <4> QED
        BY <1>3, <2>1, <2>2, <3>2, <4>1
    <3> QED
      BY <3>1, <3>2
  <2> QED
    BY <1>3, <2>3, <2>4, <2>5 DEF Block, n
<1>5. SearchFor(out, n, s, p)
  <2>1. PICK w : Chain(w, g.opcodes, n, s) /\ Tells(g, w[l], T, s, Len(p))
    BY <1>1 DEF Searched
  <2>2. Chain(w, out, n, s)
    BY <1>0, <1>2, <2>1, ChainRelabelled
  <2> DEFINE e == w[l]
  <2>3. e \in Places(s)
    <3>1. l \in n..l
      BY <1>0
    <3> QED
      BY <2>1, <3>1 DEF Chain
  <2>4. RowOf(g, Len(p)) = row
    BY DEF RowOf
  <2>5. ASSUME QuestionMarks(p) = {} PROVE g.state = "asterisk"
    <3>1. g.state # "none" /\ g.state # "qmark"
      BY <1>0, <1>1, <2>5 DEF Counts
    <3> QED
      BY <3>1 DEF Generators
  <2>6. ASSUME QuestionMarks(p) = {}, e # Lost PROVE Left(g.state, g.skip_count, <<>>, T, s, e, row)
    <3>1. e \in 0..Len(s)
      BY <2>3, <2>6 DEF Places
    <3>2. At(<<>>, s, Len(s)) /\ Len(s) \in e..Len(s)
      BY <1>0, <3>1 DEF At
    <3>3. <<row, (Len(s) + Len(<<>>)) + 1>> \in T
      <4>1. (Len(s) + Len(<<>>)) + 1 = Len(s) + 1 /\ Len(s) + 1 \in 1..(Len(s) + 1)
            /\ Len(s) + 1 > Len(s)
        BY <1>0
      <4> QED
        BY <4>1 DEF Matched
    <3> HIDE DEF e, row
    <3> QED
      BY <2>5, <2>6, <3>2, <3>3 DEF Left
  <2>7. (Matches(p, s) => e # Lost) /\ (QuestionMarks(p) = {} /\ e # Lost => Matches(p, s))
    <3> HIDE DEF e, row
    <3>1. Tells(g, e, T, s, Len(p))
      BY <2>1 DEF e
    <3> QED
      BY <2>4, <2>6, <3>1 DEF Tells
  <2> HIDE DEF out, l
  <2> QED
    BY <1>3, <2>2, <2>7 DEF SearchFor
<1>6. Len(out) > n + 1 => \E a, b \in PieceStarts(p) : a < b
  BY <1>1, <1>3 DEF Cut
<1> QED
  BY <1>4, <1>5, <1>6

LEMMA FlushedEnd ==
  ASSUME NEW p \in Patterns, NEW before \in Seq(ConditionOpcodes), NEW negate \in BOOLEAN,
         NEW S, NEW s \in Seq(S), NEW T, Matched(T, p, s), Matches(p, s) <=> <<1, 1>> \in T,
         Readable(p), NEW g \in Generators, g.fragment # <<>>, ~g.escaped,
         ReadSoFar(g, before, negate, p, T, s, Len(p)), g.ok
  PROVE  LET out == Append(g.opcodes, Flushed(g, negate, TRUE))
         IN  /\ Block(out, before, negate) /\ SearchFor(out, Len(before), s, p)
             /\ Len(out) > Len(before) + 1 => \E a, b \in PieceStarts(p) : a < b
<1> DEFINE n == Len(before)
           l == Len(g.opcodes)
           row == Len(p) + 1
           op == Flushed(g, negate, TRUE)
           out == Append(g.opcodes, op)
<1>0. n \in Nat /\ l \in Nat /\ Len(p) \in Nat /\ Len(s) \in Nat
      /\ g.opcodes \in Seq(ConditionOpcodes) /\ g.fragment \in Seq(Chars)
      /\ g.skip_count \in Nat /\ g.state \in {"none", "asterisk", "qmark"}
  BY Words DEF Generators
<1>1. /\ Grown(g.opcodes, before, negate) /\ Counts(g, before, p, Len(p))
      /\ Cut(g, before, p, Len(p)) /\ Searched(g, before, T, s, Len(p))
  BY DEF ReadSoFar
<1>2. /\ Len(out) = l + 1 /\ out[l + 1] = op /\ l >= n
      /\ \A k \in 1..l : out[k] = g.opcodes[k]
  <2>1. op \in ConditionOpcodes
    BY FlushedTyped
  <2>2. l >= n
    BY <1>1 DEF Grown
  <2> HIDE DEF op, n
  <2> QED
    BY <1>0, <2>1, <2>2
<1>3. /\ op.kind = "string" /\ op.options = StringOptions(negate, TRUE)
      /\ op.fragment = g.fragment /\ (op.exact <=> g.state = "none")
      /\ op.start = IF g.state = "asterisk" THEN kSeekToEnd ELSE g.skip_count
  <2>1. StartPosition(g, TRUE) = IF g.state = "asterisk" THEN kSeekToEnd ELSE g.skip_count
    BY <1>0, <1>1 DEF StartPosition, Counts
  <2> QED
    BY <2>1 DEF Flushed, StringOpcode
<1>4. op \in ConditionOpcodes
  BY FlushedTyped
<1> HIDE DEF op, out
<1>5. Block(out, before, negate)
  <2>1. /\ \A k \in 1..n : k \in 1..l
        /\ \A k \in (n + 1)..(l + 1) : k # l + 1 => k \in 1..l /\ k \in (n + 1)..l
        /\ l + 1 > n
    BY <1>0, <1>2
  <2>2. /\ \A k \in 1..n : g.opcodes[k] = before[k]
        /\ \A k \in (n + 1)..l :
             g.opcodes[k].kind = "string" /\ g.opcodes[k].options = StringOptions(negate, FALSE)
    BY <1>1 DEF Grown
  <2> HIDE DEF l, n
  <2>4. \A k \in 1..n : out[k] = before[k]
    BY <1>2, <2>1, <2>2
  <2>5. ASSUME NEW k \in (n + 1)..(l + 1)
        PROVE  out[k].kind = "string" /\ out[k].options = StringOptions(negate, k = l + 1)
    <3>1. CASE k = l + 1
      <4>1. (k = l + 1) = TRUE
        BY <3>1
      <4> QED
        BY <1>2, <1>3, <3>1, <4>1
    <3>2. CASE k # l + 1
      <4>1. (k = l + 1) = FALSE
        BY <3>2
      <4>2. out[k] = g.opcodes[k] /\ k \in (n + 1)..l
        BY <1>2, <2>1, <3>2
      <4> QED
        BY <2>2, <4>1, <4>2
    <3> QED
      BY <3>1, <3>2
  <2> QED
    BY <1>2, <2>1, <2>4, <2>5 DEF Block, n
<1>6. SearchFor(out, n, s, p)
  <2>1. PICK w : Chain(w, g.opcodes, n, s) /\ Tells(g, w[l], T, s, Len(p))
    BY <1>1 DEF Searched
  <2> DEFINE e == w[l]
             d == After(op, s, e)
  <2>2. e \in Places(s)
    <3>1. l \in n..l
      BY <1>0, <1>2
    <3> QED
      BY <2>1, <3>1 DEF Chain
  <2>3. RowOf(g, Len(p)) = row
    BY DEF RowOf
  <2>4. g.skip_count < kSeekToEnd /\ (g.state = "none" => g.skip_count = 0)
        /\ (g.state = "qmark" => QuestionMarks(p) # {})
    BY <1>0, <1>1 DEF Counts, Readable, kSeekToEnd
  <2>5. \A j \in 1..(Len(s) + 1) : <<row, j>> \in T <=> j > Len(s)
    BY DEF Matched
  <2>6. e = Lost => d = Lost
    BY DEF After
  <2> HIDE DEF e, d, row
  <2>7. ASSUME e # Lost
        PROVE  LET left == Left(g.state, g.skip_count, g.fragment, T, s, e, row)
               IN  d \in Places(s) /\ (left => d # Lost) /\ (d # Lost /\ g.state # "qmark" => left)
    <3>1. e \in 0..Len(s)
      BY <2>2, <2>7 DEF Places
    <3>2. op.fragment \in Seq(Chars) /\ op.fragment # <<>>
      BY <1>0, <1>3
    <3>3. LET left == Left(g.state, g.skip_count, op.fragment, T, s, e, row)
              b == After(op, s, e)
          IN  b \in Places(s) /\ (left => b # Lost) /\ (b # Lost /\ g.state # "qmark" => left)
      <4>1. g.state = "none" => g.skip_count = 0
        BY <2>4
      <4>2. op.exact <=> g.state = "none"
        BY <1>3
      <4>3. op.start = IF g.state = "asterisk" THEN kSeekToEnd ELSE g.skip_count
        BY <1>3
      <4>4. g.state \in {"none", "asterisk", "qmark"} /\ g.skip_count \in Nat
            /\ g.skip_count < kSeekToEnd
        BY <1>0, <2>4
      <4> QED
        BY <2>5, <3>1, <3>2, <4>1, <4>2, <4>3, <4>4, FlushEnd
    <3> QED
      BY <1>3, <3>3 DEF d
  <2>8. d \in Places(s)
    BY <2>6, <2>7 DEF Places
  <2>9. (Matches(p, s) => d # Lost) /\ (QuestionMarks(p) = {} /\ d # Lost => Matches(p, s))
    <3>1. Tells(g, e, T, s, Len(p))
      BY <2>1 DEF e
    <3> QED
      BY <2>3, <2>4, <2>6, <2>7, <3>1 DEF Tells
  <2>10. Reaches(out, n, s, d)
    <3>1. After(op, s, w[Len(g.opcodes)]) = d
      BY DEF d, e
    <3>2. Len(g.opcodes) >= n
      BY <1>2
    <3>3. After(op, s, w[Len(g.opcodes)]) \in Places(s)
      BY <2>8, <3>1
    <3> HIDE DEF l, n
    <3>4. n \in Nat /\ g.opcodes \in Seq(ConditionOpcodes) /\ Chain(w, g.opcodes, n, s)
      BY <1>0, <2>1
    <3>5. Reaches(Append(g.opcodes, op), n, s, After(op, s, w[Len(g.opcodes)]))
      BY <1>4, <3>2, <3>3, <3>4, ChainAppend
    <3> QED
      BY <3>1, <3>5 DEF out
  <2> QED
    BY <2>9, <2>10 DEF SearchFor, Reaches
<1>7. Len(out) > n + 1 => \E a, b \in PieceStarts(p) : a < b
  <2>1. ASSUME Len(out) > n + 1 PROVE Started(g, before) /\ Open(g)
    BY <1>0, <1>2, <2>1 DEF Started, Open
  <2> HIDE DEF n
  <2> QED
    BY <1>1, <2>1 DEF Cut
<1> QED
  BY <1>5, <1>6, <1>7 DEF out, op

LEMMA TwoPieces ==
  ASSUME NEW p, Len(p) \in Nat, \E a, b \in PieceStarts(p) : a < b
  PROVE  Pieces(p) > 1
<1> DEFINE S == PieceStarts(p)
<1>1. PICK a \in S, b \in S : a < b
  OBVIOUS
<1>2. a # b
  BY <1>1 DEF PieceStarts
<1>3. IsFiniteSet(S)
  <2>1. S \subseteq 1..Len(p) /\ IsFiniteSet(1..Len(p))
    BY FS_Interval DEF PieceStarts
  <2> QED
    BY <2>1, FS_Subset
<1>4. Pieces(p) = Cardinality(S)
  BY DEF Pieces, PieceStarts
<1> HIDE DEF S
<1>5. Cardinality(S \ {a}) = Cardinality(S) - 1 /\ Cardinality(S) \in Nat
  BY <1>3, FS_RemoveElement, FS_CardinalityType
<1>6. Cardinality(S \ {a}) # 0 /\ Cardinality(S \ {a}) \in Nat
  <2>1. b \in S \ {a} /\ IsFiniteSet(S \ {a})
    BY <1>2, <1>3, FS_RemoveElement
  <2>2. Cardinality(S \ {a}) = 0 <=> S \ {a} = {}
    BY <2>1, FS_EmptySet
  <2> QED
    BY <2>1, <2>2, FS_CardinalityType
<1> QED
  BY <1>4, <1>5, <1>6

LEMMA ConditionMeans ==
  ASSUME NEW p \in Patterns, WellFormed(p), Readable(p), NEW negate \in BOOLEAN,
         NEW before \in Seq(ConditionOpcodes), NEW s \in Strings
  PROVE  LET out == Generated(before, negate, p).opcodes
         IN  \/ Settled(out, before, negate, p, s)
             \/ /\ Block(out, before, negate) /\ SearchFor(out, Len(before), s, p)
                /\ Len(out) > Len(before) + 1 => Pieces(p) > 1
<1> DEFINE n == Len(before)
           out == Generated(before, negate, p).opcodes
           X == {s[i] : i \in DOMAIN s}
<1>0. s \in Seq(X) /\ Len(s) \in Nat /\ Len(p) \in Nat
  BY PatternsAssumption, Words
<1> HIDE DEF X
<1>1. PICK T : Matched(T, p, s) /\ (Matches(p, s) <=> <<1, 1>> \in T)
  BY <1>0, MatchesFacts
<1>2. PICK read : /\ ReadsAll(read, before, negate, p)
                  /\ Generated(before, negate, p) =
                       LET g == read[Len(p)]
                       IN  IF g.ok THEN GenStringOpcode(g, negate, TRUE) ELSE g
  BY ReadSequence
<1> DEFINE g == read[Len(p)]
           h == GenStringOpcode(g, negate, TRUE)
<1>3. g \in Generators /\ ReadSoFar(g, before, negate, p, T, s, Len(p))
  <2>1. Len(p) \in 0..Len(p)
    BY <1>0
  <2>2. g \in Generators
    BY <1>2, <2>1 DEF ReadsAll
  <2> QED
    BY <1>0, <1>1, <1>2, <2>2, ReadMeans
<1>4. g.ok /\ ~g.escaped
  <2>1. PairsFine(p, Len(p)) /\ ~Escape(p, Len(p))
    BY <1>0 DEF WellFormed, PairsFine, Escape
  <2> HIDE DEF g
  <2> QED
    BY <1>3, <2>1 DEF ReadSoFar, ReadRight, Generators
<1>5. out = h.opcodes
  BY <1>2, <1>4
<1> HIDE DEF g, out
<1>6. CASE g.fragment # <<>>
  <2>1. h = [g EXCEPT !.opcodes = Append(@, Flushed(g, negate, TRUE)),
                      !.skip_count = IF g.state = "qmark" THEN 0 ELSE @, !.fragment = <<>>]
    BY <1>6 DEF GenStringOpcode, Flushed
  <2>2. h.opcodes = Append(g.opcodes, Flushed(g, negate, TRUE))
    BY <1>3, <2>1 DEF Generators
  <2> HIDE DEF h
  <2> QED
    BY <1>0, <1>1, <1>3, <1>4, <1>5, <1>6, <2>2, FlushedEnd, TwoPieces DEF out
<1>7. CASE g.fragment = <<>>
  <2>1. /\ g.opcodes # <<>> => h.opcodes = Relabelled(g.opcodes, StringOptions(negate, TRUE))
        /\ g.opcodes = <<>> => h.opcodes = g.opcodes
    <3>1. g.opcodes # <<>> =>
            h = [g EXCEPT !.opcodes[Len(g.opcodes)].options = StringOptions(negate, TRUE)]
      BY <1>7 DEF GenStringOpcode
    <3>2. g.opcodes # <<>> =>
            h = [g EXCEPT !.opcodes = Relabelled(g.opcodes, StringOptions(negate, TRUE))]
      BY <3>1 DEF Relabelled
    <3>3. g.opcodes = <<>> => h = g
      BY <1>7 DEF GenStringOpcode
    <3> HIDE DEF h
    <3> QED
      BY <1>3, <3>2, <3>3 DEF Generators
  <2>2. Len(g.opcodes) \in Nat /\ n \in Nat /\ Len(g.opcodes) >= n /\ g.opcodes \in Seq(ConditionOpcodes)
    BY <1>3, <1>4 DEF ReadSoFar, Grown, Generators
  <2> HIDE DEF h
  <2>3. CASE Len(g.opcodes) = n
    <3>1. /\ OnlyWild(p) /\ (p # <<>> /\ QuestionMarks(p) = {} => Matches(p, s))
          /\ g.opcodes = before
      BY <1>0, <1>1, <1>3, <1>4, <1>7, <2>3, OnlyWildEnd
    <3> QED
      BY <1>5, <2>1, <3>1 DEF Settled, out
  <2>4. CASE Len(g.opcodes) > n
    <3>1. g.opcodes # <<>>
      BY <2>2, <2>4
    <3> QED
      BY <1>0, <1>1, <1>3, <1>4, <1>5, <1>7, <2>1, <2>4, <3>1, EmptyEnd, TwoPieces DEF out
  <2> QED
    BY <2>2, <2>3, <2>4
<1> QED
  BY <1>6, <1>7

(* The states of the evaluation of a rule, one behind each of its opcodes.   *)
(* mode joins AND or OR with whether the rest of the rule is skipped: in     *)
(* "failed" its action is skipped too, in "settled" it is not.               *)
EvalAt(op, in, at) ==
  \/ op.kind = "equal" /\ in.num = op.num
  \/ op.kind = "and" /\ in.num \cap op.num # {}
  \/ op.kind = "string" /\ Found(op, Rested(in.str, at)) # {}

ValueAt(op, in, at) == ~(EvalAt(op, in, at) <=> "negate" \in op.options)

AdvanceAt(op, in, at) ==
  IF op.kind = "string" /\ Found(op, Rested(in.str, at)) # {} THEN After(op, in.str, at) ELSE at

Mode(mode, at) == [mode |-> mode, at |-> at]
Start == Mode("all", 0)
Failed == Mode("failed", 0)
AnyHeld == Mode("settled", 0)

AnyMode(op, t) == "or" \in op.options \/ ("clear" \notin op.options /\ t.mode = "any")

StepOf(t, op, in) ==
  IF t.mode \in {"failed", "settled"} THEN t
  ELSE IF ValueAt(op, in, t.at) /\ AnyMode(op, t) THEN AnyHeld
  ELSE IF ~ValueAt(op, in, t.at) /\ ~AnyMode(op, t) THEN Failed
  ELSE Mode(IF AnyMode(op, t) THEN "any" ELSE "all",
            IF "clear" \in op.options THEN 0 ELSE AdvanceAt(op, in, t.at))

Trace(t, ops, in) ==
  t[0] = Start /\ \A k \in 1..Len(ops) : t[k] = StepOf(t[k - 1], ops[k], in)

LEMMA TraceStart ==
  ASSUME NEW in PROVE \E t : Trace(t, <<>>, in) /\ t[Len(<<>>)] = Start
<1> DEFINE t == [k \in {0} |-> Start]
<1>1. t[0] = Start /\ Len(<<>>) = 0
  OBVIOUS
<1>2. Trace(t, <<>>, in)
  BY <1>1 DEF Trace
<1> QED
  BY <1>1, <1>2

(* What an opcode of a string finds is where the chain goes on.              *)
LEMMA ChainValue ==
  ASSUME NEW op \in ConditionOpcodes, op.kind = "string", NEW in, NEW S, in.str \in Seq(S),
         NEW at \in 0..Len(in.str)
  PROVE  LET e == After(op, in.str, at)
         IN  (EvalAt(op, in, at) <=> e # Lost) /\ (e # Lost => AdvanceAt(op, in, at) = e)
<1> DEFINE s == in.str
           rest == Rested(s, at)
           found == Found(op, rest)
           e == After(op, s, at)
           len == Len(op.fragment)
<1>1. at # Lost /\ at \in Nat /\ len \in Nat /\ Len(s) \in Nat
  BY DEF Lost, ConditionOpcodes, Opcodes
<1>2. e = IF found = {} THEN Lost ELSE (at + Min(found)) + len
  BY <1>1 DEF After
<1>3. found \in SUBSET Nat
  <2>1. op.start \in {kSeekForward, kSeekToEnd} \union Nat
    BY DEF ConditionOpcodes, Opcodes
  <2>2. rest \in Seq(S) /\ Len(rest) \in Nat
    BY <1>1 DEF Rested
  <2>3. Offsets(op, rest) \subseteq Nat
    <3> DEFINE m == Len(rest)
    <3>1. m \in Nat /\ len \in Nat
      BY <1>1, <2>2
    <3>2. Offsets(op, rest) =
            IF rest = <<>> \/ len > m THEN {}
            ELSE IF op.start = kSeekForward THEN 0..(m - len)
            ELSE IF op.start = kSeekToEnd THEN {m - len}
            ELSE IF op.exact /\ len + op.start # m THEN {}
            ELSE {k \in {op.start} : len + k <= m}
      BY DEF Offsets
    <3> HIDE DEF m, len, rest
    <3>3. ~(len > m) => m - len \in Nat
      BY <3>1
    <3> QED
      BY <2>1, <3>1, <3>2, <3>3 DEF kSeekToEnd
  <2> QED
    BY <2>3 DEF Found
<1>4. ASSUME found # {} PROVE Min(found) \in Nat
  <2> HIDE DEF found
  <2>1. \E x \in found : \A y \in found : x <= y
    BY <1>3, <1>4, LeastNumber
  <2>2. Min(found) \in found
    BY <2>1 DEF Min
  <2> QED
    BY <1>3, <2>2
<1>5. found # {} <=> e # Lost
  <2> HIDE DEF found, e, len
  <2>1. found # {} => e \in Nat
    BY <1>1, <1>2, <1>4
  <2> QED
    BY <1>2, <2>1 DEF Lost
<1>6. EvalAt(op, in, at) <=> found # {}
  BY DEF EvalAt
<1>7. found # {} => AdvanceAt(op, in, at) = e
  BY DEF AdvanceAt
<1> QED
  BY <1>5, <1>6, <1>7

LEMMA OptionFacts ==
  /\ "or" \notin StringOptions(FALSE, FALSE) /\ "clear" \notin StringOptions(FALSE, FALSE)
  /\ "negate" \notin StringOptions(FALSE, FALSE)
  /\ StringOptions(FALSE, TRUE) = {"clear"}
  /\ "or" \in StringOptions(TRUE, FALSE) /\ "clear" \notin StringOptions(TRUE, FALSE)
  /\ "negate" \in StringOptions(TRUE, FALSE)
  /\ "or" \notin StringOptions(TRUE, TRUE) /\ "clear" \in StringOptions(TRUE, TRUE)
  /\ "negate" \in StringOptions(TRUE, TRUE)
  BY DEF StringOptions

(* One opcode of a string condition, with the place e the chain goes on at.  *)
LEMMA StringSteps ==
  ASSUME NEW op \in ConditionOpcodes, op.kind = "string", NEW in, NEW S, in.str \in Seq(S),
         NEW at \in 0..Len(in.str), NEW mode \in {"all", "any"}
  PROVE  LET e == After(op, in.str, at)
             u == StepOf(Mode(mode, at), op, in)
         IN  /\ op.options = StringOptions(FALSE, FALSE) /\ mode = "all" =>
                  u = IF e = Lost THEN Failed ELSE Mode("all", e)
             /\ op.options = StringOptions(FALSE, TRUE) =>
                  u = IF e = Lost THEN Failed ELSE Start
             /\ op.options = StringOptions(TRUE, FALSE) =>
                  u = IF e = Lost THEN AnyHeld ELSE Mode("any", e)
             /\ op.options = StringOptions(TRUE, TRUE) =>
                  u = IF e = Lost THEN Start ELSE Failed
<1> DEFINE e == After(op, in.str, at)
           t == Mode(mode, at)
           u == StepOf(t, op, in)
           value == ValueAt(op, in, at)
           any == AnyMode(op, t)
<1>1. (EvalAt(op, in, at) <=> e # Lost) /\ (e # Lost => AdvanceAt(op, in, at) = e)
  BY ChainValue
<1>2. /\ t.at = at /\ t.mode = mode
      /\ u = IF value /\ any THEN AnyHeld ELSE IF ~value /\ ~any THEN Failed
             ELSE Mode(IF any THEN "any" ELSE "all",
                       IF "clear" \in op.options THEN 0 ELSE AdvanceAt(op, in, at))
  BY DEF Mode, StepOf
<1>3. (value <=> ~(e # Lost <=> "negate" \in op.options))
      /\ (any <=> "or" \in op.options \/ ("clear" \notin op.options /\ mode = "any"))
  BY <1>1, <1>2 DEF ValueAt, AnyMode
<1> HIDE DEF value, any, u, t, e
<1>4. /\ op.options = StringOptions(FALSE, FALSE) /\ mode = "all" =>
           u = IF e = Lost THEN Failed ELSE Mode("all", e)
  BY <1>1, <1>2, <1>3, OptionFacts DEF e
<1>5. op.options = StringOptions(FALSE, TRUE) => u = IF e = Lost THEN Failed ELSE Start
  <2> SUFFICES ASSUME op.options = {"clear"} PROVE u = IF e = Lost THEN Failed ELSE Start
    BY OptionFacts
  <2>1. ~any /\ (value <=> e # Lost)
    BY <1>3
  <2> QED
    BY <1>2, <2>1 DEF Start
<1>6. op.options = StringOptions(TRUE, FALSE) => u = IF e = Lost THEN AnyHeld ELSE Mode("any", e)
  BY <1>1, <1>2, <1>3, OptionFacts DEF e
<1>7. op.options = StringOptions(TRUE, TRUE) => u = IF e = Lost THEN Start ELSE Failed
  <2> SUFFICES ASSUME op.options = StringOptions(TRUE, TRUE) PROVE u = IF e = Lost THEN Start ELSE Failed
    OBVIOUS
  <2>1. ~any /\ (value <=> e = Lost) /\ "clear" \in op.options
    BY <1>3, OptionFacts
  <2> QED
    BY <1>2, <2>1 DEF Start
<1> QED
  BY <1>4, <1>5, <1>6, <1>7 DEF u, t, e

LEMMA SkippedStep ==
  ASSUME NEW op, NEW in
  PROVE  StepOf(Failed, op, in) = Failed /\ StepOf(AnyHeld, op, in) = AnyHeld
  BY DEF StepOf, Failed, AnyHeld, Mode

(* A trace goes on with the states c of the opcodes that were added.         *)
GoesOn(c, ops, n, in) == \A k \in (n + 1)..Len(ops) : c[k] = StepOf(c[k - 1], ops[k], in)

LEMMA TraceGoesOn ==
  ASSUME NEW n \in Nat, NEW before, Len(before) = n, NEW out, Len(out) \in Nat, Len(out) >= n,
         \A k \in 1..n : out[k] = before[k],
         NEW in, NEW t, Trace(t, before, in), NEW c, GoesOn(c, out, n, in), c[n] = t[n]
  PROVE  \E u : /\ Trace(u, out, in) /\ u[Len(out)] = c[Len(out)]
                /\ Len(out) > n => u[Len(out) - 1] = c[Len(out) - 1]
<1> DEFINE l == Len(out)
           u == [k \in 0..l |-> IF k <= n THEN t[k] ELSE c[k]]
<1>0. l \in Nat /\ l >= n
  OBVIOUS
<1> HIDE DEF l
<1>1. \A k \in 0..l : k <= n => u[k] = t[k]
  OBVIOUS
<1>2. \A k \in 0..l : k >= n => u[k] = c[k]
  <2> SUFFICES ASSUME NEW k \in 0..l, k >= n PROVE u[k] = c[k]
    OBVIOUS
  <2>1. k <= n => k = n
    BY <1>0
  <2> QED
    BY <2>1
<1> HIDE DEF u
<1>3. u[0] = Start
  <2>1. 0 \in 0..l /\ 0 <= n
    BY <1>0
  <2> QED
    BY <1>1, <2>1 DEF Trace
<1>4. ASSUME NEW k \in 1..l PROVE u[k] = StepOf(u[k - 1], out[k], in)
  <2>1. k \in 0..l /\ k - 1 \in 0..l
    BY <1>0
  <2>2. CASE k <= n
    <3>1. k \in 1..n /\ k - 1 <= n
      BY <1>0, <2>2
    <3>2. u[k] = t[k] /\ u[k - 1] = t[k - 1] /\ out[k] = before[k]
      BY <1>1, <2>1, <2>2, <3>1
    <3>3. t[k] = StepOf(t[k - 1], before[k], in)
      BY <3>1 DEF Trace
    <3> QED
      BY <3>2, <3>3
  <2>3. CASE ~(k <= n)
    <3>1. k \in (n + 1)..l /\ k - 1 >= n /\ k >= n
      BY <1>0, <2>3
    <3>2. u[k] = c[k] /\ u[k - 1] = c[k - 1]
      BY <1>2, <2>1, <3>1
    <3>3. c[k] = StepOf(c[k - 1], out[k], in)
      BY <3>1 DEF GoesOn, l
    <3> QED
      BY <3>2, <3>3
  <2> QED
    BY <2>2, <2>3
<1>5. u[l] = c[l] /\ (l > n => u[l - 1] = c[l - 1])
  <2>1. l \in 0..l /\ (l > n => l - 1 \in 0..l /\ l - 1 >= n)
    BY <1>0
  <2> QED
    BY <1>0, <1>2, <2>1
<1>6. Trace(u, out, in)
  BY <1>3, <1>4 DEF Trace, l
<1> QED
  BY <1>5, <1>6 DEF l

(* Once a rule is decided the rest of its opcodes are skipped.               *)
LEMMA DecidedGoesOn ==
  ASSUME NEW ops \in Seq(ConditionOpcodes), NEW n \in Nat, NEW in, NEW d \in {Failed, AnyHeld}
  PROVE  GoesOn([k \in n..Len(ops) |-> d], ops, n, in)
<1> DEFINE l == Len(ops)
           c == [k \in n..l |-> d]
<1>1. \A k \in (n + 1)..l : k \in n..l /\ k - 1 \in n..l
  OBVIOUS
<1> HIDE DEF l
<1> QED
  BY <1>1, SkippedStep DEF GoesOn, l

AffirmedStates(w, n, l) ==
  [k \in n..l |-> IF w[k] = Lost THEN Failed ELSE IF k = l THEN Start ELSE Mode("all", w[k])]

LEMMA AffirmedGoesOn ==
  ASSUME NEW out \in Seq(ConditionOpcodes), NEW before \in Seq(ConditionOpcodes),
         Block(out, before, FALSE), NEW in, NEW S, in.str \in Seq(S),
         NEW w, Chain(w, out, Len(before), in.str)
  PROVE  LET n == Len(before)
             l == Len(out)
             c == AffirmedStates(w, n, l)
         IN  GoesOn(c, out, n, in) /\ c[n] = Start /\ c[l] = IF w[l] = Lost THEN Failed ELSE Start
<1> DEFINE s == in.str
           n == Len(before)
           l == Len(out)
           c == AffirmedStates(w, n, l)
<1>1. n \in Nat /\ l \in Nat /\ n < l /\ Len(s) \in Nat
  BY DEF Block
<1>2. /\ w \in [n..l -> Places(s)] /\ w[n] = 0
      /\ \A k \in (n + 1)..l : w[k] = After(out[k], s, w[k - 1])
  BY DEF Chain
<1>3. \A k \in (n + 1)..l : /\ out[k] \in ConditionOpcodes /\ out[k].kind = "string"
                            /\ out[k].options = StringOptions(FALSE, k = l)
  <2>1. \A k \in (n + 1)..l : k \in 1..l
    BY <1>1
  <2>2. \A k \in 1..l : out[k] \in ConditionOpcodes
    OBVIOUS
  <2>3. \A k \in (n + 1)..l : out[k].kind = "string" /\ out[k].options = StringOptions(FALSE, k = l)
    BY DEF Block
  <2> HIDE DEF n, l
  <2> QED
    BY <2>1, <2>2, <2>3
<1>4. s \in Seq(S)
  OBVIOUS
<1> HIDE DEF s, n, l
<1>5. ASSUME NEW k \in (n + 1)..l PROVE c[k] = StepOf(c[k - 1], out[k], in)
  <2>1. k \in n..l /\ k - 1 \in n..l /\ k - 1 # l
    BY <1>1
  <2>2. c[k - 1] = IF w[k - 1] = Lost THEN Failed ELSE Mode("all", w[k - 1])
    BY <2>1 DEF AffirmedStates
  <2>3. c[k] = IF w[k] = Lost THEN Failed ELSE IF k = l THEN Start ELSE Mode("all", w[k])
    BY <2>1 DEF AffirmedStates
  <2>4. w[k] = After(out[k], s, w[k - 1]) /\ w[k - 1] \in Places(s)
    BY <1>2, <2>1
  <2> HIDE DEF c
  <2>5. CASE w[k - 1] = Lost
    <3>1. w[k] = Lost
      BY <2>4, <2>5 DEF After
    <3> QED
      BY <2>2, <2>3, <2>5, <3>1, SkippedStep
  <2>6. CASE w[k - 1] # Lost
    <3> DEFINE at == w[k - 1]
               op == out[k]
               e == After(op, s, at)
    <3>1. at \in 0..Len(s)
      BY <2>4, <2>6 DEF Places
    <3>2. op \in ConditionOpcodes /\ op.kind = "string" /\ op.options = StringOptions(FALSE, k = l)
      BY <1>3
    <3> HIDE DEF at, op
    <3>3. /\ op.options = StringOptions(FALSE, FALSE) =>
               StepOf(Mode("all", at), op, in) = IF e = Lost THEN Failed ELSE Mode("all", e)
          /\ op.options = StringOptions(FALSE, TRUE) =>
               StepOf(Mode("all", at), op, in) = IF e = Lost THEN Failed ELSE Start
      BY <1>4, <3>1, <3>2, StringSteps DEF s
    <3>4. w[k] = e /\ c[k - 1] = Mode("all", at)
      BY <2>2, <2>4, <2>6 DEF at, op
    <3> HIDE DEF e
    <3>5. CASE k = l
      <4>1. (k = l) = TRUE
        BY <3>5
      <4> QED
        BY <2>3, <3>2, <3>3, <3>4, <3>5, <4>1 DEF op
    <3>6. CASE k # l
      <4>1. (k = l) = FALSE
        BY <3>6
      <4> QED
        BY <2>3, <3>2, <3>3, <3>4, <3>6, <4>1 DEF op
    <3> QED
      BY <3>5, <3>6
  <2> QED
    BY <2>5, <2>6
<1>6. c[n] = Start /\ c[l] = IF w[l] = Lost THEN Failed ELSE Start
  <2>1. n \in n..l /\ l \in n..l /\ n # l /\ 0 # Lost
    BY <1>1 DEF Lost
  <2> QED
    BY <1>2, <2>1 DEF Start, AffirmedStates
<1> HIDE DEF c
<1>7. GoesOn(c, out, n, in)
  BY <1>5 DEF GoesOn, l
<1> QED
  BY <1>6, <1>7 DEF c, l, n

NegatedEnd(w, l) ==
  IF w[l - 1] = Lost THEN AnyHeld ELSE IF w[l] = Lost THEN Start ELSE Failed
NegatedStates(w, n, l) ==
  [k \in n..l |-> IF k = l THEN NegatedEnd(w, l) ELSE IF w[k] = Lost THEN AnyHeld
                  ELSE Mode(IF k = n THEN "all" ELSE "any", w[k])]

LEMMA NegatedGoesOn ==
  ASSUME NEW out \in Seq(ConditionOpcodes), NEW before \in Seq(ConditionOpcodes),
         Block(out, before, TRUE), NEW in, NEW S, in.str \in Seq(S),
         NEW w, Chain(w, out, Len(before), in.str)
  PROVE  LET n == Len(before)
             l == Len(out)
             c == NegatedStates(w, n, l)
         IN  GoesOn(c, out, n, in) /\ c[n] = Start /\ c[l] = NegatedEnd(w, l)
<1> DEFINE s == in.str
           n == Len(before)
           l == Len(out)
           last == NegatedEnd(w, l)
           c == NegatedStates(w, n, l)
<1>1. n \in Nat /\ l \in Nat /\ n < l /\ Len(s) \in Nat
  BY DEF Block
<1>2. /\ w \in [n..l -> Places(s)] /\ w[n] = 0
      /\ \A k \in (n + 1)..l : w[k] = After(out[k], s, w[k - 1])
  BY DEF Chain
<1>3. \A k \in (n + 1)..l : /\ out[k] \in ConditionOpcodes /\ out[k].kind = "string"
                            /\ out[k].options = StringOptions(TRUE, k = l)
  <2>1. \A k \in (n + 1)..l : k \in 1..l
    BY <1>1
  <2>2. \A k \in 1..l : out[k] \in ConditionOpcodes
    OBVIOUS
  <2>3. \A k \in (n + 1)..l : out[k].kind = "string" /\ out[k].options = StringOptions(TRUE, k = l)
    BY DEF Block
  <2> HIDE DEF n, l
  <2> QED
    BY <2>1, <2>2, <2>3
<1>4. s \in Seq(S)
  OBVIOUS
<1> HIDE DEF s, n, l
<1>5. ASSUME NEW k \in (n + 1)..l PROVE c[k] = StepOf(c[k - 1], out[k], in)
  <2>1. k \in n..l /\ k - 1 \in n..l /\ k - 1 # l /\ k # n
    BY <1>1
  <2> DEFINE mode == IF k - 1 = n THEN "all" ELSE "any"
  <2>2. c[k - 1] = IF w[k - 1] = Lost THEN AnyHeld ELSE Mode(mode, w[k - 1])
    BY <2>1 DEF NegatedStates
  <2>3. c[k] = IF k = l THEN last ELSE IF w[k] = Lost THEN AnyHeld ELSE Mode("any", w[k])
    BY <2>1 DEF NegatedStates
  <2>4. w[k] = After(out[k], s, w[k - 1]) /\ w[k - 1] \in Places(s)
    BY <1>2, <2>1
  <2>5. k = l => last = IF w[k - 1] = Lost THEN AnyHeld ELSE IF w[k] = Lost THEN Start ELSE Failed
    BY DEF NegatedEnd
  <2> HIDE DEF c, last
  <2>6. CASE w[k - 1] = Lost
    <3>1. w[k] = Lost
      BY <2>4, <2>6 DEF After
    <3> QED
      BY <2>2, <2>3, <2>5, <2>6, <3>1, SkippedStep
  <2>7. CASE w[k - 1] # Lost
    <3> DEFINE at == w[k - 1]
               op == out[k]
               e == After(op, s, at)
    <3>1. at \in 0..Len(s)
      BY <2>4, <2>7 DEF Places
    <3>2. op \in ConditionOpcodes /\ op.kind = "string" /\ op.options = StringOptions(TRUE, k = l)
      BY <1>3
    <3>3. mode \in {"all", "any"}
      OBVIOUS
    <3> HIDE DEF at, op, mode
    <3>4. /\ op.options = StringOptions(TRUE, FALSE) =>
               StepOf(Mode(mode, at), op, in) = IF e = Lost THEN AnyHeld ELSE Mode("any", e)
          /\ op.options = StringOptions(TRUE, TRUE) =>
               StepOf(Mode(mode, at), op, in) = IF e = Lost THEN Start ELSE Failed
      BY <1>4, <3>1, <3>2, <3>3, StringSteps DEF s
    <3>5. w[k] = e /\ c[k - 1] = Mode(mode, at)
      BY <2>2, <2>4, <2>7 DEF at, op
    <3> HIDE DEF e
    <3>6. CASE k = l
      <4>1. (k = l) = TRUE
        BY <3>6
      <4> QED
        BY <2>3, <2>5, <2>7, <3>2, <3>4, <3>5, <3>6, <4>1 DEF op
    <3>7. CASE k # l
      <4>1. (k = l) = FALSE
        BY <3>7
      <4> QED
        BY <2>3, <3>2, <3>4, <3>5, <3>7, <4>1 DEF op
    <3> QED
      BY <3>6, <3>7
  <2> QED
    BY <2>6, <2>7
<1>6. c[n] = Start /\ c[l] = last
  <2>1. n \in n..l /\ l \in n..l /\ n # l /\ 0 # Lost
    BY <1>1 DEF Lost
  <2> QED
    BY <1>2, <2>1 DEF Start, NegatedStates
<1> HIDE DEF c
<1>7. GoesOn(c, out, n, in)
  BY <1>5 DEF GoesOn, l
<1> QED
  BY <1>6, <1>7 DEF c, l, n, last

LEMMA MatchesBoolean ==
  ASSUME NEW p, Len(p) \in Nat, NEW s, Len(s) \in Nat PROVE Matches(p, s) \in BOOLEAN
<1>1. PICK m : IsTable(m, p, s) /\ Matches(p, s) = m[<<1, 1>>]
  BY TableExists, MatchesTable
<1>2. m = [at \in (1..(Len(p) + 2)) \X (1..(Len(s) + 1)) |-> CellOf(m, p, s, at)]
  BY <1>1, TableCells
<1>3. <<1, 1>> \in (1..(Len(p) + 2)) \X (1..(Len(s) + 1))
  OBVIOUS
<1>4. CellOf(m, p, s, <<1, 1>>) \in BOOLEAN
  BY DEF CellOf, Cell
<1>5. m[<<1, 1>>] = CellOf(m, p, s, <<1, 1>>)
  BY <1>2, <1>3
<1> QED
  BY <1>1, <1>4, <1>5

(* What a condition says of a call.                                          *)
LEMMA HoldsFacts ==
  ASSUME NEW c \in Conditions, NEW in \in Calls
  PROVE  /\ c.kind = "string" => (Holds(c, in) <=> ~(c.negate <=> Matches(c.pattern, in.str)))
         /\ c.kind = "equal" => (Holds(c, in) <=> ~(c.negate <=> in.num = c.num))
         /\ c.kind = "and" => (Holds(c, in) <=> ~(c.negate <=> in.num \cap c.num # {}))
<1>1. c.negate \in BOOLEAN
  BY DEF Conditions, StringMatches, NumberMatches
<1>2. CASE c.kind = "string"
  <2>1. c.pattern \in Patterns /\ in.str \in Strings
    BY <1>2 DEF Conditions, StringMatches, NumberMatches, Calls
  <2>2. Matches(c.pattern, in.str) \in BOOLEAN
    BY <2>1, Words, MatchesBoolean
  <2>3. Holds(c, in) <=> c.negate # Matches(c.pattern, in.str)
    BY <1>2 DEF Holds
  <2> QED
    BY <1>1, <1>2, <2>2, <2>3
<1>3. CASE c.kind = "equal"
  <2>1. Holds(c, in) <=> c.negate # (in.num = c.num)
    BY <1>3 DEF Holds
  <2> QED
    BY <1>1, <1>3, <2>1
<1>4. CASE c.kind = "and"
  <2>1. Holds(c, in) <=> c.negate # (in.num \cap c.num # {})
    BY <1>4 DEF Holds
  <2> QED
    BY <1>1, <1>4, <2>1
<1> QED
  BY <1>2, <1>3, <1>4

(* The trace of a rule decides it: the action behind its opcodes is taken    *)
(* exactly when the last state is not Failed.  The opcode that ends a        *)
(* condition which is not negated may be labelled again.                     *)
Long(c) == c.kind = "string" /\ c.negate /\ Pieces(c.pattern) > 1
Ending(r) == r.conditions[Len(r.conditions)]
Harmless(t, ops, in) ==
  StepOf(t[Len(ops) - 1], [ops[Len(ops)] EXCEPT !.options = {"clear"}], in) = t[Len(ops)]

Decides(t, r, ops, in) ==
  /\ Trace(t, ops, in) /\ t[Len(ops)] \in {Start, Failed, AnyHeld}
  /\ Applies(r, in) => t[Len(ops)] # Failed
  /\ Plain(r) /\ t[Len(ops)] # Failed => Applies(r, in)
  /\ t[Len(ops)] = AnyHeld => r.conditions # <<>> /\ Long(Ending(r))
  /\ r.conditions = <<>> => ops = <<>>
  /\ r.conditions # <<>> /\ ops # <<>> /\ ~Ending(r).negate => Harmless(t, ops, in)

(* A rule q has one condition c more than r.                                 *)
Longer(q, r, c) == q.conditions = Append(r.conditions, c)

LEMMA LongerFacts ==
  ASSUME NEW r, r.conditions \in Seq(Conditions), NEW c \in Conditions, NEW q, Longer(q, r, c),
         NEW in
  PROVE  /\ Applies(q, in) <=> Applies(r, in) /\ Holds(c, in)
         /\ q.conditions # <<>> /\ Ending(q) = c
         /\ Plain(q) => Plain(r)
         /\ Positive(q) => Positive(r)
         /\ Plain(q) \/ Positive(q) => ~(r.conditions # <<>> /\ Long(Ending(r)))
         /\ Plain(q) \/ Positive(q) =>
              (c.kind = "string" /\ OnlyWild(c.pattern) =>
                 ~c.negate /\ (r.conditions # <<>> => ~Ending(r).negate))
         /\ Plain(q) /\ c.kind = "string" => c.pattern # <<>> /\ QuestionMarks(c.pattern) = {}
         /\ Positive(q) /\ c.kind = "string" => ~c.negate
         /\ (Plain(q) \/ Positive(q)) /\ c.kind = "string" /\ Len(c.pattern) \in Nat => Readable(c.pattern)
<1> DEFINE n == Len(r.conditions)
<1>1. /\ n \in Nat /\ Len(q.conditions) = n + 1 /\ q.conditions[n + 1] = c
      /\ \A i \in 1..n : q.conditions[i] = r.conditions[i]
      /\ q.conditions # <<>> /\ (r.conditions # <<>> => n > 0)
  BY DEF Longer
<1> HIDE DEF n
<1>2. /\ \A i : i \in 1..(n + 1) <=> i \in 1..n \/ i = n + 1
      /\ \A i \in 1..n : i # n + 1 /\ (i > 1 => i - 1 \in 1..n)
      /\ n > 0 => n \in 1..n /\ n + 1 > 1
      /\ (n + 1) - 1 = n /\ n + 1 \in 1..(n + 1)
  BY <1>1
<1>3. Applies(q, in) <=> Applies(r, in) /\ Holds(c, in)
  BY <1>1, <1>2 DEF Applies, n
<1>4. Ending(q) = c
  BY <1>1 DEF Ending
<1>5. ASSUME Plain(q)
      PROVE  /\ Plain(r) /\ ~(r.conditions # <<>> /\ Long(Ending(r)))
             /\ c.kind = "string" =>
                  /\ c.pattern # <<>> /\ QuestionMarks(c.pattern) = {}
                  /\ OnlyWild(c.pattern) => ~c.negate /\ (r.conditions # <<>> => ~Ending(r).negate)
  <2>1. \A i \in 1..n : r.conditions[i].kind = "string" =>
          /\ r.conditions[i].pattern # <<>> /\ QuestionMarks(r.conditions[i].pattern) = {}
          /\ ~(r.conditions[i].negate /\ Pieces(r.conditions[i].pattern) > 1)
          /\ OnlyWild(r.conditions[i].pattern) =>
               ~r.conditions[i].negate /\ (i > 1 => ~r.conditions[i - 1].negate)
    <3> SUFFICES ASSUME NEW i \in 1..n, r.conditions[i].kind = "string"
                 PROVE  /\ r.conditions[i].pattern # <<>> /\ QuestionMarks(r.conditions[i].pattern) = {}
                        /\ ~(r.conditions[i].negate /\ Pieces(r.conditions[i].pattern) > 1)
                        /\ OnlyWild(r.conditions[i].pattern) =>
                             ~r.conditions[i].negate /\ (i > 1 => ~r.conditions[i - 1].negate)
      OBVIOUS
    <3>1. i \in 1..(n + 1) /\ i # n + 1 /\ q.conditions[i] = r.conditions[i]
      BY <1>1, <1>2
    <3>2. i > 1 => q.conditions[i - 1] = r.conditions[i - 1]
      BY <1>1, <1>2
    <3> QED
      BY <1>1, <1>5, <3>1, <3>2 DEF Plain
  <2>2. Plain(r)
    BY <2>1 DEF Plain, n
  <2>3. ~(r.conditions # <<>> /\ Long(Ending(r)))
    BY <1>1, <1>2, <2>1 DEF Long, Ending, n
  <2>4. c.kind = "string" =>
          /\ c.pattern # <<>> /\ QuestionMarks(c.pattern) = {}
          /\ OnlyWild(c.pattern) => ~c.negate /\ (n + 1 > 1 => ~q.conditions[(n + 1) - 1].negate)
    BY <1>1, <1>2, <1>5 DEF Plain
  <2>5. r.conditions # <<>> => q.conditions[(n + 1) - 1] = Ending(r) /\ n + 1 > 1
    BY <1>1, <1>2 DEF Ending, n
  <2> QED
    BY <2>2, <2>3, <2>4, <2>5
<1>6. ASSUME Positive(q)
      PROVE  /\ Positive(r) /\ ~(r.conditions # <<>> /\ Long(Ending(r)))
             /\ c.kind = "string" =>
                  /\ ~c.negate /\ Len(c.pattern) < kSeekToEnd
                  /\ \A a \in QuestionMarks(c.pattern), b \in Asterisks(c.pattern) : a < b
                  /\ OnlyWild(c.pattern) => (r.conditions # <<>> => ~Ending(r).negate)
  <2>1. \A i \in 1..n : r.conditions[i].kind = "string" =>
          /\ ~r.conditions[i].negate /\ Len(r.conditions[i].pattern) < kSeekToEnd
          /\ \A a \in QuestionMarks(r.conditions[i].pattern),
                b \in Asterisks(r.conditions[i].pattern) : a < b
          /\ OnlyWild(r.conditions[i].pattern) => (i > 1 => ~r.conditions[i - 1].negate)
    <3> SUFFICES ASSUME NEW i \in 1..n, r.conditions[i].kind = "string"
                 PROVE  /\ ~r.conditions[i].negate /\ Len(r.conditions[i].pattern) < kSeekToEnd
                        /\ \A a \in QuestionMarks(r.conditions[i].pattern),
                              b \in Asterisks(r.conditions[i].pattern) : a < b
                        /\ OnlyWild(r.conditions[i].pattern) => (i > 1 => ~r.conditions[i - 1].negate)
      OBVIOUS
    <3>1. i \in 1..(n + 1) /\ q.conditions[i] = r.conditions[i]
      BY <1>1, <1>2
    <3>2. i > 1 => q.conditions[i - 1] = r.conditions[i - 1]
      BY <1>1, <1>2
    <3> QED
      BY <1>1, <1>6, <3>1, <3>2 DEF Positive
  <2>2. Positive(r)
    BY <2>1 DEF Positive, n
  <2>3. ~(r.conditions # <<>> /\ Long(Ending(r)))
    BY <1>1, <1>2, <2>1 DEF Long, Ending, n
  <2>4. c.kind = "string" =>
          /\ ~c.negate /\ Len(c.pattern) < kSeekToEnd
          /\ \A a \in QuestionMarks(c.pattern), b \in Asterisks(c.pattern) : a < b
          /\ OnlyWild(c.pattern) => (n + 1 > 1 => ~q.conditions[(n + 1) - 1].negate)
    BY <1>1, <1>2, <1>6 DEF Positive
  <2>5. r.conditions # <<>> => q.conditions[(n + 1) - 1] = Ending(r) /\ n + 1 > 1
    BY <1>1, <1>2 DEF Ending, n
  <2> QED
    BY <2>2, <2>3, <2>4, <2>5
<1>7. (Plain(q) \/ Positive(q)) /\ c.kind = "string" /\ Len(c.pattern) \in Nat => Readable(c.pattern)
  BY <1>5, <1>6 DEF Readable
<1> QED
  BY <1>1, <1>3, <1>4, <1>5, <1>6, <1>7

(* A condition on a number adds one opcode, which does not move.             *)
LEMMA NumberStates ==
  ASSUME NEW c \in NumberMatches, NEW in \in Calls,
         NEW op, op = NumberOpcode(c.kind, c.num, IF c.negate THEN {"negate"} ELSE {})
  PROVE  /\ StepOf(Start, op, in) = IF Holds(c, in) THEN Start ELSE Failed
         /\ ~c.negate => \A f \in {Start, Failed} :
              StepOf(f, [op EXCEPT !.options = {"clear"}], in) = StepOf(f, op, in)
<1>0. c \in Conditions /\ c.kind \in {"equal", "and"} /\ c.negate \in BOOLEAN
  BY DEF Conditions, NumberMatches
<1> DEFINE new == [op EXCEPT !.options = {"clear"}]
<1>1. /\ op.kind = c.kind /\ op.num = c.num /\ op.options = IF c.negate THEN {"negate"} ELSE {}
      /\ new.kind = c.kind /\ new.num = c.num /\ new.options = {"clear"}
  BY DEF NumberOpcode
<1>2. Start.mode = "all" /\ Start.at = 0 /\ Start = Mode("all", 0)
  BY DEF Start, Mode
<1>3. /\ c.kind = "equal" => (Holds(c, in) <=> ~(c.negate <=> in.num = c.num))
      /\ c.kind = "and" => (Holds(c, in) <=> ~(c.negate <=> in.num \cap c.num # {}))
  BY <1>0, HoldsFacts
<1> HIDE DEF new
<1>4. ASSUME NEW o, o.kind = c.kind, o.num = c.num, "or" \notin o.options
      PROVE  /\ ~AnyMode(o, Start) /\ AdvanceAt(o, in, 0) = 0
             /\ ValueAt(o, in, 0) <=> ~("negate" \in o.options <=> (c.negate <=> ~Holds(c, in)))
             /\ StepOf(Start, o, in) = IF ValueAt(o, in, 0) THEN Start ELSE Failed
  <2>1. ~AnyMode(o, Start) /\ AdvanceAt(o, in, 0) = 0
    BY <1>0, <1>2, <1>4 DEF AnyMode, AdvanceAt
  <2>2. EvalAt(o, in, 0) <=> (c.negate <=> ~Holds(c, in))
    BY <1>0, <1>3, <1>4 DEF EvalAt
  <2>3. ValueAt(o, in, 0) <=> ~("negate" \in o.options <=> (c.negate <=> ~Holds(c, in)))
    BY <2>2 DEF ValueAt
  <2>4. StepOf(Start, o, in) = IF ValueAt(o, in, 0) THEN Start ELSE Failed
    BY <1>2, <2>1 DEF StepOf
  <2> QED
    BY <2>1, <2>3, <2>4
<1>5. /\ "or" \notin op.options /\ "or" \notin new.options /\ "negate" \notin new.options
      /\ "negate" \in op.options <=> c.negate
  BY <1>1
<1>6. StepOf(Start, op, in) = IF Holds(c, in) THEN Start ELSE Failed
  <2>1. ValueAt(op, in, 0) <=> Holds(c, in)
    BY <1>0, <1>1, <1>4, <1>5
  <2> QED
    BY <1>1, <1>4, <1>5, <2>1
<1>7. ASSUME ~c.negate PROVE StepOf(Start, new, in) = StepOf(Start, op, in)
  <2>1. ValueAt(new, in, 0) <=> ValueAt(op, in, 0)
    BY <1>1, <1>4, <1>5, <1>7
  <2> QED
    BY <1>1, <1>4, <1>5, <2>1
<1> QED
  BY <1>6, <1>7, SkippedStep DEF new

LEMMA NumberDecides ==
  ASSUME NEW r, r.conditions \in Seq(Conditions), NEW c \in NumberMatches, NEW q, Longer(q, r, c),
         Plain(q) \/ Positive(q), NEW in \in Calls,
         NEW ops \in Seq(ConditionOpcodes), \E t : Decides(t, r, ops, in),
         NEW op \in ConditionOpcodes,
         op = NumberOpcode(c.kind, c.num, IF c.negate THEN {"negate"} ELSE {})
  PROVE  \E u : Decides(u, q, Append(ops, op), in)
<1> DEFINE n == Len(ops)
           out == Append(ops, op)
<1>1. PICK t : Decides(t, r, ops, in)
  OBVIOUS
<1> DEFINE f == t[n]
           g == StepOf(f, op, in)
           c2 == [k \in n..(n + 1) |-> IF k = n THEN f ELSE g]
<1>2. c \in Conditions
  BY DEF Conditions
<1>3. /\ Applies(q, in) <=> Applies(r, in) /\ Holds(c, in)
      /\ q.conditions # <<>> /\ Ending(q) = c
      /\ Plain(q) => Plain(r)
      /\ ~(r.conditions # <<>> /\ Long(Ending(r)))
  BY <1>2, LongerFacts
<1>4. f \in {Start, Failed}
  BY <1>1, <1>3 DEF Decides
<1>5. g \in {Start, Failed} /\ (g # Failed <=> f # Failed /\ Holds(c, in))
  <2>1. Start # Failed
    BY DEF Start, Failed, Mode
  <2>2. StepOf(Start, op, in) = IF Holds(c, in) THEN Start ELSE Failed
    BY NumberStates
  <2>3. StepOf(Failed, op, in) = Failed
    BY SkippedStep
  <2> HIDE DEF f
  <2> QED
    BY <1>4, <2>1, <2>2, <2>3
<1>6. n \in Nat /\ Len(out) = n + 1 /\ out[n + 1] = op /\ \A k \in 1..n : out[k] = ops[k]
  OBVIOUS
<1>7. c2[n] = f /\ c2[n + 1] = g
  <2>1. n \in n..(n + 1) /\ n + 1 \in n..(n + 1) /\ n + 1 # n
    BY <1>6
  <2> QED
    BY <2>1
<1> HIDE DEF f, g, c2, out, n
<1>8. GoesOn(c2, out, n, in)
  <2>1. \A k \in (n + 1)..(n + 1) : k = n + 1 /\ k - 1 = n
    BY <1>6
  <2> QED
    BY <1>6, <1>7, <2>1 DEF GoesOn, g
<1>9. PICK u : Trace(u, out, in) /\ u[n + 1] = g /\ u[n] = f
  <2>1. Len(out) \in Nat /\ Len(out) >= n /\ Len(out) > n /\ Len(out) - 1 = n /\ Len(ops) = n
    BY <1>6 DEF n
  <2>2. Trace(t, ops, in) /\ c2[n] = t[n]
    BY <1>1, <1>7 DEF Decides, f
  <2>3. \E u : /\ Trace(u, out, in) /\ u[Len(out)] = c2[Len(out)]
               /\ Len(out) > n => u[Len(out) - 1] = c2[Len(out) - 1]
    <3>1. n \in Nat /\ Len(ops) = n /\ Len(out) \in Nat /\ Len(out) >= n
      BY <1>6, <2>1
    <3>2. \A k \in 1..n : out[k] = ops[k]
      BY <1>6
    <3>3. GoesOn(c2, out, n, in) /\ Trace(t, ops, in) /\ c2[n] = t[n]
      BY <1>8, <2>2
    <3> QED
      BY <3>1, <3>2, <3>3, TraceGoesOn
  <2> QED
    BY <1>6, <1>7, <2>1, <2>3
<1>10. ~c.negate => Harmless(u, out, in)
  <2>1. (n + 1) - 1 = n
    BY <1>6
  <2>2. ~c.negate => StepOf(f, [op EXCEPT !.options = {"clear"}], in) = StepOf(f, op, in)
    BY <1>4, NumberStates
  <2> QED
    BY <1>6, <1>9, <2>1, <2>2 DEF Harmless, g
<1>11. /\ Applies(r, in) => f # Failed
       /\ Plain(r) /\ f # Failed => Applies(r, in)
  BY <1>1 DEF Decides, f, n
<1>12. AnyHeld \notin {Start, Failed}
  BY DEF AnyHeld, Start, Failed, Mode
<1>13. Decides(u, q, out, in)
  BY <1>3, <1>5, <1>6, <1>9, <1>10, <1>11, <1>12 DEF Decides
<1> QED
  BY <1>13 DEF out

(* A pattern of a single wildcard changes nothing, or labels again the       *)
(* opcode of the condition before.                                           *)
LEMMA SettledDecides ==
  ASSUME NEW r, r.conditions \in Seq(Conditions), NEW c \in StringMatches, NEW q, Longer(q, r, c),
         Plain(q) \/ Positive(q), NEW in \in Calls,
         NEW ops \in Seq(ConditionOpcodes), \E t : Decides(t, r, ops, in),
         NEW out, Settled(out, ops, c.negate, c.pattern, in.str)
  PROVE  \E u : Decides(u, q, out, in)
<1> DEFINE n == Len(ops)
<1>1. PICK t : Decides(t, r, ops, in)
  OBVIOUS
<1> DEFINE f == t[n]
<1>2. c \in Conditions /\ c.kind = "string" /\ OnlyWild(c.pattern)
  BY DEF Conditions, StringMatches, Settled
<1>3. /\ Applies(q, in) <=> Applies(r, in) /\ Holds(c, in)
      /\ q.conditions # <<>> /\ Ending(q) = c
      /\ Plain(q) => Plain(r) /\ c.pattern # <<>> /\ QuestionMarks(c.pattern) = {}
      /\ ~(r.conditions # <<>> /\ Long(Ending(r)))
      /\ ~c.negate /\ (r.conditions # <<>> => ~Ending(r).negate)
  BY <1>2, LongerFacts
<1>4. Plain(q) => Holds(c, in)
  BY <1>2, <1>3, HoldsFacts DEF Settled
<1>5. f \in {Start, Failed} /\ f # AnyHeld
  <2>1. AnyHeld \notin {Start, Failed}
    BY DEF AnyHeld, Start, Failed, Mode
  <2> QED
    BY <1>1, <1>3, <2>1 DEF Decides
<1>6. /\ Applies(q, in) => f # Failed
      /\ Plain(q) /\ f # Failed => Applies(q, in)
  BY <1>1, <1>3, <1>4 DEF Decides
<1>7. ops # <<>> => Harmless(t, ops, in)
  BY <1>1, <1>3 DEF Decides
<1>8. CASE out = ops
  <2>1. Decides(t, q, ops, in)
    BY <1>1, <1>3, <1>5, <1>6, <1>7 DEF Decides
  <2> QED
    BY <1>8, <2>1
<1>9. CASE ops # <<>> /\ out = Relabelled(ops, StringOptions(c.negate, TRUE))
  <2>1. out = Relabelled(ops, {"clear"}) /\ {"clear"} \in SUBSET Options
    BY <1>3, <1>9, OptionFacts DEF StringMatches, Options
  <2>2. /\ Len(out) = n /\ out[n] = [ops[n] EXCEPT !.options = {"clear"}] /\ out[n].options = {"clear"}
        /\ \A k \in 1..n : k # n => out[k] = ops[k]
    <3> DEFINE new == Relabelled(ops, {"clear"})
    <3>1. /\ Len(new) = n /\ new[n] = [ops[n] EXCEPT !.options = {"clear"}]
          /\ new[n].options = {"clear"}
          /\ \A k \in 1..n : k # n => new[k] = ops[k]
      BY <1>9, <2>1, RelabelledFacts
    <3> HIDE DEF new
    <3> QED
      BY <2>1, <3>1 DEF new
  <2>3. StepOf(t[n - 1], out[n], in) = t[n]
    BY <1>7, <1>9, <2>2 DEF Harmless
  <2> HIDE DEF n
  <2>4. Trace(t, out, in)
    <3>1. \A k \in 1..n : t[k] = StepOf(t[k - 1], ops[k], in)
      BY <1>1 DEF Decides, Trace, n
    <3>2. \A k \in 1..n : t[k] = StepOf(t[k - 1], out[k], in)
      BY <2>2, <2>3, <3>1
    <3> QED
      BY <1>1, <2>2, <3>2 DEF Decides, Trace
  <2>5. Harmless(t, out, in)
    <3>1. [out[n] EXCEPT !.options = {"clear"}] = out[n]
      <4>1. n \in 1..n
        BY <1>9 DEF n
      <4>2. ops[n] \in ConditionOpcodes
        BY <4>1 DEF n
      <4> DEFINE op == ops[n]
      <4> HIDE DEF op
      <4>3. op \in Opcodes
        BY <4>2 DEF op, ConditionOpcodes
      <4>4. LET new == [op EXCEPT !.options = {"clear"}]
            IN  [new EXCEPT !.options = {"clear"}] = new
        BY <4>3 DEF Opcodes
      <4> QED
        BY <2>2, <4>4 DEF op
    <3> QED
      BY <2>2, <2>3, <3>1 DEF Harmless
  <2>6. Decides(t, q, out, in)
    BY <1>3, <1>5, <1>6, <2>2, <2>4, <2>5 DEF Decides
  <2> QED
    BY <2>6
<1> QED
  BY <1>8, <1>9 DEF Settled

(* A pattern with fragments adds an opcode for each of them.                 *)
StatesEnd(u, out, n, negate, p, in) ==
  LET g == u[Len(out)]
  IN  /\ Trace(u, out, in) /\ g \in {Start, Failed, AnyHeld}
      /\ g = AnyHeld => negate /\ Len(out) > n + 1
      /\ ~(negate <=> Matches(p, in.str)) => g # Failed
      /\ QuestionMarks(p) = {} /\ g # Failed => ~(negate <=> Matches(p, in.str))

LEMMA BlockStates ==
  ASSUME NEW before \in Seq(ConditionOpcodes), NEW out \in Seq(ConditionOpcodes),
         NEW negate \in BOOLEAN, Block(out, before, negate), NEW in, NEW S, in.str \in Seq(S),
         NEW p, SearchFor(out, Len(before), in.str, p), negate => QuestionMarks(p) = {},
         NEW t, Trace(t, before, in), t[Len(before)] = Start
  PROVE  \E u : StatesEnd(u, out, Len(before), negate, p, in)
<1> DEFINE n == Len(before)
           l == Len(out)
           s == in.str
<1>0. /\ n \in Nat /\ l \in Nat /\ l > n /\ l >= n /\ \A k \in 1..n : out[k] = before[k]
  BY DEF Block
<1>1. PICK w : /\ Chain(w, out, n, s)
               /\ Matches(p, s) => w[l] # Lost
               /\ QuestionMarks(p) = {} /\ w[l] # Lost => Matches(p, s)
  BY DEF SearchFor
<1>2. Start # Failed /\ AnyHeld # Failed /\ AnyHeld # Start
  BY DEF Start, Failed, AnyHeld, Mode
<1>3. ASSUME NEW c, GoesOn(c, out, n, in), c[n] = Start
      PROVE  \E u : Trace(u, out, in) /\ u[l] = c[l]
  <2>1. n \in Nat /\ Len(before) = n /\ Len(out) \in Nat /\ Len(out) >= n
    BY <1>0
  <2>2. \A k \in 1..n : out[k] = before[k]
    BY <1>0
  <2>3. GoesOn(c, out, n, in) /\ Trace(t, before, in) /\ c[n] = t[n]
    BY <1>3
  <2> HIDE DEF n
  <2> QED
    BY <2>1, <2>2, <2>3, TraceGoesOn
<1>4. CASE ~negate
  <2>1. Block(out, before, FALSE)
    BY <1>4
  <2> DEFINE c == AffirmedStates(w, n, l)
  <2>2. GoesOn(c, out, n, in) /\ c[n] = Start /\ c[l] = IF w[l] = Lost THEN Failed ELSE Start
    BY <1>1, <2>1, AffirmedGoesOn
  <2> HIDE DEF c
  <2>3. PICK u : Trace(u, out, in) /\ u[l] = c[l]
    BY <1>3, <2>2
  <2> QED
    BY <1>1, <1>2, <1>4, <2>2, <2>3 DEF StatesEnd
<1>5. CASE negate
  <2>1. Block(out, before, TRUE)
    BY <1>5
  <2> DEFINE c == NegatedStates(w, n, l)
  <2>2. GoesOn(c, out, n, in) /\ c[n] = Start /\ c[l] = NegatedEnd(w, l)
    BY <1>1, <2>1, NegatedGoesOn
  <2> HIDE DEF c
  <2>3. PICK u : Trace(u, out, in) /\ u[l] = c[l]
    BY <1>3, <2>2
  <2>4. w[l - 1] = Lost => w[l] = Lost /\ l > n + 1
    <3>1. l \in (n + 1)..l
      BY <1>0
    <3>2. w[n] = 0 /\ w[l] = After(out[l], s, w[l - 1])
      BY <1>1, <3>1 DEF Chain
    <3>3. w[l - 1] = Lost => l - 1 # n
      BY <3>2 DEF Lost
    <3>4. w[l - 1] = Lost => l > n + 1
      <4> HIDE DEF l, n
      <4> QED
        BY <1>0, <3>3
    <3> QED
      BY <3>2, <3>4 DEF After
  <2> HIDE DEF l, n
  <2> QED
    BY <1>1, <1>2, <1>5, <2>2, <2>3, <2>4 DEF l, n, StatesEnd, NegatedEnd
<1> QED
  BY <1>4, <1>5

LEMMA BlockDecides ==
  ASSUME NEW r, r.conditions \in Seq(Conditions), NEW c \in StringMatches, NEW q, Longer(q, r, c),
         Plain(q) \/ Positive(q), NEW in \in Calls,
         NEW ops \in Seq(ConditionOpcodes), \E t : Decides(t, r, ops, in),
         NEW out \in Seq(ConditionOpcodes), Block(out, ops, c.negate),
         SearchFor(out, Len(ops), in.str, c.pattern),
         Len(out) > Len(ops) + 1 => Pieces(c.pattern) > 1
  PROVE  \E u : Decides(u, q, out, in)
<1> DEFINE n == Len(ops)
           l == Len(out)
           S == {in.str[i] : i \in DOMAIN in.str}
<1>0. n \in Nat /\ l \in Nat /\ l > n /\ c.negate \in BOOLEAN /\ in.str \in Seq(S)
      /\ \A k \in 1..n : out[k] = ops[k]
  BY PatternsAssumption DEF Block, StringMatches, Calls
<1> HIDE DEF S
<1>1. PICK t : Decides(t, r, ops, in)
  OBVIOUS
<1> DEFINE f == t[n]
<1>2. c \in Conditions /\ c.kind = "string"
  BY DEF Conditions, StringMatches
<1>3. /\ Applies(q, in) <=> Applies(r, in) /\ Holds(c, in)
      /\ q.conditions # <<>> /\ Ending(q) = c
      /\ Plain(q) => Plain(r) /\ QuestionMarks(c.pattern) = {}
      /\ ~(r.conditions # <<>> /\ Long(Ending(r)))
      /\ Positive(q) => ~c.negate
  BY <1>2, LongerFacts
<1>4. Holds(c, in) <=> ~(c.negate <=> Matches(c.pattern, in.str))
  BY <1>2, HoldsFacts
<1>5. Start # Failed /\ AnyHeld # Failed /\ AnyHeld # Start
  BY DEF Start, Failed, AnyHeld, Mode
<1>6. /\ f \in {Start, Failed} /\ Trace(t, ops, in)
      /\ Applies(r, in) => f # Failed
      /\ Plain(r) /\ f # Failed => Applies(r, in)
  BY <1>1, <1>3 DEF Decides
<1>7. \E u : LET g == u[l]
             IN  /\ Trace(u, out, in) /\ g \in {Start, Failed, AnyHeld}
                 /\ g = AnyHeld => c.negate /\ l > n + 1
                 /\ f # Failed /\ Holds(c, in) => g # Failed
                 /\ Plain(q) /\ g # Failed => f # Failed /\ Holds(c, in)
  <2>1. CASE f = Start
    <3>1. \E u : StatesEnd(u, out, n, c.negate, c.pattern, in)
      <4>1. c.negate => QuestionMarks(c.pattern) = {}
        BY <1>3
      <4>2. Trace(t, ops, in) /\ t[Len(ops)] = Start
        BY <1>6, <2>1
      <4> HIDE DEF f
      <4> QED
        BY <1>0, <4>1, <4>2, BlockStates
    <3> QED
      BY <1>3, <1>4, <1>5, <2>1, <3>1 DEF StatesEnd
  <2>2. CASE f = Failed
    <3> DEFINE d == [k \in n..l |-> Failed]
    <3>1. GoesOn(d, out, n, in) /\ d[n] = Failed /\ d[l] = Failed
      <4>1. n \in n..l /\ l \in n..l
        BY <1>0
      <4>2. GoesOn(d, out, n, in)
        BY <1>0, DecidedGoesOn
      <4> QED
        BY <4>1, <4>2
    <3> HIDE DEF d
    <3>2. \E u : /\ Trace(u, out, in) /\ u[Len(out)] = d[Len(out)]
                 /\ Len(out) > n => u[Len(out) - 1] = d[Len(out) - 1]
      <4>1. n \in Nat /\ Len(ops) = n /\ Len(out) \in Nat /\ Len(out) >= n
        BY <1>0
      <4>2. \A k \in 1..n : out[k] = ops[k]
        BY <1>0
      <4>3. GoesOn(d, out, n, in) /\ Trace(t, ops, in) /\ d[n] = t[n]
        BY <1>6, <2>2, <3>1
      <4> HIDE DEF n
      <4> QED
        BY <4>1, <4>2, <4>3, TraceGoesOn
    <3> QED
      BY <1>5, <2>2, <3>1, <3>2
  <2> QED
    BY <1>6, <2>1, <2>2
<1>8. PICK u : LET g == u[l]
               IN  /\ Trace(u, out, in) /\ g \in {Start, Failed, AnyHeld}
                   /\ g = AnyHeld => c.negate /\ l > n + 1
                   /\ f # Failed /\ Holds(c, in) => g # Failed
                   /\ Plain(q) /\ g # Failed => f # Failed /\ Holds(c, in)
  BY <1>7
<1>9. ~c.negate => Harmless(u, out, in)
  <2> SUFFICES ASSUME ~c.negate PROVE Harmless(u, out, in)
    OBVIOUS
  <2>1. l \in 1..l /\ l \in (n + 1)..l
    BY <1>0
  <2> DEFINE op == out[l]
  <2>2. op \in Opcodes
    BY <2>1 DEF ConditionOpcodes
  <2>3. op.options = {"clear"}
    <3>1. op.options = StringOptions(c.negate, l = l)
      BY <2>1 DEF Block
    <3>2. c.negate = FALSE /\ (l = l) = TRUE
      BY <1>0
    <3> HIDE DEF op
    <3> QED
      BY <3>1, <3>2, OptionFacts
  <2>4. u[l] = StepOf(u[l - 1], op, in)
    BY <1>8, <2>1 DEF Trace
  <2> HIDE DEF op
  <2>5. [op EXCEPT !.options = {"clear"}] = op
    BY <2>2, <2>3 DEF Opcodes
  <2> QED
    BY <2>4, <2>5 DEF Harmless, op
<1>10. u[l] = AnyHeld => Long(c)
  BY <1>2, <1>8 DEF Long
<1>11. Decides(u, q, out, in)
  BY <1>3, <1>6, <1>8, <1>9, <1>10 DEF Decides
<1> QED
  BY <1>11

LEMMA StringDecides ==
  ASSUME NEW r, r.conditions \in Seq(Conditions), NEW c \in StringMatches, WellFormed(c.pattern),
         NEW q, Longer(q, r, c), Plain(q) \/ Positive(q), NEW in \in Calls,
         NEW ops \in Seq(ConditionOpcodes), \E t : Decides(t, r, ops, in)
  PROVE  \E u : Decides(u, q, Generated(ops, c.negate, c.pattern).opcodes, in)
<1> DEFINE out == Generated(ops, c.negate, c.pattern).opcodes
<1>1. c \in Conditions /\ c.kind = "string" /\ c.pattern \in Patterns /\ c.negate \in BOOLEAN
      /\ in.str \in Strings
  BY DEF Conditions, StringMatches, Calls
<1>2. out \in Seq(ConditionOpcodes)
  BY <1>1, GeneratedRight
<1>3. Readable(c.pattern)
  BY <1>1, LongerFacts, Words
<1>4. \/ Settled(out, ops, c.negate, c.pattern, in.str)
      \/ /\ Block(out, ops, c.negate) /\ SearchFor(out, Len(ops), in.str, c.pattern)
         /\ Len(out) > Len(ops) + 1 => Pieces(c.pattern) > 1
  BY <1>1, <1>3, ConditionMeans
<1> HIDE DEF out
<1>5. ASSUME Settled(out, ops, c.negate, c.pattern, in.str) PROVE \E u : Decides(u, q, out, in)
  BY <1>5, SettledDecides
<1>6. ASSUME Block(out, ops, c.negate), SearchFor(out, Len(ops), in.str, c.pattern),
             Len(out) > Len(ops) + 1 => Pieces(c.pattern) > 1
      PROVE  \E u : Decides(u, q, out, in)
  BY <1>2, <1>6, BlockDecides
<1>7. \E u : Decides(u, q, out, in)
  BY <1>4, <1>5, <1>6
<1> QED
  BY <1>7 DEF out

-----------------------------------------------------------------------------
(* The rules of the engine, and where their opcodes lie in the policy: those *)
(* of rule i behind the first b[i - 1].                                      *)
Shape(r) == Plain(r) \/ Positive(r)
Decided(r, ops) == \A in \in Calls : Shape(r) => \E t : Decides(t, r, ops, in)
WrittenAs(r, ops) ==
  ops \in Seq(ConditionOpcodes) /\ r.opcodes = Append(ops, ActionOpcode(r.action))

Lies(ops, pol, n) == \A k \in 1..Len(ops) : pol[n + k] = ops[k]
Layout(b, rs, pol) ==
  /\ b \in [0..Len(rs) -> Nat] /\ b[0] = 0 /\ Len(pol) = b[Len(rs)]
  /\ \A i \in 1..Len(rs) : /\ b[i] = b[i - 1] + Len(rs[i].opcodes) /\ b[i] <= Len(pol)
                           /\ Lies(rs[i].opcodes, pol, b[i - 1])

LEMMA LiesFacts ==
  ASSUME NEW X, NEW s \in Seq(X), NEW t \in Seq(X), NEW ops, Len(ops) \in Nat, NEW n \in Nat
  PROVE  /\ Lies(ops, s, n) /\ n + Len(ops) <= Len(s) => Lies(ops, s \o t, n)
         /\ Lies(t, s \o t, Len(s))
<1>1. Len(s) \in Nat /\ Len(t) \in Nat
  OBVIOUS
<1>2. ASSUME n + Len(ops) <= Len(s), NEW k \in 1..Len(ops) PROVE (s \o t)[n + k] = s[n + k]
  <2> DEFINE l == Len(ops)
  <2> HIDE DEF l
  <2>1. n + k \in 1..Len(s)
    BY <1>1, <1>2 DEF l
  <2> QED
    BY <2>1
<1>3. ASSUME NEW k \in 1..Len(t) PROVE (s \o t)[Len(s) + k] = t[k]
  OBVIOUS
<1> QED
  BY <1>2, <1>3 DEF Lies

LEMMA LaidOutLayout ==
  ASSUME rules \in Seq([action : Actions, conditions : Seq(Conditions), opcodes : Ended])
  PROVE  \E b : Layout(b, rules, LaidOut)
<1> DEFINE n == Len(rules)
           S == Seq(AnyOpcode)
           step == [q \in (1..n) \X S |-> q[2] \o rules[q[1]].opcodes]
           R == [action : Actions, conditions : Seq(Conditions), opcodes : Ended]
<1>0. n \in Nat /\ \A i \in 1..n : rules[i].opcodes \in S
  <2>1. \A r \in R : r.opcodes \in S
    BY DEF Ended
  <2>2. rules \in Seq(R)
    OBVIOUS
  <2> HIDE DEF R
  <2>3. n \in Nat /\ \A i \in 1..n : rules[i] \in R
    BY <2>2
  <2> QED
    BY <2>1, <2>3
<1>1. <<>> \in S
  OBVIOUS
<1>2. step \in [(1..n) \X S -> S]
  <2>1. ASSUME NEW q \in (1..n) \X S PROVE q[2] \o rules[q[1]].opcodes \in S
    <3>1. q[2] \in S /\ rules[q[1]].opcodes \in S
      BY <1>0
    <3> QED
      BY <3>1
  <2> QED
    BY <2>1
<1>3. \A i \in 1..n, s \in S : step[<<i, s>>] = s \o rules[i].opcodes
  OBVIOUS
<1>4. \A s \in S, t \in S : s \o t \in S /\ Len(s \o t) = Len(s) + Len(t) /\ Len(s) \in Nat
  OBVIOUS
<1> HIDE DEF step, n, S
<1>5. PICK f \in [0..n -> S] : f = [i \in 0..n |-> IF i = 0 THEN <<>> ELSE f[i - 1] \o rules[i].opcodes]
  <2>1. PICK f \in [0..n -> S] : IsRecursion(f, n, <<>>, step)
    BY <1>0, <1>1, <1>2, Recursion
  <2>2. \A i \in 0..n : (IF i = 0 THEN <<>> ELSE step[<<i, f[i - 1]>>])
                          = (IF i = 0 THEN <<>> ELSE f[i - 1] \o rules[i].opcodes)
    <3> SUFFICES ASSUME NEW i \in 0..n, i # 0 PROVE step[<<i, f[i - 1]>>] = f[i - 1] \o rules[i].opcodes
      OBVIOUS
    <3>1. i \in 1..n /\ i - 1 \in 0..n
      BY <1>0
    <3> QED
      BY <1>3, <2>1, <3>1
  <2>3. f = [i \in 0..n |-> IF i = 0 THEN <<>> ELSE f[i - 1] \o rules[i].opcodes]
    BY <2>1, <2>2 DEF IsRecursion
  <2> QED
    BY <2>1, <2>3
<1> DEFINE upto == CHOOSE g : g = [i \in 0..n |-> IF i = 0 THEN <<>> ELSE g[i - 1] \o rules[i].opcodes]
<1>6. upto = [i \in 0..n |-> IF i = 0 THEN <<>> ELSE upto[i - 1] \o rules[i].opcodes]
  BY <1>5
<1>7. LaidOut = upto[n]
  BY DEF LaidOut, n
<1> HIDE DEF upto
<1>8. \A i \in 0..n : upto[i] = IF i = 0 THEN <<>> ELSE upto[i - 1] \o rules[i].opcodes
  BY <1>6
<1> DEFINE b == [i \in 0..n |-> Len(upto[i])]
           Holding(j) == /\ upto[j] \in S
                         /\ \A i \in 1..j : /\ b[i] = b[i - 1] + Len(rules[i].opcodes)
                                            /\ b[i] <= Len(upto[j])
                                            /\ Lies(rules[i].opcodes, upto[j], b[i - 1])
           G == {j \in 0..n : Holding(j)}
<1>9. 0 \in G
  <2>1. 0 \in 0..n /\ upto[0] = <<>>
    BY <1>0, <1>8
  <2>2. 1..0 = {}
    OBVIOUS
  <2> QED
    BY <1>1, <2>1, <2>2
<1>10. ASSUME NEW j \in 0..n, j > 0, j - 1 \in G PROVE j \in G
  <2>1. j \in 1..n /\ j - 1 \in 0..n /\ j # 0
    BY <1>0, <1>10
  <2> DEFINE s == upto[j - 1]
             t == rules[j].opcodes
  <2>2. upto[j] = s \o t /\ s \in S /\ t \in S
    BY <1>0, <1>8, <1>10, <2>1
  <2>3. b[j] = Len(upto[j]) /\ b[j - 1] = Len(s)
    BY <2>1
  <2>4. \A i \in 1..(j - 1) : /\ b[i] = b[i - 1] + Len(rules[i].opcodes) /\ b[i] <= Len(s)
                              /\ Lies(rules[i].opcodes, s, b[i - 1])
    BY <1>10
  <2>5. \A i \in 0..n : b[i] = Len(upto[i])
    OBVIOUS
  <2> HIDE DEF s, t, b
  <2>6. Len(s \o t) = Len(s) + Len(t) /\ Len(s) \in Nat /\ Len(t) \in Nat /\ s \o t \in S
    BY <1>4, <2>2
  <2>7. /\ b[j] = b[j - 1] + Len(t) /\ b[j] <= Len(s \o t) /\ Lies(t, s \o t, b[j - 1])
    <3>1. Lies(t, s \o t, Len(s))
      BY <2>2, <2>6, LiesFacts DEF S
    <3> QED
      BY <2>2, <2>3, <2>6, <3>1
  <2>8. ASSUME NEW i \in 1..(j - 1)
        PROVE  /\ b[i] = b[i - 1] + Len(rules[i].opcodes) /\ b[i] <= Len(s \o t)
               /\ Lies(rules[i].opcodes, s \o t, b[i - 1])
    <3> DEFINE o == rules[i].opcodes
               p == b[i - 1]
    <3>1. i \in 1..n /\ i \in 0..n /\ i - 1 \in 0..n /\ i - 1 \in 0..(j - 1)
      BY <1>0, <2>1
    <3>2. o \in S /\ Len(o) \in Nat
      BY <1>0, <1>4, <3>1
    <3>3. b[i] = p + Len(o) /\ b[i] <= Len(s) /\ Lies(o, s, p)
      BY <2>4
    <3>4. p \in Nat
      BY <2>5, <3>1
    <3> HIDE DEF o, p
    <3>5. Lies(o, s \o t, p)
      <4>1. p + Len(o) <= Len(s)
        BY <3>3
      <4> QED
        BY <2>2, <3>2, <3>3, <3>4, <4>1, LiesFacts DEF S
    <3>6. b[i] <= Len(s \o t)
      <4>1. b[i] \in Nat
        BY <3>2, <3>3, <3>4
      <4> QED
        BY <2>6, <3>3, <4>1
    <3> QED
      BY <3>3, <3>5, <3>6 DEF o, p
  <2>9. \A i \in 1..j : i = j \/ i \in 1..(j - 1)
    BY <2>1
  <2>10. Holding(j)
    BY <2>2, <2>6, <2>7, <2>8, <2>9 DEF t
  <2> QED
    BY <2>10
<1>11. \A j \in 0..n : Holding(j)
  <2>1. G \in SUBSET (0..n)
    OBVIOUS
  <2> HIDE DEF G
  <2>2. G = 0..n
    BY <1>0, <1>9, <1>10, <2>1, Segment
  <2> QED
    BY <2>2 DEF G
<1>12. \A i \in 0..n : b[i] = Len(upto[i]) /\ Len(upto[i]) \in Nat
  BY <1>4, <1>11
<1>13. b \in [0..n -> Nat]
  BY <1>12
<1>14. Holding(n) /\ b[n] = Len(upto[n]) /\ 0 \in 0..n /\ b[0] = Len(upto[0]) /\ upto[0] = <<>>
  <2>1. 0 \in 0..n /\ n \in 0..n
    BY <1>0
  <2>2. upto[0] = <<>>
    BY <1>8, <2>1
  <2> QED
    BY <1>11, <1>12, <2>1, <2>2
<1> HIDE DEF b
<1>15. b[0] = 0
  BY <1>14
<1>16. Layout(b, rules, upto[n])
  BY <1>13, <1>14, <1>15 DEF Layout, n
<1> QED
  BY <1>7, <1>16

(* While a rule is evaluated the processor is in the state u of its trace.   *)
Agrees(u) ==
  /\ u.mode \in {"all", "any", "failed", "settled"}
  /\ skip_group <=> u.mode \in {"failed", "settled"}
  /\ context.options = IF u.mode \in {"any", "settled"} THEN {"or"} ELSE {}
  /\ ~skip_group => context.position = u.at

LEMMA CurrentValue ==
  ASSUME EvalTyped, NEW op \in ConditionOpcodes
  PROVE  /\ OpcodeEval(op) <=> EvalAt(op, call, context.position)
         /\ Advance(op) = AdvanceAt(op, call, context.position)
<1> DEFINE at == context.position
           rest == Rested(call.str, at)
<1>1. Rest = rest
  BY DEF Rest, Rested
<1>2. at # Lost
  BY DEF EvalTyped, Lost
<1>3. op.kind \in {"string", "equal", "and"}
  BY DEF ConditionOpcodes, Opcodes
<1> HIDE DEF at, rest
<1>4. OpcodeEval(op) <=> EvalAt(op, call, at)
  BY <1>1, <1>3 DEF OpcodeEval, EvalAt, rest, at
<1>5. Advance(op) = AdvanceAt(op, call, at)
  BY <1>1, <1>2 DEF Advance, AdvanceAt, After, rest, at
<1> QED
  BY <1>4, <1>5 DEF at

LEMMA ConditionAgrees ==
  ASSUME EvalTyped, EvaluateCondition, NEW u, Agrees(u),
         policy[ix] \in ConditionOpcodes, NEW v, v = StepOf(u, policy[ix], call)
  PROVE  Agrees(v)'
<1> DEFINE op == policy[ix]
           in == call
           at == context.position
           value == ValueAt(op, in, at)
           any == AnyMode(op, u)
<1>1. /\ u.mode \in {"all", "any"} /\ u.at = at
      /\ context.options = IF u.mode = "any" THEN {"or"} ELSE {}
      /\ context \in [position : Nat, options : {{}, {"or"}}]
  BY DEF EvaluateCondition, Agrees, EvalTyped
<1>2. v = IF value /\ any THEN AnyHeld ELSE IF ~value /\ ~any THEN Failed
          ELSE Mode(IF any THEN "any" ELSE "all",
                    IF "clear" \in op.options THEN 0 ELSE AdvanceAt(op, in, at))
  BY <1>1 DEF StepOf
<1>3. /\ OpcodeEval(op) <=> EvalAt(op, in, at)
      /\ Advance(op) = AdvanceAt(op, in, at)
  BY CurrentValue
<1>4. /\ context' = ContextAfter(op)
      /\ skip_group' = ((OpcodeEval(op) # ("negate" \in op.options)) <=> context'.options = {"or"})
      /\ call' = call
  BY DEF EvaluateCondition
<1>5. (OpcodeEval(op) # ("negate" \in op.options)) <=> value
  <2>1. OpcodeEval(op) \in BOOLEAN
    BY DEF OpcodeEval, ConditionOpcodes, Opcodes
  <2> QED
    BY <1>3, <2>1 DEF ValueAt
<1> DEFINE cleared == IF "clear" \in op.options THEN ClearContext
                      ELSE [context EXCEPT !.position = Advance(op)]
<1>6. ContextAfter(op) = IF "or" \in op.options THEN [cleared EXCEPT !.options = {"or"}] ELSE cleared
  BY DEF ContextAfter
<1>7. /\ any <=> "or" \in op.options \/ ("clear" \notin op.options /\ u.mode = "any")
      /\ {"or"} # {}
  BY DEF AnyMode
<1> HIDE DEF op, in, value, any
<1>8. /\ cleared \in [position : {cleared.position}, options : {{}, {"or"}}]
      /\ cleared.position = IF "clear" \in op.options THEN 0 ELSE AdvanceAt(op, in, at)
      /\ cleared.options = IF "clear" \notin op.options /\ u.mode = "any" THEN {"or"} ELSE {}
  BY <1>1, <1>3 DEF ClearContext
<1> HIDE DEF at, cleared
<1>9. /\ context'.options = IF any THEN {"or"} ELSE {}
      /\ context'.position = IF "clear" \in op.options THEN 0 ELSE AdvanceAt(op, in, at)
  BY <1>4, <1>6, <1>7, <1>8
<1>10. skip_group' <=> (value <=> any)
  BY <1>4, <1>5, <1>7, <1>9
<1>11. /\ v.mode \in {"all", "any", "failed", "settled"}
       /\ skip_group' <=> v.mode \in {"failed", "settled"}
       /\ context'.options = IF v.mode \in {"any", "settled"} THEN {"or"} ELSE {}
       /\ ~skip_group' => context'.position = v.at
  BY <1>2, <1>9, <1>10 DEF AnyHeld, Failed, Mode
<1> QED
  BY <1>11 DEF Agrees

LEMMA EmptyDecided == ASSUME NEW r, r.conditions = <<>> PROVE Decided(r, <<>>)
<1> SUFFICES ASSUME NEW in \in Calls PROVE \E t : Decides(t, r, <<>>, in)
  BY DEF Decided
<1>1. PICK t : Trace(t, <<>>, in) /\ t[Len(<<>>)] = Start
  BY TraceStart
<1>2. Applies(r, in)
  BY DEF Applies
<1>3. Start # Failed /\ Start # AnyHeld
  BY DEF Start, Failed, AnyHeld, Mode
<1>4. Decides(t, r, <<>>, in)
  BY <1>1, <1>2, <1>3 DEF Decides
<1> QED
  BY <1>4

LEMMA SameDecided ==
  ASSUME NEW r, NEW q, q.conditions = r.conditions, NEW ops, Decided(r, ops)
  PROVE  Decided(q, ops)
<1>1. (Shape(q) <=> Shape(r)) /\ (Plain(q) <=> Plain(r)) /\ (Ending(q) = Ending(r))
  BY DEF Shape, Plain, Positive, Ending
<1>2. \A in : Applies(q, in) <=> Applies(r, in)
  BY DEF Applies
<1>3. \A t, in : Decides(t, r, ops, in) => Decides(t, q, ops, in)
  BY <1>1, <1>2 DEF Decides
<1> QED
  BY <1>1, <1>3 DEF Decided

LEMMA StringDecided ==
  ASSUME NEW r, r.conditions \in Seq(Conditions), NEW c \in StringMatches, WellFormed(c.pattern),
         NEW q, Longer(q, r, c), NEW ops \in Seq(ConditionOpcodes), Decided(r, ops)
  PROVE  Decided(q, Generated(ops, c.negate, c.pattern).opcodes)
<1> DEFINE out == Generated(ops, c.negate, c.pattern).opcodes
<1>1. ASSUME NEW in \in Calls, Shape(q) PROVE \E t : Decides(t, q, out, in)
  <2>1. c \in Conditions
    BY DEF Conditions
  <2>2. Shape(r)
    BY <1>1, <2>1, LongerFacts DEF Shape
  <2>3. \E t : Decides(t, r, ops, in)
    BY <2>2 DEF Decided
  <2>4. Plain(q) \/ Positive(q)
    BY <1>1 DEF Shape
  <2> QED
    BY <2>3, <2>4, StringDecides
<1> HIDE DEF out
<1>2. Decided(q, out)
  BY <1>1 DEF Decided
<1> QED
  BY <1>2 DEF out

LEMMA NumberDecided ==
  ASSUME NEW r, r.conditions \in Seq(Conditions), NEW c \in NumberMatches,
         NEW q, Longer(q, r, c), NEW ops \in Seq(ConditionOpcodes), Decided(r, ops),
         NEW op \in ConditionOpcodes,
         op = NumberOpcode(c.kind, c.num, IF c.negate THEN {"negate"} ELSE {})
  PROVE  Decided(q, Append(ops, op))
<1>1. ASSUME NEW in \in Calls, Shape(q) PROVE \E t : Decides(t, q, Append(ops, op), in)
  <2>1. c \in Conditions
    BY DEF Conditions
  <2>2. Shape(r)
    BY <1>1, <2>1, LongerFacts DEF Shape
  <2>3. \E t : Decides(t, r, ops, in)
    BY <2>2 DEF Decided
  <2>4. Plain(q) \/ Positive(q)
    BY <1>1 DEF Shape
  <2> QED
    BY <2>3, <2>4, NumberDecides
<1> QED
  BY <1>1 DEF Decided

(* The invariant.  Until a call is answered no rule before the one that is   *)
(* evaluated applies, and the processor is in a state of its trace.          *)
RulesDecided ==
  /\ rule # NoRule => Decided(rule, rule.opcodes)
  /\ \A i \in 1..Len(rules) : \E ops : WrittenAs(rules[i], ops) /\ Decided(rules[i], ops)
PolicyPlaced == phase # "rules" => rule = NoRule /\ \E b : Layout(b, rules, policy)

AllShaped == \A i \in 1..Len(rules) : Shape(rules[i])
NoneBefore(i) == \A j \in 1..(i - 1) : ~Applies(rules[j], call)
Stands(b, i, ops, t, k) ==
  /\ Layout(b, rules, policy) /\ i \in 1..Len(rules) /\ WrittenAs(rules[i], ops)
  /\ Decides(t, rules[i], ops, call) /\ NoneBefore(i)
  /\ k \in 0..Len(ops) /\ ix = (b[i - 1] + k) + 1 /\ Agrees(t[k])
PastAll == ix = Len(policy) + 1 /\ NoneBefore(Len(rules) + 1)
Underway ==
  phase = "evaluating" =>
    call \in Calls /\ (AllShaped => PastAll \/ \E b, i, ops, t, k : Stands(b, i, ops, t, k))

Chosen(i) ==
  /\ i \in 1..Len(rules) /\ result = rules[i].action /\ NoneBefore(i)
  /\ Plain(rules[i]) => Applies(rules[i], call)
Outcome ==
  phase = "answered" /\ AllShaped =>
    (result = "no_match" /\ NoneBefore(Len(rules) + 1)) \/ \E i : Chosen(i)

DecisionIInv == EngineIInv /\ RulesDecided /\ PolicyPlaced /\ Underway /\ Outcome

LEMMA DecisionStart == ASSUME Init PROVE DecisionIInv
<1>1. rules = <<>> /\ rule = NoRule /\ phase = "rules" /\ Len(rules) = 0
  BY DEF Init
<1>2. 1..0 = {}
  OBVIOUS
<1>3. RulesDecided
  BY <1>1, <1>2 DEF RulesDecided
<1> QED
  BY <1>1, <1>3, EngineStart DEF DecisionIInv, PolicyPlaced, Underway, Outcome

(* What the invariant says of the writing of rules.                          *)
LEMMA WritingStep ==
  ASSUME DecisionIInv, EngineIInv', RulesDecided', phase = "rules" \/ rule # NoRule,
         phase' = phase
  PROVE  DecisionIInv'
<1>1. phase' = "rules"
  BY DEF DecisionIInv, PolicyPlaced
<1> QED
  BY <1>1 DEF DecisionIInv, PolicyPlaced, Underway, Outcome

LEMMA NewRuleDecides ==
  ASSUME DecisionIInv, EngineIInv', NEW a \in Actions, NewRule(a) PROVE DecisionIInv'
<1>1. rule' = [action |-> a, conditions |-> <<>>, opcodes |-> <<>>] /\ rules' = rules
      /\ phase = "rules" /\ phase' = phase
  BY DEF NewRule, NoRule
<1>2. rule'.conditions = <<>> /\ rule'.opcodes = <<>>
  BY <1>1
<1>3. Decided(rule', rule'.opcodes)
  BY <1>2, EmptyDecided
<1>4. RulesDecided'
  BY <1>1, <1>3 DEF DecisionIInv, RulesDecided
<1> QED
  BY <1>1, <1>4, WritingStep

LEMMA AddStringDecides ==
  ASSUME DecisionIInv, EngineIInv', NEW c \in StringMatches, AddStringMatch(c) PROVE DecisionIInv'
<1> DEFINE g == Generated(rule.opcodes, c.negate, c.pattern)
<1>0. /\ rule \in [action : Actions, conditions : Seq(Conditions), opcodes : Seq(ConditionOpcodes)]
      /\ rule # NoRule /\ Decided(rule, rule.opcodes)
      /\ UNCHANGED <<rules, phase>> /\ c.negate \in BOOLEAN /\ c.pattern \in Patterns
  BY DEF DecisionIInv, EngineIInv, RulesRight, RulesDecided, AddStringMatch, StringMatches
<1>1. rule.conditions \in Seq(Conditions) /\ rule.opcodes \in Seq(ConditionOpcodes)
  BY <1>0
<1>2. g.ok <=> WellFormed(c.pattern)
  BY <1>0, <1>1, GeneratedRight
<1>3. CASE g.ok
  <2> DEFINE out == g.opcodes
  <2>1. rule' = [rule EXCEPT !.opcodes = out, !.conditions = Append(@, c)]
    BY <1>3 DEF AddStringMatch
  <2>2. Decided(rule', out)
    <3>1. Longer(rule', rule, c)
      <4> HIDE DEF out
      <4> QED
        BY <1>0, <2>1 DEF Longer
    <3> QED
      BY <1>0, <1>1, <1>2, <1>3, <3>1, StringDecided
  <2> HIDE DEF out
  <2>3. rule'.opcodes = out
    BY <1>0, <2>1
  <2>4. RulesDecided'
    BY <1>0, <2>2, <2>3 DEF DecisionIInv, RulesDecided
  <2> QED
    BY <1>0, <2>4, WritingStep
<1>4. CASE ~g.ok
  <2>1. rule' = NoRule
    BY <1>4 DEF AddStringMatch
  <2>2. RulesDecided'
    BY <1>0, <2>1 DEF DecisionIInv, RulesDecided
  <2> QED
    BY <1>0, <2>2, WritingStep
<1> QED
  BY <1>3, <1>4

LEMMA AddNumberDecides ==
  ASSUME DecisionIInv, EngineIInv', NEW c \in NumberMatches, AddNumberMatch(c) PROVE DecisionIInv'
<1> DEFINE op == NumberOpcode(c.kind, c.num, IF c.negate THEN {"negate"} ELSE {})
           out == Append(rule.opcodes, op)
<1>0. /\ rule \in [action : Actions, conditions : Seq(Conditions), opcodes : Seq(ConditionOpcodes)]
      /\ rule # NoRule /\ Decided(rule, rule.opcodes)
      /\ UNCHANGED <<rules, phase>>
  BY DEF DecisionIInv, EngineIInv, RulesRight, RulesDecided, AddNumberMatch
<1>1. rule.conditions \in Seq(Conditions) /\ rule.opcodes \in Seq(ConditionOpcodes)
  BY <1>0
<1>2. op \in ConditionOpcodes
  BY DEF NumberMatches, NumberOpcode, ConditionOpcodes, Opcodes, Options
<1>3. rule' = [rule EXCEPT !.opcodes = out, !.conditions = Append(@, c)]
  BY <1>0 DEF AddNumberMatch
<1> HIDE DEF out
<1>4. Longer(rule', rule, c) /\ rule'.opcodes = out
  BY <1>0, <1>3 DEF Longer
<1>5. Decided(rule', out)
  BY <1>0, <1>1, <1>2, <1>4, NumberDecided DEF out
<1>6. RulesDecided'
  BY <1>0, <1>4, <1>5 DEF DecisionIInv, RulesDecided
<1> QED
  BY <1>0, <1>6, WritingStep

LEMMA AddRuleDecides ==
  ASSUME DecisionIInv, EngineIInv', AddRule PROVE DecisionIInv'
<1> DEFINE ops == Append(rule.opcodes, ActionOpcode(rule.action))
           new == [rule EXCEPT !.opcodes = ops]
           n == Len(rules)
<1>0. /\ rule \in [action : Actions, conditions : Seq(Conditions), opcodes : Seq(ConditionOpcodes)]
      /\ rule # NoRule /\ Decided(rule, rule.opcodes)
      /\ rules' = Append(rules, new) /\ rule' = NoRule /\ phase' = phase
  BY DEF DecisionIInv, EngineIInv, RulesRight, RulesDecided, AddRule, evalVars
<1>1. new.conditions = rule.conditions /\ new.action = rule.action /\ new.opcodes = ops
  <2> HIDE DEF ops
  <2> QED
    BY <1>0
<1>2. WrittenAs(new, rule.opcodes) /\ Decided(new, rule.opcodes)
  <2>1. Decided(new, rule.opcodes)
    BY <1>0, <1>1, SameDecided
  <2> HIDE DEF new
  <2> QED
    BY <1>0, <1>1, <2>1 DEF WrittenAs
<1> HIDE DEF new
<1>3. /\ n \in Nat /\ Len(rules') = n + 1 /\ rules'[n + 1] = new
      /\ \A i \in 1..n : rules'[i] = rules[i]
  <2> DEFINE R == [action : Actions, conditions : Seq(Conditions), opcodes : Ended]
  <2>1. rules \in Seq(R)
    BY DEF DecisionIInv, EngineIInv, RulesRight
  <2>2. rules' \in Seq(R)
    BY DEF EngineIInv, RulesRight
  <2> HIDE DEF R
  <2>3. Len(Append(rules, new)) = n + 1 /\ n \in Nat /\ Append(rules, new)[n + 1] = new
        /\ \A i \in 1..n : Append(rules, new)[i] = rules[i]
    BY <2>1
  <2> QED
    BY <1>0, <2>3
<1>4. RulesDecided'
  <2>1. \A i \in 1..(n + 1) : i = n + 1 \/ i \in 1..n
    BY <1>3
  <2>2. \A i \in 1..n : \E o : WrittenAs(rules[i], o) /\ Decided(rules[i], o)
    BY DEF DecisionIInv, RulesDecided
  <2> HIDE DEF n
  <2>3. \A i \in 1..(n + 1) : \E o : WrittenAs(rules'[i], o) /\ Decided(rules'[i], o)
    BY <1>2, <1>3, <2>1, <2>2
  <2> QED
    BY <1>0, <1>3, <2>3 DEF RulesDecided
<1> QED
  BY <1>0, <1>4, WritingStep

-----------------------------------------------------------------------------
(* The steps of the evaluation.                                              *)
LEMMA RuleTrace ==
  ASSUME RulesDecided, NEW i \in 1..Len(rules), Shape(rules[i]), NEW in \in Calls
  PROVE  \E ops, t : WrittenAs(rules[i], ops) /\ Decides(t, rules[i], ops, in)
                     /\ 0 \in 0..Len(ops) /\ t[0] = Start
<1>1. PICK ops : WrittenAs(rules[i], ops) /\ Decided(rules[i], ops)
  BY DEF RulesDecided
<1>2. PICK t : Decides(t, rules[i], ops, in)
  BY <1>1 DEF Decided
<1>3. Len(ops) \in Nat
  BY <1>1 DEF WrittenAs
<1>4. t[0] = Start
  BY <1>2 DEF Decides, Trace
<1> QED
  BY <1>1, <1>2, <1>3, <1>4

(* The processor comes to the first opcode of rule i.                        *)
LEMMA EnterRule ==
  ASSUME RulesDecided, AllShaped, UNCHANGED <<rules, policy>>, call' \in Calls,
         NEW b, Layout(b, rules, policy), NEW i \in 1..Len(rules), b[i - 1] \in Nat,
         \A j \in 1..(i - 1) : ~Applies(rules[j], call'),
         ix' = b[i - 1] + 1, ~skip_group', context' = ClearContext
  PROVE  (\E c, j, ops, t, k : Stands(c, j, ops, t, k))'
<1>1. PICK ops, t : /\ WrittenAs(rules[i], ops) /\ Decides(t, rules[i], ops, call')
                    /\ 0 \in 0..Len(ops) /\ t[0] = Start
  BY RuleTrace DEF AllShaped
<1>2. Agrees(t[0])'
  BY <1>1 DEF Agrees, Start, Mode, ClearContext
<1>3. ix' = (b[i - 1] + 0) + 1
  OBVIOUS
<1>4. Layout(b, rules, policy)' /\ WrittenAs(rules[i], ops)' /\ Decides(t, rules[i], ops, call)'
  BY <1>1
<1>5. NoneBefore(i)'
  BY DEF NoneBefore
<1>6. Stands(b, i, ops, t, 0)'
  BY <1>1, <1>2, <1>3, <1>4, <1>5 DEF Stands
<1> QED
  BY <1>6

(* What lies where the processor stands.                                     *)
LEMMA PlaceFacts ==
  ASSUME EngineIInv, NEW b, NEW i, NEW ops, NEW t, NEW k, Stands(b, i, ops, t, k)
  PROVE  /\ Len(rules) \in Nat /\ Len(policy) \in Nat /\ Len(ops) \in Nat /\ k \in Nat
         /\ i \in 1..Len(rules) /\ k <= Len(ops)
         /\ b[i - 1] \in Nat /\ b[i] = (b[i - 1] + Len(ops)) + 1 /\ b[i] \in Nat
         /\ ix \in Nat /\ ix <= b[i] /\ b[i] <= Len(policy)
         /\ i = Len(rules) => b[i] = Len(policy)
         /\ k < Len(ops) => /\ policy[ix] = ops[k + 1] /\ policy[ix] \in ConditionOpcodes
                            /\ policy[ix].kind # "action"
                            /\ t[k + 1] = StepOf(t[k], policy[ix], call)
         /\ k = Len(ops) => /\ policy[ix] = ActionOpcode(rules[i].action) /\ ix = b[i]
                            /\ policy[ix].kind = "action"
<1> DEFINE n == Len(rules)
           l == Len(ops)
           p == b[i - 1]
           a == ActionOpcode(rules[i].action)
<1>1. /\ Layout(b, rules, policy) /\ i \in 1..n /\ WrittenAs(rules[i], ops)
      /\ Decides(t, rules[i], ops, call) /\ k \in 0..l /\ ix = (p + k) + 1
  BY DEF Stands
<1>2. n \in Nat /\ Len(policy) \in Nat /\ l \in Nat
  <2>1. rules \in Seq([action : Actions, conditions : Seq(Conditions), opcodes : Ended])
    BY DEF EngineIInv, RulesRight
  <2>2. n \in Nat
    BY <2>1
  <2>3. Len(policy) \in Nat
    BY PolicyKinds DEF EngineIInv, EvalTyped
  <2>4. l \in Nat
    BY <1>1 DEF WrittenAs
  <2> QED
    BY <2>2, <2>3, <2>4
<1>3. /\ b \in [0..n -> Nat] /\ Len(policy) = b[n]
      /\ b[i] = p + Len(rules[i].opcodes) /\ b[i] <= Len(policy) /\ Lies(rules[i].opcodes, policy, p)
  BY <1>1 DEF Layout
<1>4. p \in Nat /\ b[i] \in Nat
  <2>1. i - 1 \in 0..n /\ i \in 0..n
    BY <1>1, <1>2
  <2> QED
    BY <1>3, <2>1
<1>5. /\ Len(rules[i].opcodes) = l + 1 /\ rules[i].opcodes[l + 1] = a
      /\ \A j \in 1..l : rules[i].opcodes[j] = ops[j] /\ ops[j] \in ConditionOpcodes
  <2> HIDE DEF a
  <2>1. rules[i].opcodes = Append(ops, a) /\ ops \in Seq(ConditionOpcodes)
    BY <1>1 DEF WrittenAs, a
  <2> QED
    BY <2>1
<1> HIDE DEF p, l, n
<1>6. k \in Nat /\ k <= l /\ k + 1 \in 1..(l + 1) /\ (k < l => k + 1 \in 1..l)
  BY <1>1, <1>2
<1>7. policy[ix] = rules[i].opcodes[k + 1]
  <2>1. policy[p + (k + 1)] = rules[i].opcodes[k + 1]
    BY <1>3, <1>5, <1>6 DEF Lies
  <2>2. ix = p + (k + 1)
    BY <1>1, <1>4, <1>6
  <2> QED
    BY <2>1, <2>2
<1>8. ASSUME k < l
      PROVE  /\ policy[ix] = ops[k + 1] /\ policy[ix] \in ConditionOpcodes
             /\ policy[ix].kind # "action" /\ t[k + 1] = StepOf(t[k], policy[ix], call)
  <2>1. policy[ix] = ops[k + 1] /\ policy[ix] \in ConditionOpcodes
    BY <1>5, <1>6, <1>7, <1>8
  <2>2. policy[ix].kind # "action"
    BY <2>1 DEF ConditionOpcodes, Opcodes
  <2>3. \A j \in 1..l : t[j] = StepOf(t[j - 1], ops[j], call)
    BY <1>1 DEF Decides, Trace, l
  <2>4. t[k + 1] = StepOf(t[(k + 1) - 1], ops[k + 1], call) /\ (k + 1) - 1 = k
    BY <1>6, <1>8, <2>3
  <2> QED
    BY <2>1, <2>2, <2>4
<1>9. ASSUME k = l PROVE policy[ix] = a /\ ix = b[i] /\ policy[ix].kind = "action"
  <2>1. policy[ix] = a
    BY <1>5, <1>7, <1>9
  <2>2. ix = b[i]
    BY <1>1, <1>2, <1>3, <1>4, <1>5, <1>9
  <2> QED
    BY <2>1, <2>2 DEF ActionOpcode
<1>10. b[i] = (p + l) + 1 /\ ix \in Nat /\ ix <= b[i]
  BY <1>1, <1>2, <1>3, <1>4, <1>5, <1>6
<1>11. i = n => b[i] = Len(policy)
  BY <1>3
<1> QED
  BY <1>1, <1>2, <1>3, <1>4, <1>6, <1>8, <1>9, <1>10, <1>11 DEF p, l, n, a

LEMMA DoneDecides ==
  ASSUME DecisionIInv, EngineIInv', Done PROVE DecisionIInv'
<1>1. /\ phase = "rules" /\ rule = NoRule /\ policy' = LaidOut /\ phase' = "ready"
      /\ rule' = rule /\ rules' = rules
  BY DEF Done
<1>2. RulesDecided'
  BY <1>1 DEF DecisionIInv, RulesDecided
<1>3. PICK b : Layout(b, rules, LaidOut)
  BY LaidOutLayout DEF DecisionIInv, EngineIInv, RulesRight
<1>4. Layout(b, rules', policy')
  BY <1>1, <1>3
<1>5. PolicyPlaced'
  BY <1>1, <1>4 DEF PolicyPlaced
<1> QED
  BY <1>1, <1>2, <1>5 DEF DecisionIInv, Underway, Outcome

LEMMA BeginDecides ==
  ASSUME DecisionIInv, EngineIInv', NEW c \in Calls, Evaluate(c) \/ EvaluateNothing(c)
  PROVE  DecisionIInv'
<1> DEFINE n == Len(rules)
           R == [action : Actions, conditions : Seq(Conditions), opcodes : Ended]
<1>1. /\ phase = "ready" /\ call' = c
      /\ rule' = rule /\ rules' = rules /\ policy' = policy
      /\ UNCHANGED <<ix, context, skip_group>>
  BY DEF Evaluate, EvaluateNothing, ruleVars
<1>2. RulesDecided' /\ PolicyPlaced'
  <2>1. PolicyPlaced'
    BY <1>1 DEF DecisionIInv, PolicyPlaced
  <2> QED
    BY <1>1, <2>1 DEF DecisionIInv, RulesDecided
<1>3. PICK b : Layout(b, rules, policy)
  BY <1>1 DEF DecisionIInv, PolicyPlaced
<1>4. n \in Nat /\ Len(policy) \in Nat
  <2>1. rules \in Seq(R)
    BY DEF DecisionIInv, EngineIInv, RulesRight
  <2> HIDE DEF R
  <2>2. n \in Nat
    BY <2>1
  <2> QED
    BY <2>2, PolicyKinds DEF DecisionIInv, EngineIInv, EvalTyped
<1>5. b[0] = 0 /\ Len(policy) = b[n] /\ b \in [0..n -> Nat]
  BY <1>3 DEF Layout
<1>6. 1..0 = {} /\ 1 - 1 = 0
  OBVIOUS
<1>7. CASE Evaluate(c)
  <2>1. phase' = "evaluating" /\ policy # <<>>
    BY <1>7 DEF Evaluate
  <2>2. ix = 1 /\ ~skip_group /\ context = ClearContext
    BY <1>1 DEF DecisionIInv, EngineIInv, PhasesInOrder, StartsClean
  <2>3. n # 0
    <3>1. Len(policy) > 0
      BY <2>1, PolicyKinds DEF DecisionIInv, EngineIInv, EvalTyped
    <3> QED
      BY <1>5, <3>1
  <2>4. 1 \in 1..n
    BY <1>4, <2>3
  <2>5. ASSUME AllShaped PROVE (\E d, j, ops, t, k : Stands(d, j, ops, t, k))'
    <3>1. b[1 - 1] = 0
      BY <1>5, <1>6
    <3>2. ix' = b[1 - 1] + 1 /\ b[1 - 1] \in Nat
      BY <1>1, <2>2, <3>1
    <3>3. \A j \in 1..(1 - 1) : ~Applies(rules[j], call')
      BY <1>6
    <3>4. RulesDecided
      BY DEF DecisionIInv
    <3> QED
      BY <1>1, <1>3, <2>2, <2>4, <2>5, <3>2, <3>3, <3>4, EnterRule
  <2>6. Underway'
    BY <1>1, <2>5 DEF Underway, AllShaped
  <2> QED
    BY <1>2, <2>1, <2>6 DEF DecisionIInv, Outcome
<1>8. CASE EvaluateNothing(c)
  <2>1. policy = <<>> /\ phase' = "answered" /\ result' = "no_match"
    BY <1>8 DEF EvaluateNothing
  <2>2. n = 0
    <3> SUFFICES ASSUME n # 0 PROVE FALSE
      OBVIOUS
    <3>1. 1 \in 1..n /\ 0 \in 0..n
      BY <1>4
    <3>2. b[1] = b[0] + Len(rules[1].opcodes) /\ b[1] <= Len(policy)
      <4>1. b[1] = b[1 - 1] + Len(rules[1].opcodes) /\ b[1] <= Len(policy)
        BY <1>3, <3>1 DEF Layout
      <4> QED
        BY <1>6, <4>1
    <3>3. PICK ops : WrittenAs(rules[1], ops)
      BY <3>1 DEF DecisionIInv, RulesDecided
    <3>4. Len(rules[1].opcodes) = Len(ops) + 1 /\ Len(ops) \in Nat
      <4> DEFINE a == ActionOpcode(rules[1].action)
      <4> HIDE DEF a
      <4>1. ops \in Seq(ConditionOpcodes) /\ rules[1].opcodes = Append(ops, a)
        BY <3>3 DEF WrittenAs, a
      <4> QED
        BY <4>1
    <3>5. Len(policy) = 0
      BY <2>1
    <3> QED
      BY <1>5, <3>2, <3>4, <3>5
  <2>3. NoneBefore(Len(rules) + 1)'
    <3>1. (Len(rules') + 1) - 1 = 0
      BY <1>1, <2>2
    <3> QED
      BY <1>6, <3>1 DEF NoneBefore
  <2>4. Outcome'
    BY <2>1, <2>3 DEF Outcome
  <2> QED
    BY <1>2, <2>1, <2>4 DEF DecisionIInv, Underway
<1> QED
  BY <1>7, <1>8

(* The processor leaves a rule that does not apply behind.                   *)
LEMMA RulePassed ==
  ASSUME EngineIInv, RulesDecided, AllShaped, UNCHANGED <<rules, policy, call>>, call \in Calls,
         NEW b, NEW i, NEW ops, NEW t, NEW k, Stands(b, i, ops, t, k), k = Len(ops),
         ~Applies(rules[i], call), ix' = ix + 1, ~skip_group', context' = ClearContext
  PROVE  PastAll' \/ (\E c, j, o, u, m : Stands(c, j, o, u, m))'
<1> DEFINE n == Len(rules)
<1>1. /\ n \in Nat /\ Len(policy) \in Nat /\ i \in 1..n /\ b[i] \in Nat /\ ix = b[i]
      /\ i = n => b[i] = Len(policy)
  BY PlaceFacts
<1>2. NoneBefore(i) /\ Layout(b, rules, policy)
  BY DEF Stands
<1> HIDE DEF n
<1>3. \A j \in 1..i : ~Applies(rules[j], call)
  <2>1. \A j \in 1..i : j = i \/ j \in 1..(i - 1)
    BY <1>1
  <2> QED
    BY <1>2, <2>1 DEF NoneBefore
<1>4. (i + 1) - 1 = i
  BY <1>1
<1>5. CASE i = n
  <2>1. \A j \in 1..((Len(rules') + 1) - 1) : ~Applies(rules'[j], call')
    BY <1>3, <1>4, <1>5 DEF n
  <2>2. NoneBefore(Len(rules) + 1)'
    BY <2>1 DEF NoneBefore
  <2>3. ix' = Len(policy') + 1
    BY <1>1, <1>5
  <2> QED
    BY <2>2, <2>3 DEF PastAll
<1>6. CASE i # n
  <2> DEFINE j == i + 1
  <2>1. j \in 1..n /\ j - 1 = i
    BY <1>1, <1>6
  <2> HIDE DEF j
  <2>2. b[j - 1] \in Nat /\ ix' = b[j - 1] + 1
    BY <1>1, <2>1
  <2>3. \A m \in 1..(j - 1) : ~Applies(rules[m], call')
    BY <1>3, <2>1
  <2> QED
    BY <1>2, <2>1, <2>2, <2>3, EnterRule DEF n
<1> QED
  BY <1>5, <1>6

(* What the invariant says of a step of the evaluation that goes on.         *)
LEMMA GoingOn ==
  ASSUME DecisionIInv, EngineIInv', phase = "evaluating", phase' = "evaluating",
         UNCHANGED <<rule, rules, policy, call>>,
         AllShaped => PastAll' \/ (\E b, i, ops, t, k : Stands(b, i, ops, t, k))'
  PROVE  DecisionIInv'
<1>1. RulesDecided' /\ PolicyPlaced'
  <2>1. RulesDecided'
    BY DEF DecisionIInv, RulesDecided
  <2>2. PolicyPlaced'
    BY DEF DecisionIInv, PolicyPlaced
  <2> QED
    BY <2>1, <2>2
<1>2. Underway'
  <2>1. AllShaped' => AllShaped
    BY DEF AllShaped
  <2>2. call' \in Calls
    BY DEF DecisionIInv, Underway
  <2> QED
    BY <2>1, <2>2 DEF Underway
<1> QED
  BY <1>1, <1>2 DEF DecisionIInv, Outcome

LEMMA SkipDecides ==
  ASSUME DecisionIInv, EngineIInv', SkipOpcode PROVE DecisionIInv'
<1>1. /\ phase = "evaluating" /\ ix <= Len(policy) /\ skip_group
      /\ ~(policy[ix].kind = "action" /\ context.options = {"or"})
      /\ context' = IF policy[ix].kind = "action" THEN ClearContext ELSE context
      /\ skip_group' = (policy[ix].kind # "action")
      /\ ix' = ix + 1 /\ UNCHANGED <<rule, rules, policy, phase, call>>
  BY DEF SkipOpcode, ruleVars
<1>2. EngineIInv /\ RulesDecided /\ call \in Calls
      /\ (AllShaped => PastAll \/ \E b, i, ops, t, k : Stands(b, i, ops, t, k))
  BY <1>1 DEF DecisionIInv, Underway
<1>3. ~PastAll
  <2>1. Len(policy) \in Nat
    BY <1>2, PolicyKinds DEF EngineIInv, EvalTyped
  <2> QED
    BY <1>1, <2>1 DEF PastAll
<1>4. ASSUME AllShaped, NEW b, NEW i, NEW ops, NEW t, NEW k, Stands(b, i, ops, t, k)
      PROVE  PastAll' \/ (\E c, j, o, u, m : Stands(c, j, o, u, m))'
  <2>1. /\ Len(ops) \in Nat /\ k \in Nat /\ k <= Len(ops) /\ b[i - 1] \in Nat
        /\ k < Len(ops) => policy[ix].kind # "action" /\ t[k + 1] = StepOf(t[k], policy[ix], call)
        /\ k = Len(ops) => policy[ix].kind = "action"
    BY <1>2, <1>4, PlaceFacts
  <2>2. /\ Agrees(t[k]) /\ Layout(b, rules, policy) /\ i \in 1..Len(rules)
        /\ WrittenAs(rules[i], ops) /\ Decides(t, rules[i], ops, call) /\ NoneBefore(i)
        /\ ix = (b[i - 1] + k) + 1
    BY <1>4 DEF Stands
  <2>3. t[k].mode \in {"failed", "settled"}
    BY <1>1, <2>2 DEF Agrees
  <2>4. CASE k < Len(ops)
    <3> DEFINE m == k + 1
    <3>1. t[m] = t[k] /\ context' = context /\ skip_group'
      BY <1>1, <2>1, <2>3, <2>4 DEF StepOf
    <3>2. m \in 0..Len(ops) /\ (b[i - 1] + k) + 1 = b[i - 1] + m
      BY <2>1, <2>4
    <3> HIDE DEF m
    <3>3. ix' = (b[i - 1] + m) + 1
      BY <1>1, <2>2, <3>2
    <3>4. Agrees(t[m])'
      BY <1>1, <2>2, <3>1 DEF Agrees
    <3>5. NoneBefore(i)'
      BY <1>1, <2>2 DEF NoneBefore
    <3>6. Stands(b, i, ops, t, m)'
      BY <1>1, <2>2, <3>2, <3>3, <3>4, <3>5 DEF Stands
    <3> QED
      BY <3>6
  <2>5. CASE k = Len(ops)
    <3>1. context.options # {"or"} /\ ~skip_group' /\ context' = ClearContext
      BY <1>1, <2>1, <2>5
    <3>2. t[k].mode # "settled"
      BY <2>2, <3>1 DEF Agrees
    <3>3. t[k] = Failed
      <4>1. t[k] \in {Start, Failed, AnyHeld}
        BY <2>2, <2>5 DEF Decides
      <4> QED
        BY <2>3, <3>2, <4>1 DEF Start, AnyHeld, Mode
    <3>4. ~Applies(rules[i], call)
      BY <2>2, <2>5, <3>3 DEF Decides
    <3> QED
      BY <1>1, <1>2, <1>4, <2>5, <3>1, <3>4, RulePassed
  <2> QED
    BY <2>1, <2>4, <2>5
<1>5. AllShaped => PastAll' \/ (\E b, i, ops, t, k : Stands(b, i, ops, t, k))'
  BY <1>2, <1>3, <1>4
<1> QED
  BY <1>1, <1>5, GoingOn

LEMMA ConditionDecides ==
  ASSUME DecisionIInv, EngineIInv', EvaluateCondition PROVE DecisionIInv'
<1>1. /\ phase = "evaluating" /\ ix <= Len(policy) /\ policy[ix].kind # "action"
      /\ ix' = ix + 1 /\ UNCHANGED <<rule, rules, policy, phase, call>>
  BY DEF EvaluateCondition, ruleVars
<1>2. EngineIInv /\ EvalTyped
      /\ (AllShaped => PastAll \/ \E b, i, ops, t, k : Stands(b, i, ops, t, k))
  BY <1>1 DEF DecisionIInv, Underway, EngineIInv
<1>3. ~PastAll
  <2>1. Len(policy) \in Nat
    BY <1>2, PolicyKinds DEF EvalTyped
  <2> QED
    BY <1>1, <2>1 DEF PastAll
<1>4. ASSUME NEW b, NEW i, NEW ops, NEW t, NEW k, Stands(b, i, ops, t, k)
      PROVE  (\E c, j, o, u, m : Stands(c, j, o, u, m))'
  <2>1. /\ Len(ops) \in Nat /\ k \in Nat /\ k <= Len(ops) /\ b[i - 1] \in Nat
        /\ k < Len(ops) => policy[ix] \in ConditionOpcodes /\ t[k + 1] = StepOf(t[k], policy[ix], call)
        /\ k = Len(ops) => policy[ix].kind = "action"
    BY <1>2, <1>4, PlaceFacts
  <2>2. /\ Agrees(t[k]) /\ Layout(b, rules, policy) /\ i \in 1..Len(rules)
        /\ WrittenAs(rules[i], ops) /\ Decides(t, rules[i], ops, call) /\ NoneBefore(i)
        /\ ix = (b[i - 1] + k) + 1
    BY <1>4 DEF Stands
  <2>3. k < Len(ops)
    BY <1>1, <2>1
  <2> DEFINE m == k + 1
  <2>4. m \in 0..Len(ops) /\ (b[i - 1] + k) + 1 = b[i - 1] + m
    BY <2>1, <2>3
  <2>5. policy[ix] \in ConditionOpcodes /\ t[m] = StepOf(t[k], policy[ix], call)
    BY <2>1, <2>3
  <2> HIDE DEF m
  <2>6. Agrees(t[m])'
    BY <1>2, <2>2, <2>5, ConditionAgrees
  <2>7. ix' = (b[i - 1] + m) + 1
    BY <1>1, <2>2, <2>4
  <2>8. NoneBefore(i)'
    BY <1>1, <2>2 DEF NoneBefore
  <2>9. Stands(b, i, ops, t, m)'
    BY <1>1, <2>2, <2>4, <2>6, <2>7, <2>8 DEF Stands
  <2> QED
    BY <2>9
<1>5. AllShaped => PastAll' \/ (\E b, i, ops, t, k : Stands(b, i, ops, t, k))'
  BY <1>2, <1>3, <1>4
<1> QED
  BY <1>1, <1>5, GoingOn

(* What the invariant says of a step that answers the call.                  *)
LEMMA Answering ==
  ASSUME DecisionIInv, EngineIInv', phase = "evaluating", phase' = "answered",
         UNCHANGED <<rule, rules, policy, call>>, AllShaped => Outcome'
  PROVE  DecisionIInv'
<1>1. RulesDecided'
  BY DEF DecisionIInv, RulesDecided
<1>2. PolicyPlaced'
  BY DEF DecisionIInv, PolicyPlaced
<1>3. Outcome'
  <2>1. AllShaped' => AllShaped
    BY DEF AllShaped
  <2> QED
    BY <2>1 DEF Outcome
<1> QED
  BY <1>1, <1>2, <1>3 DEF DecisionIInv, Underway

LEMMA ActionDecides ==
  ASSUME DecisionIInv, EngineIInv', EvaluateAction PROVE DecisionIInv'
<1>1. /\ phase = "evaluating" /\ ix <= Len(policy) /\ policy[ix].kind = "action"
      /\ skip_group => context.options = {"or"}
      /\ result' = policy[ix].action /\ phase' = "answered"
      /\ UNCHANGED <<rule, rules, policy, call>>
  BY DEF EvaluateAction, ruleVars
<1>2. EngineIInv /\ (AllShaped => PastAll \/ \E b, i, ops, t, k : Stands(b, i, ops, t, k))
  BY <1>1 DEF DecisionIInv, Underway
<1>3. ~PastAll
  <2>1. Len(policy) \in Nat
    BY <1>2, PolicyKinds DEF EngineIInv, EvalTyped
  <2> QED
    BY <1>1, <2>1 DEF PastAll
<1>4. ASSUME NEW b, NEW i, NEW ops, NEW t, NEW k, Stands(b, i, ops, t, k) PROVE Outcome'
  <2>1. /\ Len(ops) \in Nat /\ k \in Nat /\ k <= Len(ops)
        /\ k < Len(ops) => policy[ix].kind # "action"
        /\ k = Len(ops) => policy[ix] = ActionOpcode(rules[i].action)
    BY <1>2, <1>4, PlaceFacts
  <2>2. /\ Agrees(t[k]) /\ i \in 1..Len(rules) /\ Decides(t, rules[i], ops, call) /\ NoneBefore(i)
    BY <1>4 DEF Stands
  <2>3. k = Len(ops)
    BY <1>1, <2>1
  <2>4. result' = rules[i].action
    BY <1>1, <2>1, <2>3 DEF ActionOpcode
  <2>5. t[k] # Failed
    <3> SUFFICES ASSUME t[k] = Failed PROVE FALSE
      OBVIOUS
    <3>1. t[k].mode = "failed"
      BY DEF Failed, Mode
    <3>2. skip_group /\ context.options = {}
      BY <2>2, <3>1 DEF Agrees
    <3>3. {} # {"or"}
      OBVIOUS
    <3> QED
      BY <1>1, <3>2, <3>3
  <2>6. Plain(rules[i]) => Applies(rules[i], call)
    BY <2>2, <2>3, <2>5 DEF Decides
  <2>7. NoneBefore(i)'
    BY <1>1, <2>2 DEF NoneBefore
  <2>8. Chosen(i)'
    BY <1>1, <2>2, <2>4, <2>6, <2>7 DEF Chosen
  <2> QED
    BY <2>8 DEF Outcome
<1>5. AllShaped => Outcome'
  BY <1>2, <1>3, <1>4
<1> QED
  BY <1>1, <1>5, Answering

LEMMA EndDecides ==
  ASSUME DecisionIInv, EngineIInv', EndOfPolicy PROVE DecisionIInv'
<1>1. /\ phase = "evaluating" /\ ix > Len(policy) /\ phase' = "answered"
      /\ result' = IF evaluation THEN "error" ELSE "no_match"
      /\ UNCHANGED <<rule, rules, policy, call>>
  BY DEF EndOfPolicy, ruleVars
<1>2. EngineIInv /\ (AllShaped => PastAll \/ \E b, i, ops, t, k : Stands(b, i, ops, t, k))
  BY <1>1 DEF DecisionIInv, Underway
<1>3. ASSUME NEW b, NEW i, NEW ops, NEW t, NEW k, Stands(b, i, ops, t, k) PROVE FALSE
  <2>1. ix \in Nat /\ b[i] \in Nat /\ Len(policy) \in Nat /\ ix <= b[i] /\ b[i] <= Len(policy)
    BY <1>2, <1>3, PlaceFacts
  <2> QED
    BY <1>1, <2>1
<1>4. result' = "no_match"
  BY <1>1 DEF EngineIInv, EvalTyped, NoPolicyError
<1>5. AllShaped => Outcome'
  <2> SUFFICES ASSUME AllShaped PROVE Outcome'
    OBVIOUS
  <2>1. NoneBefore(Len(rules) + 1)
    BY <1>2, <1>3 DEF PastAll
  <2>2. NoneBefore(Len(rules) + 1)'
    BY <1>1, <2>1 DEF NoneBefore
  <2> QED
    BY <1>4, <2>2 DEF Outcome
<1> QED
  BY <1>1, <1>5, Answering

LEMMA DecisionKept == ASSUME DecisionIInv, UNCHANGED vars, EngineIInv' PROVE DecisionIInv'
<1>1. UNCHANGED <<rule, rules, policy, phase, call, ix, context, skip_group, result>>
  BY DEF vars, ruleVars, evalVars
<1>2. RulesDecided' /\ PolicyPlaced'
  <2>1. RulesDecided'
    BY <1>1 DEF DecisionIInv, RulesDecided
  <2>2. PolicyPlaced'
    BY <1>1 DEF DecisionIInv, PolicyPlaced
  <2> QED
    BY <2>1, <2>2
<1>3. Underway'
  <2>1. AllShaped' = AllShaped /\ PastAll' = PastAll
    BY <1>1 DEF AllShaped, PastAll, NoneBefore
  <2>2. \A b, i, ops, t, k : Stands(b, i, ops, t, k) => Stands(b, i, ops, t, k)'
    BY <1>1 DEF Stands, NoneBefore, Agrees
  <2>3. (\E b, i, ops, t, k : Stands(b, i, ops, t, k))
           => (\E b, i, ops, t, k : Stands(b, i, ops, t, k))'
    BY <2>2
  <2> QED
    BY <1>1, <2>1, <2>3 DEF DecisionIInv, Underway
<1>4. Outcome'
  <2>1. AllShaped' = AllShaped
    BY <1>1 DEF AllShaped
  <2>2. NoneBefore(Len(rules) + 1) => NoneBefore(Len(rules) + 1)'
    BY <1>1 DEF NoneBefore
  <2>3. (\E i : Chosen(i)) => (\E i : Chosen(i))'
    BY <1>1 DEF Chosen, NoneBefore
  <2> QED
    BY <1>1, <2>1, <2>2, <2>3 DEF DecisionIInv, Outcome
<1> QED
  BY <1>2, <1>3, <1>4 DEF DecisionIInv

LEMMA DecisionStep == DecisionIInv /\ [Next]_vars => DecisionIInv'
<1> SUFFICES ASSUME DecisionIInv, [Next]_vars PROVE DecisionIInv'
  OBVIOUS
<1>0. EngineIInv'
  BY EngineStep DEF DecisionIInv
<1>1. CASE UNCHANGED vars
  BY <1>0, <1>1, DecisionKept
<1>2. ASSUME NEW a \in Actions, NewRule(a) PROVE DecisionIInv'
  BY <1>0, <1>2, NewRuleDecides
<1>3. ASSUME NEW c \in StringMatches, AddStringMatch(c) PROVE DecisionIInv'
  BY <1>0, <1>3, AddStringDecides
<1>4. ASSUME NEW c \in NumberMatches, AddNumberMatch(c) PROVE DecisionIInv'
  BY <1>0, <1>4, AddNumberDecides
<1>5. ASSUME NEW c \in Calls, Evaluate(c) \/ EvaluateNothing(c) PROVE DecisionIInv'
  BY <1>0, <1>5, BeginDecides
<1>6. CASE AddRule
  BY <1>0, <1>6, AddRuleDecides
<1>7. CASE Done
  BY <1>0, <1>7, DoneDecides
<1>8. CASE SkipOpcode
  BY <1>0, <1>8, SkipDecides
<1>9. CASE EvaluateCondition
  BY <1>0, <1>9, ConditionDecides
<1>10. CASE EvaluateAction
  BY <1>0, <1>10, ActionDecides
<1>11. CASE EndOfPolicy
  BY <1>0, <1>11, EndDecides
<1> QED
  BY <1>1, <1>2, <1>3, <1>4, <1>5, <1>6, <1>7, <1>8, <1>9, <1>10, <1>11 DEF Next

(* The first rule that applies is the one the reference expects.             *)
LEMMA ExpectedFacts ==
  ASSUME EngineIInv
  PROVE  /\ NoneBefore(Len(rules) + 1) => Expected(call) = "no_match"
         /\ \A i : Chosen(i) /\ Applies(rules[i], call) => Expected(call) = rules[i].action
         /\ \A i : Chosen(i) => result # "no_match"
<1> DEFINE n == Len(rules)
           R == [action : Actions, conditions : Seq(Conditions), opcodes : Ended]
           applying == {i \in 1..n : Applies(rules[i], call)}
<1>1. n \in Nat /\ \A i \in 1..n : rules[i].action \in Actions
  <2>1. \A r \in R : r.action \in Actions
    OBVIOUS
  <2>2. rules \in Seq(R)
    BY DEF EngineIInv, RulesRight
  <2> HIDE DEF R
  <2>3. n \in Nat /\ \A i \in 1..n : rules[i] \in R
    BY <2>2
  <2> QED
    BY <2>1, <2>3
<1>2. Expected(call) = IF applying = {} THEN "no_match" ELSE rules[Min(applying)].action
  BY DEF Expected
<1>3. ASSUME NoneBefore(n + 1) PROVE applying = {}
  <2>1. (n + 1) - 1 = n
    BY <1>1
  <2> QED
    BY <1>3, <2>1 DEF NoneBefore
<1>4. ASSUME NEW i, Chosen(i), Applies(rules[i], call) PROVE Expected(call) = rules[i].action
  <2>1. i \in 1..n /\ \A j \in 1..(i - 1) : ~Applies(rules[j], call)
    BY <1>4 DEF Chosen, NoneBefore
  <2>2. i \in applying
    BY <1>4, <2>1
  <2>3. \A j \in applying : i <= j /\ j \in Nat
    <3> SUFFICES ASSUME NEW j \in applying PROVE i <= j /\ j \in Nat
      OBVIOUS
    <3>1. j \in 1..n /\ Applies(rules[j], call)
      OBVIOUS
    <3>2. j \notin 1..(i - 1)
      BY <2>1, <3>1
    <3> QED
      BY <1>1, <2>1, <3>1, <3>2
  <2> HIDE DEF applying
  <2>4. Min(applying) \in applying /\ \A j \in applying : Min(applying) <= j
    BY <2>2, <2>3 DEF Min
  <2>5. Min(applying) = i
    BY <2>2, <2>3, <2>4
  <2> QED
    BY <1>2, <2>2, <2>5
<1>5. ASSUME NEW i, Chosen(i) PROVE result # "no_match"
  <2>1. result \in Actions
    BY <1>1, <1>5 DEF Chosen
  <2> QED
    BY <2>1, ActionsAssumption
<1> QED
  BY <1>2, <1>3, <1>4, <1>5

LEMMA DecisionMeans ==
  ASSUME DecisionIInv PROVE FirstMatchWins /\ QuestionMarkNeverStricter
<1>1. EngineIInv
  BY DEF DecisionIInv
<1>2. ASSUME phase = "answered", AllRules(Plain) PROVE result = Expected(call)
  <2>1. \A i \in 1..Len(rules) : Plain(rules[i])
    BY <1>2 DEF AllRules
  <2>2. AllShaped
    BY <2>1 DEF AllShaped, Shape
  <2>3. (result = "no_match" /\ NoneBefore(Len(rules) + 1)) \/ \E i : Chosen(i)
    BY <1>2, <2>2 DEF DecisionIInv, Outcome
  <2>4. \A i : Chosen(i) => Applies(rules[i], call) /\ result = rules[i].action
    BY <2>1 DEF Chosen
  <2> QED
    BY <1>1, <2>3, <2>4, ExpectedFacts
<1>3. ASSUME phase = "answered", AllRules(Positive), Expected(call) # "no_match"
      PROVE  result # "no_match"
  <2>1. \A i \in 1..Len(rules) : Positive(rules[i])
    BY <1>3 DEF AllRules
  <2>2. AllShaped
    BY <2>1 DEF AllShaped, Shape
  <2>3. (result = "no_match" /\ NoneBefore(Len(rules) + 1)) \/ \E i : Chosen(i)
    BY <1>3, <2>2 DEF DecisionIInv, Outcome
  <2> QED
    BY <1>1, <1>3, <2>3, ExpectedFacts
<1> QED
  BY <1>2, <1>3 DEF FirstMatchWins, QuestionMarkNeverStricter

(* For any patterns, strings, flags and rules, when every rule uses its      *)
(* conditions as they are documented (Plain): the action the processor       *)
(* returns is that of the first rule all of whose conditions hold, whatever  *)
(* groups of opcodes were skipped, negated or combined with OR before it     *)
(* (policy_low_level.cc:173, policy_engine_processor.cc:70).                 *)
THEOREM FirstMatchRight == Spec => []FirstMatchWins
<1>1. DecisionIInv => FirstMatchWins
  BY DecisionMeans
<1>2. Init => DecisionIInv
  BY DecisionStart
<1> QED
  BY <1>1, <1>2, DecisionStep, PTL DEF Spec

(* With '?' before any '*' and no negated pattern: a call some rule applies  *)
(* to is never answered with no match (policy_low_level.cc:145, policy_      *)
(* engine_opcodes.cc:270).                                                   *)
THEOREM QuestionMarkRight == Spec => []QuestionMarkNeverStricter
<1>1. DecisionIInv => QuestionMarkNeverStricter
  BY DecisionMeans
<1>2. Init => DecisionIInv
  BY DecisionStart
<1> QED
  BY <1>1, <1>2, DecisionStep, PTL DEF Spec
=============================================================================
