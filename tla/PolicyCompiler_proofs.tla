------------------------- MODULE PolicyCompiler_proofs -------------------------
(***************************************************************************)
(* The filter of a policy does what the policy says (CompilerRight), for   *)
(* any policy, width of words and reach of branches.                       *)
(*                                                                         *)
(* The code is argued about twice.  First as plans, the requests that the  *)
(* compiler makes: V stands for what running from each node returns, and a *)
(* V that reads a plan (Reads: each request means what it says, of the     *)
(* nodes that came before) gives its first instruction what the policy     *)
(* says.  One lemma says so of each piece that the compiler emits, and one *)
(* of each recursive function by induction over the objects: CondFacts,    *)
(* ResultFacts, TableFacts.  Then as the program that CodeGen made of the  *)
(* requests: when all are answered, the results of the nodes are such a V  *)
(* (ServesAll).                                                            *)
(*                                                                         *)
(* The invariant, CompilerIInv, says at each stage what every V that is    *)
(* true of the requests so far (Serves) has for the nodes that the         *)
(* compiler holds (Delivers).  Nodes that CodeGen made one are equal in V  *)
(* too, which is why CompareNodes may let the last range go on.  It speaks *)
(* of all V, and so is for the provers only.                               *)
(***************************************************************************)
EXTENDS PolicyCompiler, Seccomp_proofs

-----------------------------------------------------------------------------
(* Words and their bits.                                                     *)
(* Division, when quotient and remainder are known.                          *)
LEMMA Quotient ==
  ASSUME NEW p \in Nat \ {0}, NEW d \in Nat, NEW r \in Nat, r < p, NEW a, a = p * d + r
  PROVE  a \div p = d /\ a % p = r
<1>1. a \in Nat
  OBVIOUS
<1> DEFINE q == a \div p
           s == a % p
<1>2. q \in Int /\ s \in 0..(p - 1) /\ a = p * q + s
  BY <1>1
<1> HIDE DEF q, s
<1>3. p * (q - d) = r - s
  BY <1>1, <1>2
<1>4. ~(q - d >= 1)
  <2> SUFFICES ASSUME q - d >= 1 PROVE FALSE
    OBVIOUS
  <2>1. p * (q - d) >= p * 1
    BY <1>2
  <2> QED
    BY <1>2, <1>3, <2>1
<1>5. ~(d - q >= 1)
  <2> SUFFICES ASSUME d - q >= 1 PROVE FALSE
    OBVIOUS
  <2>1. p * (d - q) >= p * 1
    BY <1>2
  <2>2. p * (d - q) = s - r
    BY <1>1, <1>2
  <2> QED
    BY <1>2, <2>1, <2>2
<1>6. q = d
  BY <1>2, <1>4, <1>5
<1>7. s = r
  BY <1>2, <1>3, <1>6
<1> QED
  BY <1>6, <1>7 DEF q, s

LEMMA PowerMultiple ==
  ASSUME NEW j \in 0..WordBits
  PROVE  \A i \in 0..WordBits : i > j => \E q \in Nat : q >= 1 /\ Power[i] = Power[j] * (2 * q)
<1> DEFINE n == WordBits
           Multiple(i) == \E q \in Nat : q >= 1 /\ Power[i] = Power[j] * (2 * q)
           G == {i \in 0..n : i > j => Multiple(i)}
<1>0. n \in Nat /\ j \in Nat
  BY CodeGenAssumption
<1>1. 0 \in G
  BY <1>0
<1>2. ASSUME NEW i \in 0..n, i > 0, i - 1 \in G PROVE i \in G
  <2>0. i \in 1..n /\ Power[i] = 2 * Power[i - 1] /\ Power[i - 1] \in Nat /\ Power[j] \in Nat
    BY <1>0, <1>2, PowerFacts
  <2>1. CASE i - 1 = j
    <3>1. Power[i] = Power[j] * (2 * 1)
      BY <2>0, <2>1
    <3>2. Multiple(i)
      BY <3>1
    <3> QED
      BY <3>2
  <2>2. CASE i - 1 > j
    <3>1. PICK q \in Nat : q >= 1 /\ Power[i - 1] = Power[j] * (2 * q)
      BY <1>2, <2>2
    <3>2. Power[i] = Power[j] * (2 * (2 * q)) /\ 2 * q \in Nat /\ 2 * q >= 1
      BY <2>0, <3>1
    <3>3. Multiple(i)
      BY <3>2
    <3> QED
      BY <3>3
  <2>3. CASE ~(i > j)
    BY <2>3
  <2> QED
    BY <1>0, <2>1, <2>2, <2>3
<1>3. G = 0..n
  <2>1. G \in SUBSET (0..n)
    OBVIOUS
  <2> HIDE DEF G
  <2> QED
    BY <1>0, <1>1, <1>2, <2>1, Segment
<1> QED
  BY <1>3

LEMMA BitOfPower ==
  ASSUME NEW i \in 0..(WordBits - 1), NEW j \in 0..(WordBits - 1)
  PROVE  Bit(Power[i], j) <=> i = j
<1>0. /\ i \in 0..WordBits /\ j \in 0..WordBits /\ Power[i] \in Nat \ {0} /\ Power[j] \in Nat \ {0}
      /\ i \in Nat /\ j \in Nat
  BY PowerFacts, CodeGenAssumption
<1>1. CASE i = j
  <2>1. Power[i] = Power[j] * 1 + 0
    BY <1>0, <1>1
  <2>2. Power[i] \div Power[j] = 1
    BY <1>0, <2>1, Quotient
  <2> QED
    BY <1>1, <2>2 DEF Bit
<1>2. CASE i > j
  <2>1. PICK q \in Nat : q >= 1 /\ Power[i] = Power[j] * (2 * q)
    BY <1>0, <1>2, PowerMultiple
  <2>2. Power[i] = Power[j] * (2 * q) + 0 /\ 2 * q \in Nat /\ 0 \in Nat /\ 0 < Power[j]
    BY <1>0, <2>1
  <2>3. Power[i] \div Power[j] = 2 * q
    BY <1>0, <2>2, Quotient
  <2>4. (2 * q) % 2 = 0
    OBVIOUS
  <2> QED
    BY <1>0, <1>2, <2>3, <2>4 DEF Bit
<1>3. CASE j > i
  <2>1. PICK q \in Nat : q >= 1 /\ Power[j] = Power[i] * (2 * q)
    BY <1>0, <1>3, PowerMultiple
  <2>2. Power[j] >= Power[i] * 2
    <3>1. Power[i] * (2 * q) >= Power[i] * 2
      BY <1>0, <2>1
    <3> QED
      BY <2>1, <3>1
  <2>3. Power[i] = Power[j] * 0 + Power[i] /\ Power[i] < Power[j]
    BY <1>0, <2>2
  <2>4. Power[i] \div Power[j] = 0
    BY <1>0, <2>3, Quotient
  <2> QED
    BY <1>0, <1>3, <2>4 DEF Bit
<1> QED
  BY <1>0, <1>1, <1>2, <1>3

(* A conjunction with a single bit.                                          *)
LEMMA BitAndPower ==
  ASSUME NEW a, NEW i \in 0..(WordBits - 1)
  PROVE  BitAnd(a, Power[i]) = IF Bit(a, i) THEN Power[i] ELSE 0
<1> DEFINE n == WordBits
           bit == IF Bit(a, i) THEN Power[i] ELSE 0
<1>0. n \in Nat /\ i \in Nat /\ i < n /\ Power[i] \in Nat
  BY CodeGenAssumption, PowerFacts
<1>1. PICK sum : Sums(a, Power[i], sum)
  BY BitAndSum
<1> DEFINE G == {k \in 0..n : sum[k] = IF k > i THEN bit ELSE 0}
<1>2. 0 \in G
  BY <1>0, <1>1 DEF Sums
<1>3. ASSUME NEW k \in 0..n, k > 0, k - 1 \in G PROVE k \in G
  <2>1. k \in 1..n /\ k - 1 \in 0..(n - 1) /\ sum[k] = sum[k - 1] + Shared(a, Power[i], k)
    BY <1>0, <1>1, <1>3 DEF Sums
  <2>2. Bit(Power[i], k - 1) <=> i = k - 1
    BY <2>1, BitOfPower
  <2>3. Shared(a, Power[i], k) = IF i = k - 1 THEN bit ELSE 0
    BY <2>2 DEF Shared
  <2>4. bit \in Nat
    BY <1>0
  <2> HIDE DEF bit
  <2>5. sum[k - 1] = IF k - 1 > i THEN bit ELSE 0
    BY <1>3
  <2>6. sum[k] = IF k > i THEN bit ELSE 0
    BY <1>0, <2>1, <2>3, <2>4, <2>5
  <2> QED
    BY <2>6
<1>4. n \in G
  <2>1. G \in SUBSET (0..n)
    OBVIOUS
  <2> HIDE DEF G
  <2>2. G = 0..n
    BY <1>0, <1>2, <1>3, <2>1, Segment
  <2> QED
    BY <1>0, <2>2
<1>5. sum[n] = bit
  BY <1>0, <1>4
<1> QED
  BY <1>1, <1>5 DEF Sums

LEMMA BitAndZero ==
  ASSUME NEW a
  PROVE  BitAnd(a, 0) = 0
<1> DEFINE n == WordBits
<1>0. n \in Nat /\ n \in 0..n
  BY CodeGenAssumption
<1>1. PICK sum : Sums(a, 0, sum)
  BY BitAndSum
<1> DEFINE G == {k \in 0..n : sum[k] = 0}
<1>2. 0 \in G
  BY <1>0, <1>1 DEF Sums
<1>3. ASSUME NEW k \in 0..n, k > 0, k - 1 \in G PROVE k \in G
  <2>1. k \in 1..n /\ sum[k] = sum[k - 1] + Shared(a, 0, k) /\ sum[k - 1] = 0
    BY <1>0, <1>1, <1>3 DEF Sums
  <2>2. Power[k - 1] \in Nat \ {0}
    BY <1>0, <2>1, PowerFacts
  <2>3. 0 = Power[k - 1] * 0 + 0
    BY <2>2
  <2>4. 0 \div Power[k - 1] = 0
    BY <2>2, <2>3, Quotient
  <2>5. ~Bit(0, k - 1)
    BY <2>4 DEF Bit
  <2> QED
    BY <2>1, <2>5 DEF Shared
<1>4. n \in G
  <2>1. G \in SUBSET (0..n)
    OBVIOUS
  <2> HIDE DEF G
  <2>2. G = 0..n
    BY <1>0, <1>2, <1>3, <2>1, Segment
  <2> QED
    BY <1>0, <2>2
<1> QED
  BY <1>1, <1>4 DEF Sums

LEMMA BitOfOnes ==
  ASSUME NEW i \in 0..(WordBits - 1)
  PROVE  Bit(Ones, i)
<1>0. i \in 0..WordBits /\ WordBits \in 0..WordBits /\ i < WordBits /\ Power[i] \in Nat \ {0}
      /\ Top \in Nat
  BY CodeGenAssumption, PowerFacts
<1>1. PICK q \in Nat : q >= 1 /\ Top = Power[i] * (2 * q)
  BY <1>0, PowerMultiple DEF Top
<1> DEFINE p == Power[i]
<1>2. p \in Nat \ {0} /\ Ones = p * (2 * q) - 1
  BY <1>0, <1>1 DEF Ones
<1> HIDE DEF p
<1>3. p * (2 * q) = p * (2 * q - 1) + p
  BY <1>2
<1>4. Ones = p * (2 * q - 1) + (p - 1) /\ 2 * q - 1 \in Nat /\ p - 1 \in Nat /\ p - 1 < p
  BY <1>1, <1>2, <1>3
<1> DEFINE d == 2 * q - 1
           r == p - 1
<1>5. /\ d \in Nat /\ r \in Nat /\ r < p /\ Ones = p * d + r
      /\ d % 2 = 1
  BY <1>1, <1>2, <1>4
<1> HIDE DEF d, r
<1>6. Ones \div p = d
  BY <1>2, <1>5, Quotient
<1> QED
  BY <1>5, <1>6 DEF Bit, p

LEMMA BitAndOnes ==
  ASSUME NEW a \in Word
  PROVE  BitAnd(a, Ones) = a
<1> DEFINE n == WordBits
<1>0. n \in Nat /\ n \in 0..n /\ 0 \in 0..n /\ a \in Nat /\ a < Top /\ Top \in Nat \ {0}
  BY CodeGenAssumption, PowerFacts DEF Word
<1>1. PICK sum : Sums(a, Ones, sum)
  BY BitAndSum
<1> DEFINE G == {k \in 0..n : sum[k] = a % Power[k]}
<1>2. 0 \in G
  <2>1. a % 1 = 0
    BY <1>0
  <2> QED
    BY <1>0, <1>1, <2>1, PowerFacts DEF Sums
<1>3. ASSUME NEW k \in 0..n, k > 0, k - 1 \in G PROVE k \in G
  <2>1. k \in 1..n /\ k - 1 \in 0..(n - 1) /\ sum[k] = sum[k - 1] + Shared(a, Ones, k)
    BY <1>0, <1>1, <1>3 DEF Sums
  <2> DEFINE p == Power[k - 1]
             d == a \div p
             e == d \div 2
             b == d % 2
             r == a % p
  <2>2. p \in Nat \ {0} /\ Power[k] = 2 * p
    BY <1>0, <2>1, PowerFacts
  <2>3. Shared(a, Ones, k) = IF b = 1 THEN p ELSE 0
    BY <2>1, BitOfOnes DEF Shared, Bit
  <2> HIDE DEF p
  <2>4. d \in Nat /\ r \in Nat /\ r < p /\ a = p * d + r
    BY <1>0, <2>2
  <2> HIDE DEF d, r
  <2>5. e \in Nat /\ b \in 0..1 /\ d = 2 * e + b
    BY <2>4
  <2> HIDE DEF e, b
  <2>6. p * (2 * e + b) = (2 * p) * e + p * b
    BY <2>2, <2>5
  <2>7. p * b = IF b = 1 THEN p ELSE 0
    BY <2>2, <2>5
  <2> DEFINE s == (IF b = 1 THEN p ELSE 0) + r
  <2>8. s \in Nat /\ s < 2 * p /\ a = (2 * p) * e + s /\ 2 * p \in Nat \ {0}
    BY <2>2, <2>4, <2>5, <2>6, <2>7
  <2> HIDE DEF s
  <2>9. a % (2 * p) = s
    BY <2>5, <2>8, Quotient
  <2>10. sum[k - 1] = r
    BY <1>3 DEF r, p
  <2>11. sum[k] = s
    BY <2>1, <2>2, <2>3, <2>4, <2>10 DEF s
  <2> QED
    BY <2>2, <2>9, <2>11
<1>4. n \in G
  <2>1. G \in SUBSET (0..n)
    OBVIOUS
  <2> HIDE DEF G
  <2>2. G = 0..n
    BY <1>0, <1>2, <1>3, <2>1, Segment
  <2> QED
    BY <1>0, <2>2
<1>5. a % Top = a
  <2>1. a = Top * 0 + a
    BY <1>0
  <2> QED
    BY <1>0, <2>1, Quotient
<1>6. sum[n] = a
  BY <1>4, <1>5 DEF Top
<1> QED
  BY <1>1, <1>6 DEF Sums

-----------------------------------------------------------------------------
(* Induction and recursion over 1..n, from all smaller numbers.              *)
LEMMA Smaller ==
  ASSUME NEW n \in Nat, NEW G,
         \A i \in 1..n : (\A j \in 1..n : j < i => j \in G) => i \in G
  PROVE  \A i \in 1..n : i \in G
<1> SUFFICES ASSUME (1..n) \ G # {} PROVE FALSE
  OBVIOUS
<1>1. (1..n) \ G \in SUBSET Nat
  OBVIOUS
<1>2. PICK x \in (1..n) \ G : \A y \in (1..n) \ G : x <= y
  BY <1>1, LeastNumber
<1>3. ASSUME NEW j \in 1..n, j < x PROVE j \in G
  BY <1>2, <1>3
<1> QED
  BY <1>2, <1>3

Back(step, n, X) ==
  \A i \in 1..n : \A f, g \in [1..n -> X] :
    (\A j \in 1..n : j < i => f[j] = g[j]) => step[<<i, f>>] = step[<<i, g>>]

Solves(f, step, n) == \A i \in 1..n : f[i] = step[<<i, f>>]

LEMMA Recursion ==
  ASSUME NEW n \in Nat, NEW X, X # {}, NEW step \in [(1..n) \X [1..n -> X] -> X],
         Back(step, n, X)
  PROVE  \E f \in [1..n -> X] : Solves(f, step, n)
<1> USE DEF Back, Solves
<1> DEFINE Upto(f, k) == \A i \in 1..n : i <= k => f[i] = step[<<i, f>>]
           G == {k \in 0..n : \E f \in [1..n -> X] : Upto(f, k)}
<1>1. PICK x \in X : TRUE
  OBVIOUS
<1>2. 0 \in G
  <2> DEFINE f == [i \in 1..n |-> x]
  <2>1. f \in [1..n -> X] /\ 0 \in 0..n
    OBVIOUS
  <2>2. \A i \in 1..n : ~(i <= 0)
    OBVIOUS
  <2> HIDE DEF f
  <2> QED
    BY <2>1, <2>2
<1>3. ASSUME NEW k \in 0..n, k > 0, k - 1 \in G PROVE k \in G
  <2>1. PICK f \in [1..n -> X] : Upto(f, k - 1)
    BY <1>3
  <2>2. k \in 1..n /\ step[<<k, f>>] \in X
    BY <1>3
  <2> DEFINE g == [i \in 1..n |-> IF i = k THEN step[<<k, f>>] ELSE f[i]]
  <2>3. g \in [1..n -> X]
    BY <2>2
  <2>4. g[k] = step[<<k, f>>] /\ \A i \in 1..n : i < k => g[i] = f[i]
    BY <2>2
  <2> HIDE DEF g
  <2>5. ASSUME NEW i \in 1..n, i <= k PROVE g[i] = step[<<i, g>>]
    <3>1. \A j \in 1..n : j < i => f[j] = g[j]
      BY <2>4, <2>5
    <3>2. step[<<i, f>>] = step[<<i, g>>]
      BY <2>3, <3>1
    <3>3. i < k => f[i] = step[<<i, f>>]
      BY <2>1, <2>5
    <3>4. i = k \/ i < k
      BY <2>2, <2>5
    <3> QED
      BY <2>4, <3>2, <3>3, <3>4
  <2>6. Upto(g, k)
    BY <2>5
  <2> QED
    BY <2>3, <2>6
<1>4. n \in G
  <2>1. G \in SUBSET (0..n)
    OBVIOUS
  <2> HIDE DEF G
  <2>2. G = 0..n
    BY <1>2, <1>3, <2>1, Segment
  <2> QED
    BY <2>2
<1>5. PICK f \in [1..n -> X] : Upto(f, n)
  BY <1>4
<1> QED
  BY <1>5

-----------------------------------------------------------------------------
(* Plans of the compiler: what is asked for, and only of what came before.   *)
KeysOf(p) ==
  {p.objects[i].key : i \in {j \in DOMAIN p.objects : p.objects[j].kind = "trap"}}
    \union {PanicKey} \union {ErrnoKey(err) : err \in Nat}
Plain == Actions \X Nat
AskedReturns(p) == Plain \union ({"TRAP"} \X KeysOf(p))

Asked(p) ==
  ({"RET"} \X AskedReturns(p) \X {kNullNode} \X {kNullNode})
    \union {<<step[1], step[2], jt, kNullNode>> : step \in AllSteps, jt \in Nat}
    \union {<<test[1], test[2], jt, jf>> : test \in AllTests, jt \in Nat, jf \in Nat}

Plans(p) == [base : Nat, requests : Seq(Asked(p)), node : Nat]

Targets(r, n) ==
  /\ r[1] # "RET" => r[3] \in 1..(n - 1)
  /\ r[1] \in Branches => r[4] \in 1..(n - 1)
Behind(c) == \A i \in 1..Len(c.requests) : Targets(c.requests[i], c.base + i)
Whole(p, c) == c \in Plans(p) /\ Behind(c)

(* What is read off a value for every node: V[n][acc] is what running from n *)
(* returns, with the errors that ReturnErrno makes.                          *)
Shown(ret) ==
  IF ret[1] = "TRAP" /\ ret[2].fnc = "ReturnErrno" THEN <<"ERRNO", ret[2].aux>> ELSE ret

Gives(V, n, result) == \A acc \in 0..Top : V[n][acc] = result

MeansReturn(V, n, r) == r[1] = "RET" => Gives(V, n, Shown(r[2]))
MeansLoad(V, data, n, r) == r[1] = "LD" => Gives(V, n, V[r[3]][data[r[2]]])
MeansMask(V, n, r) == r[1] = "AND" => \A acc \in 0..Top : V[n][acc] = V[r[3]][Masked(acc, r[2])]
MeansBranch(V, n, r) ==
  r[1] \in Branches =>
    \A acc \in Word : V[n][acc] = V[IF Taken(r[1], r[2], acc) THEN r[3] ELSE r[4]][acc]
Means(V, data, n, r) ==
  MeansReturn(V, n, r) /\ MeansLoad(V, data, n, r) /\ MeansMask(V, n, r) /\ MeansBranch(V, n, r)

Reads(V, data, c) == \A i \in 1..Len(c.requests) : Means(V, data, c.base + i, c.requests[i])

(* An unsafe trap is asked for.                                              *)
Unsafe(r) == IsTrap(r) /\ ~r[2][2].safe
UnsafeIn(c) == \E i \in 1..Len(c.requests) : Unsafe(c.requests[i])

(* d goes on where c ended.                                                  *)
Extends(p, c, d) ==
  /\ Whole(p, d) /\ d.node \in 1..Count(d)
  /\ d.base = c.base /\ Count(c) <= Count(d)
  /\ \A V, data : Reads(V, data, d) => Reads(V, data, c)

Safely(c, d) == UnsafeIn(d) => UnsafeIn(c)

LEMMA PlanFacts ==
  ASSUME NEW p, NEW c, c \in Plans(p)
  PROVE  /\ c.base \in Nat /\ c.requests \in Seq(Asked(p)) /\ c.node \in Nat
         /\ Len(c.requests) \in Nat /\ Count(c) \in Nat /\ Count(c) = c.base + Len(c.requests)
         /\ c.base <= Count(c)
  BY DEF Plans, Count

LEMMA PlanOf ==
  ASSUME NEW p, NEW base \in Nat, NEW asked \in Seq(Asked(p)), NEW x \in Nat,
         NEW d, d = [base |-> base, requests |-> asked, node |-> x]
  PROVE  /\ d \in Plans(p) /\ d.base = base /\ d.requests = asked /\ d.node = x
         /\ Count(d) = base + Len(asked)
<1>1. d.base = base /\ d.requests = asked /\ d.node = x
  OBVIOUS
<1> QED
  BY <1>1 DEF Plans, Count

LEMMA CodeWhole ==
  ASSUME NEW p, NEW base \in Nat
  PROVE  /\ Whole(p, Code(base)) /\ Code(base).base = base /\ Count(Code(base)) = base
         /\ ~UnsafeIn(Code(base)) /\ Code(base).node = kNullNode
         /\ Code(base).requests = <<>>
<1>1. Code(base) = [base |-> base, requests |-> <<>>, node |-> 0]
  BY DEF Code, kNullNode
<1>2. Code(base) \in Plans(p)
  BY <1>1 DEF Plans
<1>3. Len(Code(base).requests) = 0 /\ Code(base).base = base /\ Code(base).requests = <<>>
      /\ Code(base).node = 0
  BY <1>1
<1> QED
  BY <1>2, <1>3 DEF Whole, Behind, Count, UnsafeIn, kNullNode

(* One more request.                                                         *)
LEMMA Emitting ==
  ASSUME NEW p, NEW c, Whole(p, c), NEW code, NEW k, NEW jt, NEW jf,
         <<code, k, jt, jf>> \in Asked(p), Targets(<<code, k, jt, jf>>, Count(c) + 1),
         NEW d, d = Emit(c, code, k, jt, jf)
  PROVE  /\ Extends(p, c, d) /\ d.node = Count(d) /\ Count(d) = Count(c) + 1
         /\ \A V, data : Reads(V, data, d) => Means(V, data, d.node, <<code, k, jt, jf>>)
         /\ UnsafeIn(d) => UnsafeIn(c) \/ Unsafe(<<code, k, jt, jf>>)
<1> DEFINE r == <<code, k, jt, jf>>
           n == Len(c.requests)
<1>1. /\ d.base = c.base /\ d.requests = Append(c.requests, r) /\ d.node = Count(c) + 1
      /\ d = [base |-> c.base, requests |-> Append(c.requests, r), node |-> Count(c) + 1]
  BY DEF Emit
<1>2. c.base \in Nat /\ c.requests \in Seq(Asked(p)) /\ n \in Nat /\ Count(c) = c.base + n
      /\ Count(c) \in Nat
  BY PlanFacts DEF Whole
<1>0. r \in Asked(p) /\ Targets(r, Count(c) + 1)
  OBVIOUS
<1> HIDE DEF r
<1>3. /\ d.requests \in Seq(Asked(p)) /\ Len(d.requests) = n + 1 /\ d.requests[n + 1] = r
      /\ \A i \in 1..n : d.requests[i] = c.requests[i]
  BY <1>0, <1>1, <1>2
<1>4. d \in Plans(p) /\ Count(d) = c.base + (n + 1)
  <2> DEFINE asked == Append(c.requests, r)
             x == Count(c) + 1
  <2>1. asked \in Seq(Asked(p)) /\ Len(asked) = n + 1
    BY <1>1, <1>3
  <2>2. x \in Nat /\ c.base \in Nat /\ d = [base |-> c.base, requests |-> asked, node |-> x]
    BY <1>1, <1>2
  <2> HIDE DEF asked, x
  <2> QED
    BY <2>1, <2>2, PlanOf
<1> HIDE DEF n
<1>5. 1..Len(d.requests) = (1..n) \union {n + 1}
  BY <1>2, <1>3
<1>6. d.base + (n + 1) = Count(c) + 1 /\ Count(d) = Count(c) + 1
  <2> DEFINE b == c.base
             x == Count(c)
  <2>1. b \in Nat /\ n \in Nat /\ x = b + n /\ d.base = b /\ Count(d) = b + (n + 1)
    BY <1>1, <1>2, <1>4
  <2> HIDE DEF b, x
  <2>2. d.base + (n + 1) = x + 1 /\ Count(d) = x + 1
    BY <2>1
  <2> QED
    BY <2>2 DEF x
<1>7. Behind(d)
  <2>1. \A i \in 1..n : Targets(c.requests[i], c.base + i)
    BY DEF Whole, Behind, n
  <2> SUFFICES ASSUME NEW i \in 1..Len(d.requests) PROVE Targets(d.requests[i], d.base + i)
    BY DEF Behind
  <2>2. CASE i \in 1..n
    BY <1>1, <1>3, <2>1, <2>2
  <2>3. CASE i = n + 1
    BY <1>0, <1>3, <1>6, <2>3
  <2> QED
    BY <1>5, <2>2, <2>3
<1>8. ASSUME NEW V, NEW data, Reads(V, data, d)
      PROVE  Reads(V, data, c) /\ Means(V, data, d.node, r)
  <2>1. \A i \in 1..Len(d.requests) : Means(V, data, d.base + i, d.requests[i])
    BY <1>8 DEF Reads
  <2>2. \A i \in 1..n : Means(V, data, c.base + i, c.requests[i])
    BY <1>1, <1>3, <1>5, <2>1
  <2>3. Means(V, data, d.base + (n + 1), r)
    BY <1>3, <1>5, <2>1
  <2>4. d.base + (n + 1) = d.node
    BY <1>1, <1>6
  <2> QED
    BY <2>2, <2>3, <2>4 DEF Reads, n
<1>9. UnsafeIn(d) => UnsafeIn(c) \/ Unsafe(r)
  BY <1>3, <1>5 DEF UnsafeIn, n
<1>10. d.node \in 1..Count(d) /\ Count(c) <= Count(d)
  <2> DEFINE x == Count(c)
             y == Count(d)
             node == d.node
  <2>1. x \in Nat /\ y = x + 1 /\ node = x + 1
    BY <1>1, <1>2, <1>6
  <2> HIDE DEF x, y, node
  <2>2. node \in 1..y /\ x <= y
    BY <2>1
  <2> QED
    BY <2>2 DEF x, y, node
<1>11. Extends(p, c, d)
  BY <1>1, <1>4, <1>7, <1>8, <1>10 DEF Extends, Whole
<1> QED
  BY <1>1, <1>6, <1>8, <1>9, <1>11 DEF r

LEMMA Extending ==
  ASSUME NEW p, NEW b, NEW c, NEW d, Whole(p, b), Extends(p, b, c), Extends(p, c, d)
  PROVE  Extends(p, b, d)
<1>1. Count(b) \in Nat /\ Count(c) \in Nat /\ Count(d) \in Nat
  BY PlanFacts DEF Extends, Whole
<1> QED
  BY <1>1 DEF Extends

LEMMA ReturnAsked ==
  ASSUME NEW p, NEW ret \in AskedReturns(p), NEW n
  PROVE  /\ <<"RET", ret, kNullNode, kNullNode>> \in Asked(p)
         /\ Targets(<<"RET", ret, kNullNode, kNullNode>>, n)
  BY DEF Asked, Targets, Branches

LEMMA StepAsked ==
  ASSUME NEW p, NEW code, NEW k, <<code, k>> \in AllSteps, NEW n \in Nat, NEW jt \in 1..n
  PROVE  /\ <<code, k, jt, kNullNode>> \in Asked(p)
         /\ Targets(<<code, k, jt, kNullNode>>, n + 1)
         /\ ~Unsafe(<<code, k, jt, kNullNode>>)
<1>1. code \in {"LD", "AND"} /\ code \notin Branches /\ jt \in Nat /\ (n + 1) - 1 = n
  BY DEF AllSteps, Branches
<1>2. \E step \in AllSteps, j \in Nat : <<code, k, jt, kNullNode>> = <<step[1], step[2], j, kNullNode>>
  <2>1. <<code, k>>[1] = code /\ <<code, k>>[2] = k
    OBVIOUS
  <2> QED
    BY <1>1, <2>1
<1>3. Targets(<<code, k, jt, kNullNode>>, n + 1)
  BY <1>1 DEF Targets
<1> QED
  BY <1>1, <1>2, <1>3 DEF Asked, Unsafe, IsTrap

LEMMA TestAsked ==
  ASSUME NEW p, NEW code, NEW k, <<code, k>> \in AllTests, NEW n \in Nat, NEW jt \in 1..n,
         NEW jf \in 1..n
  PROVE  /\ <<code, k, jt, jf>> \in Asked(p)
         /\ Targets(<<code, k, jt, jf>>, n + 1)
         /\ ~Unsafe(<<code, k, jt, jf>>)
<1>1. code \in Branches /\ jt \in Nat /\ jf \in Nat /\ (n + 1) - 1 = n /\ code # "RET"
  BY DEF AllTests, Branches
<1>2. \E test \in AllTests, j \in Nat, l \in Nat : <<code, k, jt, jf>> = <<test[1], test[2], j, l>>
  <2>1. <<code, k>>[1] = code /\ <<code, k>>[2] = k
    OBVIOUS
  <2> QED
    BY <1>1, <2>1
<1>3. Targets(<<code, k, jt, jf>>, n + 1)
  BY <1>1 DEF Targets
<1> QED
  BY <1>1, <1>2, <1>3 DEF Asked, Unsafe, IsTrap

(* The three kinds of requests, and what a value that reads them says.       *)
LEMMA Returning ==
  ASSUME NEW p, NEW c, Whole(p, c), NEW ret \in AskedReturns(p),
         NEW d, d = Emit(c, "RET", ret, kNullNode, kNullNode)
  PROVE  /\ Extends(p, c, d)
         /\ \A V, data : Reads(V, data, d) => Gives(V, d.node, Shown(ret))
         /\ UnsafeIn(d) => UnsafeIn(c) \/ (ret[1] = "TRAP" /\ ~ret[2].safe)
<1> DEFINE r == <<"RET", ret, kNullNode, kNullNode>>
<1>1. r \in Asked(p) /\ Targets(r, Count(c) + 1)
  BY ReturnAsked
<1>2. r[1] = "RET" /\ r[2] = ret
  OBVIOUS
<1>3. /\ Extends(p, c, d)
      /\ \A V, data : Reads(V, data, d) => Means(V, data, d.node, r)
      /\ UnsafeIn(d) => UnsafeIn(c) \/ Unsafe(r)
  BY <1>1, Emitting
<1> HIDE DEF r
<1> QED
  BY <1>2, <1>3 DEF Means, MeansReturn, Unsafe, IsTrap

LEMMA Loading ==
  ASSUME NEW p, NEW c, Whole(p, c), c.node \in 1..Count(c), NEW field \in Fields,
         NEW d, d = Then(c, "LD", field)
  PROVE  /\ Extends(p, c, d) /\ Safely(c, d)
         /\ \A V, data : Reads(V, data, d) => Gives(V, d.node, V[c.node][data[field]])
<1> DEFINE r == <<"LD", field, c.node, kNullNode>>
<1>0. Count(c) \in Nat /\ <<"LD", field>> \in AllSteps
  BY PlanFacts DEF Whole, AllSteps
<1>1. r \in Asked(p) /\ Targets(r, Count(c) + 1) /\ ~Unsafe(r)
  BY <1>0, StepAsked
<1>2. r[1] = "LD" /\ r[2] = field /\ r[3] = c.node
  OBVIOUS
<1>3. d = Emit(c, "LD", field, c.node, kNullNode)
  BY DEF Then
<1>4. /\ Extends(p, c, d)
      /\ \A V, data : Reads(V, data, d) => Means(V, data, d.node, r)
      /\ UnsafeIn(d) => UnsafeIn(c) \/ Unsafe(r)
  BY <1>1, <1>3, Emitting
<1> HIDE DEF r
<1> QED
  BY <1>1, <1>2, <1>4 DEF Means, MeansLoad, Safely

LEMMA Masking ==
  ASSUME NEW p, NEW c, Whole(p, c), c.node \in 1..Count(c), NEW mask \in Word,
         NEW d, d = Then(c, "AND", mask)
  PROVE  /\ Extends(p, c, d) /\ Safely(c, d)
         /\ \A V, data : Reads(V, data, d) =>
              \A acc \in Word : V[d.node][acc] = V[c.node][BitAnd(acc, mask)]
<1> DEFINE r == <<"AND", mask, c.node, kNullNode>>
<1>0. Count(c) \in Nat /\ <<"AND", mask>> \in AllSteps
  BY PlanFacts DEF Whole, AllSteps
<1>1. r \in Asked(p) /\ Targets(r, Count(c) + 1) /\ ~Unsafe(r)
  BY <1>0, StepAsked
<1>2. r[1] = "AND" /\ r[2] = mask /\ r[3] = c.node
  OBVIOUS
<1>3. d = Emit(c, "AND", mask, c.node, kNullNode)
  BY DEF Then
<1>4. /\ Extends(p, c, d)
      /\ \A V, data : Reads(V, data, d) => Means(V, data, d.node, r)
      /\ UnsafeIn(d) => UnsafeIn(c) \/ Unsafe(r)
  BY <1>1, <1>3, Emitting
<1> HIDE DEF r
<1>5. ASSUME NEW V, NEW data, Reads(V, data, d), NEW acc \in Word
      PROVE  V[d.node][acc] = V[c.node][BitAnd(acc, mask)]
  <2>1. acc \in 0..Top /\ Masked(acc, mask) = BitAnd(acc, mask)
    BY AccFacts DEF Masked
  <2>2. MeansMask(V, d.node, r)
    BY <1>4, <1>5 DEF Means
  <2> QED
    BY <1>2, <2>1, <2>2 DEF MeansMask
<1> QED
  BY <1>1, <1>4, <1>5 DEF Safely

LEMMA Branching ==
  ASSUME NEW p, NEW c, Whole(p, c), NEW code \in Branches, NEW k \in Word,
         NEW jt \in 1..Count(c), NEW jf \in 1..Count(c), NEW d, d = Emit(c, code, k, jt, jf)
  PROVE  /\ Extends(p, c, d) /\ Safely(c, d)
         /\ \A V, data : Reads(V, data, d) =>
              \A acc \in Word : V[d.node][acc] = V[IF Taken(code, k, acc) THEN jt ELSE jf][acc]
<1> DEFINE r == <<code, k, jt, jf>>
<1>0. Count(c) \in Nat /\ <<code, k>> \in AllTests
  BY PlanFacts DEF Whole, AllTests
<1>1. r \in Asked(p) /\ Targets(r, Count(c) + 1) /\ ~Unsafe(r)
  BY <1>0, TestAsked
<1>2. r[1] = code /\ r[2] = k /\ r[3] = jt /\ r[4] = jf
  OBVIOUS
<1>4. /\ Extends(p, c, d)
      /\ \A V, data : Reads(V, data, d) => Means(V, data, d.node, r)
      /\ UnsafeIn(d) => UnsafeIn(c) \/ Unsafe(r)
  BY <1>1, Emitting
<1> HIDE DEF r
<1> QED
  BY <1>1, <1>2, <1>4 DEF Means, MeansBranch, Safely

(* A plan behind another one.                                                *)
LEMMA Joining ==
  ASSUME NEW p, NEW c, Whole(p, c), NEW d, Whole(p, d), d.base = Count(c), d.node \in 1..Count(d),
         NEW e, e = Joined(c, d)
  PROVE  /\ Extends(p, c, e) /\ Count(e) = Count(d) /\ e.node = d.node
         /\ \A V, data : Reads(V, data, e) => Reads(V, data, d)
         /\ UnsafeIn(e) => UnsafeIn(c) \/ UnsafeIn(d)
<1> DEFINE n == Len(c.requests)
           m == Len(d.requests)
<1>1. /\ c.base \in Nat /\ c.requests \in Seq(Asked(p)) /\ n \in Nat /\ Count(c) = c.base + n
      /\ d.requests \in Seq(Asked(p)) /\ m \in Nat /\ Count(d) = Count(c) + m /\ d.node \in Nat
      /\ Count(c) \in Nat
  BY PlanFacts DEF Whole
<1>2. /\ e.base = c.base /\ e.requests = c.requests \o d.requests /\ e.node = d.node
      /\ e = [base |-> c.base, requests |-> c.requests \o d.requests, node |-> d.node]
  BY DEF Joined
<1>3. /\ e.requests \in Seq(Asked(p)) /\ Len(e.requests) = n + m
      /\ \A i \in 1..n : e.requests[i] = c.requests[i]
      /\ \A i \in 1..m : e.requests[n + i] = d.requests[i]
  <2> DEFINE s == c.requests
             t == d.requests
  <2>1. s \in Seq(Asked(p)) /\ t \in Seq(Asked(p)) /\ n = Len(s) /\ m = Len(t)
        /\ e.requests = s \o t
    BY <1>1, <1>2
  <2> HIDE DEF s, t, n, m
  <2>2. /\ s \o t \in Seq(Asked(p)) /\ Len(s \o t) = n + m
        /\ \A i \in 1..(n + m) : (s \o t)[i] = IF i <= n THEN s[i] ELSE t[i - n]
    BY <2>1, ConcatProperties
  <2>3. \A i \in 1..n : i \in 1..(n + m) /\ i <= n
    BY <1>1
  <2>4. \A i \in 1..m : n + i \in 1..(n + m) /\ ~(n + i <= n) /\ (n + i) - n = i
    BY <1>1
  <2>5. \A i \in 1..n : (s \o t)[i] = s[i]
    BY <2>2, <2>3
  <2>6. \A i \in 1..m : (s \o t)[n + i] = t[i]
    BY <2>2, <2>4
  <2>7. Len(s \o t) = n + m /\ s \o t \in Seq(Asked(p))
    BY <2>2
  <2> QED
    BY <2>1, <2>5, <2>6, <2>7 DEF s, t
<1>4. e \in Plans(p) /\ Count(e) = Count(d)
  <2> DEFINE asked == c.requests \o d.requests
             b == c.base
             x == Count(c)
  <2>1. asked \in Seq(Asked(p)) /\ Len(asked) = n + m
    BY <1>2, <1>3
  <2>2. b \in Nat /\ d.node \in Nat /\ e = [base |-> b, requests |-> asked, node |-> d.node]
    BY <1>1, <1>2
  <2>3. n \in Nat /\ m \in Nat /\ x = b + n /\ Count(d) = x + m
    BY <1>1
  <2> HIDE DEF asked, b, x, n, m
  <2>4. e \in Plans(p) /\ Count(e) = b + (n + m)
    BY <2>1, <2>2, PlanOf
  <2> QED
    BY <2>2, <2>3, <2>4
<1> HIDE DEF n, m
<1>5. /\ \A i \in 1..Len(e.requests) : i \in 1..n \/ \E j \in 1..m : i = n + j
      /\ \A i \in 1..n : i \in 1..Len(e.requests)
      /\ \A j \in 1..m : n + j \in 1..Len(e.requests) /\ e.base + (n + j) = d.base + j
  <2> DEFINE b == c.base
  <2>2. b \in Nat /\ n \in Nat /\ m \in Nat /\ Len(e.requests) = n + m /\ e.base = b
        /\ d.base = b + n
    BY <1>1, <1>2, <1>3
  <2> HIDE DEF b
  <2>1. ASSUME NEW i \in 1..(n + m), i \notin 1..n PROVE \E j \in 1..m : i = n + j
    <3>1. i - n \in 1..m /\ i = n + (i - n)
      BY <1>1, <2>1
    <3> QED
      BY <3>1
  <2>3. \A j \in 1..m : n + j \in 1..(n + m) /\ b + (n + j) = (b + n) + j
    BY <2>2
  <2>4. \A i \in 1..n : i \in 1..(n + m)
    BY <2>2
  <2> QED
    BY <2>1, <2>2, <2>3, <2>4
<1>6. Behind(e)
  <2>1. \A i \in 1..n : Targets(c.requests[i], c.base + i)
    BY DEF Whole, Behind, n
  <2>2. \A i \in 1..m : Targets(d.requests[i], d.base + i)
    BY DEF Whole, Behind, m
  <2> SUFFICES ASSUME NEW i \in 1..Len(e.requests) PROVE Targets(e.requests[i], e.base + i)
    BY DEF Behind
  <2>3. CASE i \in 1..n
    BY <1>2, <1>3, <2>1, <2>3
  <2>4. ASSUME NEW j \in 1..m, i = n + j PROVE Targets(e.requests[i], e.base + i)
    BY <1>3, <1>5, <2>2, <2>4
  <2> QED
    BY <1>5, <2>3, <2>4
<1>7. ASSUME NEW V, NEW data, Reads(V, data, e) PROVE Reads(V, data, c) /\ Reads(V, data, d)
  <2>1. \A i \in 1..Len(e.requests) : Means(V, data, e.base + i, e.requests[i])
    BY <1>7 DEF Reads
  <2>2. ASSUME NEW i \in 1..n PROVE Means(V, data, c.base + i, c.requests[i])
    BY <1>2, <1>3, <1>5, <2>1
  <2>3. ASSUME NEW j \in 1..m PROVE Means(V, data, d.base + j, d.requests[j])
    BY <1>3, <1>5, <2>1
  <2> QED
    BY <2>2, <2>3 DEF Reads, n, m
<1>8. UnsafeIn(e) => UnsafeIn(c) \/ UnsafeIn(d)
  BY <1>3, <1>5 DEF UnsafeIn, n, m
<1>9. Count(c) <= Count(e) /\ e.node \in 1..Count(e)
  BY <1>1, <1>2, <1>4
<1> QED
  BY <1>2, <1>4, <1>6, <1>7, <1>8, <1>9 DEF Extends, Whole

-----------------------------------------------------------------------------
(* The words that the compiler compares with.                                *)
LEMMA WordFacts ==
  /\ WordBits \in Nat /\ WordBits >= 2 /\ WordBits - 1 \in 0..(WordBits - 1)
  /\ WordBits - 2 \in 0..(WordBits - 1)
  /\ Top = 2 * Half /\ Half = Power[WordBits - 1] /\ Half = 2 * (Half \div 2)
  /\ Half \div 2 = Power[WordBits - 2] /\ Half \div 2 \in Nat /\ Half \div 2 >= 1
  /\ Half \in Word /\ Half \div 2 \in Word /\ Ones \in Word
  /\ 0 \in Word /\ 1 \in Word /\ 2 \in Word /\ Word \subseteq Nat /\ Ones = Top - 1 /\ Top \in Nat
<1> DEFINE n == WordBits
           q == Power[n - 2]
           h == Power[n - 1]
<1>1. n \in Nat /\ n >= 2
  BY CodeGenAssumption, PolicyAssumption
<1>2. n \in 1..n /\ n - 1 \in 1..n /\ (n - 1) - 1 = n - 2 /\ n - 2 \in 0..n
  BY <1>1
<1>3. Top = 2 * h /\ h = 2 * q /\ q \in Nat /\ q >= 1
  BY <1>2, PowerFacts DEF Top
<1> HIDE DEF h, q
<1>4. Half = h /\ Half \div 2 = q
  BY <1>3 DEF Half
<1>5. Word = 0..(2 * h - 1) /\ Ones = Top - 1
  BY <1>3 DEF Word, Ones
<1>6. h \in Word /\ q \in Word /\ Ones \in Word /\ 0 \in Word /\ 1 \in Word /\ 2 \in Word
      /\ Word \subseteq Nat
  BY <1>3, <1>5
<1>7. n - 1 \in 0..(n - 1) /\ n - 2 \in 0..(n - 1) /\ Top \in Nat
  BY <1>1, <1>3
<1> QED
  BY <1>1, <1>3, <1>4, <1>5, <1>6, <1>7 DEF h, q

LEMMA HalfBit ==
  ASSUME NEW a \in Word
  PROVE  BitAnd(a, Half) # 0 <=> a >= Half
<1>1. /\ Top = 2 * Half /\ Half = Power[WordBits - 1] /\ Half \in Nat /\ Half >= 1
      /\ a \in Nat /\ a < Top /\ WordBits - 1 \in 0..(WordBits - 1)
  BY WordFacts DEF Word
<1>2. BitAnd(a, Half) = IF Bit(a, WordBits - 1) THEN Half ELSE 0
  BY <1>1, BitAndPower
<1>3. Bit(a, WordBits - 1) <=> (a \div Half) % 2 = 1
  BY <1>1 DEF Bit
<1> DEFINE h == Half
<1>4. CASE a >= h
  <2> DEFINE r == a - h
  <2>1. r \in Nat /\ r < h /\ a = h * 1 + r /\ h \in Nat \ {0}
    BY <1>1, <1>4
  <2> HIDE DEF r, h
  <2>2. a \div h = 1
    BY <2>1, Quotient
  <2> QED
    BY <1>1, <1>2, <1>3, <1>4, <2>2 DEF h
<1>5. CASE ~(a >= h)
  <2>1. a < h /\ a = h * 0 + a /\ h \in Nat \ {0} /\ a \in Nat
    BY <1>1, <1>5
  <2> HIDE DEF h
  <2>2. a \div h = 0
    BY <2>1, Quotient
  <2> QED
    BY <1>1, <1>2, <1>3, <1>5, <2>2 DEF h
<1> QED
  BY <1>4, <1>5

LEMMA QuarterBit ==
  ASSUME NEW a \in Word
  PROVE  BitAnd(a, Half \div 2) # 0 <=> (a \div (Half \div 2)) % 2 = 1
<1>1. /\ Half \div 2 = Power[WordBits - 2] /\ Half \div 2 >= 1 /\ Half \div 2 \in Nat
      /\ WordBits - 2 \in 0..(WordBits - 1)
  BY WordFacts
<1>2. BitAnd(a, Half \div 2) = IF Bit(a, WordBits - 2) THEN Half \div 2 ELSE 0
  BY <1>1, BitAndPower
<1>3. Bit(a, WordBits - 2) <=> (a \div (Half \div 2)) % 2 = 1
  BY <1>1 DEF Bit
<1> QED
  BY <1>1, <1>2, <1>3

-----------------------------------------------------------------------------
(* Comparisons.                                                              *)
Alarm == <<"TRAP", PanicKey>>

LEMMA Placing ==
  ASSUME NEW p, NEW c, Whole(p, c), NEW x \in 1..Count(c), NEW d, d = At(c, x)
  PROVE  /\ Extends(p, c, d) /\ Safely(c, d) /\ d.node = x
<1>1. /\ c.base \in Nat /\ c.requests \in Seq(Asked(p)) /\ Count(c) \in Nat /\ x \in Nat
      /\ Count(c) = c.base + Len(c.requests)
  BY PlanFacts DEF Whole
<1>2. d = [base |-> c.base, requests |-> c.requests, node |-> x]
  BY DEF At
<1>3. d \in Plans(p) /\ d.base = c.base /\ d.requests = c.requests /\ d.node = x
      /\ Count(d) = Count(c)
  BY <1>1, <1>2, PlanOf
<1>4. Behind(d) /\ Safely(c, d) /\ \A V, data : Reads(V, data, d) <=> Reads(V, data, c)
  BY <1>3 DEF Whole, Behind, Safely, UnsafeIn, Reads
<1> QED
  BY <1>1, <1>3, <1>4 DEF Extends, Whole

LEMMA Panicking ==
  ASSUME NEW p, NEW c, Whole(p, c), NEW d, d = Panic(c)
  PROVE  /\ Extends(p, c, d) /\ Safely(c, d)
         /\ \A V, data : Reads(V, data, d) => Gives(V, d.node, Alarm)
<1> DEFINE ret == <<"TRAP", PanicKey>>
<1>1. ret \in AskedReturns(p) /\ ret[1] = "TRAP" /\ ret[2] = PanicKey
  BY DEF AskedReturns, KeysOf
<1>2. PanicKey.safe = TRUE /\ PanicKey.fnc # "ReturnErrno"
  BY DEF PanicKey
<1>3. d = Emit(c, "RET", ret, kNullNode, kNullNode)
  BY DEF Panic, EmitTrap
<1>4. Shown(ret) = Alarm
  BY <1>1, <1>2 DEF Shown, Alarm
<1> HIDE DEF ret
<1> QED
  BY <1>1, <1>2, <1>3, <1>4, Returning DEF Safely

(* The node n compares the masked accumulator with value.                    *)
TestedAs(V, n, mask, value, T, E) ==
  \A acc \in Word : V[n][acc] = IF BitAnd(acc, mask) = value THEN T ELSE E

LEMMA GivesWord ==
  ASSUME NEW V, NEW n, NEW T, Gives(V, n, T)
  PROVE  \A acc \in Word : V[n][acc] = T
  BY AccFacts DEF Gives

(* What d tests, whatever follows.                                           *)
TestsFor(d, mask, value, passed, failed) ==
  \A V, data, T, E :
    Reads(V, data, d) /\ Gives(V, passed, T) /\ Gives(V, failed, E) => TestedAs(V, d.node, mask, value, T, E)

LEMMA Testing ==
  ASSUME NEW p, NEW c, Whole(p, c), NEW mask \in Word, NEW value \in Word,
         value = BitAnd(value, mask), NEW passed \in 1..Count(c), NEW failed \in 1..Count(c),
         NEW d, d = MaskedTest(c, mask, value, passed, failed)
  PROVE  Extends(p, c, d) /\ Safely(c, d) /\ TestsFor(d, mask, value, passed, failed)
<1>0. 0 \in Word /\ "JEQ" \in Branches /\ "JSET" \in Branches
  BY WordFacts DEF Branches
<1>1. CASE mask = Ones
  <2>1. d = Emit(c, "JEQ", value, passed, failed)
    BY <1>1 DEF MaskedTest
  <2>2. /\ Extends(p, c, d) /\ Safely(c, d)
        /\ \A V, data : Reads(V, data, d) =>
             \A acc \in Word : V[d.node][acc] = V[IF Taken("JEQ", value, acc) THEN passed ELSE failed][acc]
    BY <1>0, <2>1, Branching
  <2>3. ASSUME NEW V, NEW data, NEW T, NEW E, Reads(V, data, d), Gives(V, passed, T), Gives(V,
               failed, E),
               NEW acc \in Word
        PROVE  V[d.node][acc] = IF BitAnd(acc, mask) = value THEN T ELSE E
    <3>1. V[d.node][acc] = V[IF Taken("JEQ", value, acc) THEN passed ELSE failed][acc]
      BY <2>2, <2>3
    <3>2. Taken("JEQ", value, acc) <=> BitAnd(acc, mask) = value
      BY <1>1, BitAndOnes DEF Taken
    <3>3. V[passed][acc] = T /\ V[failed][acc] = E
      BY <2>3, GivesWord
    <3> QED
      BY <3>1, <3>2, <3>3
  <2> QED
    BY <2>2, <2>3 DEF TestsFor, TestedAs
<1>2. CASE mask # Ones /\ value = 0
  <2>1. d = Emit(c, "JSET", mask, failed, passed)
    BY <1>2 DEF MaskedTest
  <2>2. /\ Extends(p, c, d) /\ Safely(c, d)
        /\ \A V, data : Reads(V, data, d) =>
             \A acc \in Word : V[d.node][acc] = V[IF Taken("JSET", mask, acc) THEN failed ELSE passed][acc]
    BY <1>0, <2>1, Branching
  <2>3. ASSUME NEW V, NEW data, NEW T, NEW E, Reads(V, data, d), Gives(V, passed, T), Gives(V,
               failed, E),
               NEW acc \in Word
        PROVE  V[d.node][acc] = IF BitAnd(acc, mask) = value THEN T ELSE E
    <3>1. V[d.node][acc] = V[IF Taken("JSET", mask, acc) THEN failed ELSE passed][acc]
      BY <2>2, <2>3
    <3>2. Taken("JSET", mask, acc) <=> BitAnd(acc, mask) # value
      BY <1>2 DEF Taken
    <3>3. V[passed][acc] = T /\ V[failed][acc] = E
      BY <2>3, GivesWord
    <3> QED
      BY <3>1, <3>2, <3>3
  <2> QED
    BY <2>2, <2>3 DEF TestsFor, TestedAs
<1>3. CASE mask # Ones /\ value # 0 /\ mask = value /\ SingleBit(mask)
  <2>1. d = Emit(c, "JSET", mask, passed, failed)
    BY <1>3 DEF MaskedTest
  <2>2. /\ Extends(p, c, d) /\ Safely(c, d)
        /\ \A V, data : Reads(V, data, d) =>
             \A acc \in Word : V[d.node][acc] = V[IF Taken("JSET", mask, acc) THEN passed ELSE failed][acc]
    BY <1>0, <2>1, Branching
  <2>3. ASSUME NEW V, NEW data, NEW T, NEW E, Reads(V, data, d), Gives(V, passed, T), Gives(V,
               failed, E),
               NEW acc \in Word
        PROVE  V[d.node][acc] = IF BitAnd(acc, mask) = value THEN T ELSE E
    <3>1. V[d.node][acc] = V[IF Taken("JSET", mask, acc) THEN passed ELSE failed][acc]
      BY <2>2, <2>3
    <3>2. PICK i \in 0..(WordBits - 1) : mask = Power[i]
      BY <1>3 DEF SingleBit
    <3>3. BitAnd(acc, mask) = IF Bit(acc, i) THEN mask ELSE 0
      BY <3>2, BitAndPower
    <3>4. Taken("JSET", mask, acc) <=> BitAnd(acc, mask) = value
      BY <1>3, <3>3 DEF Taken
    <3>5. V[passed][acc] = T /\ V[failed][acc] = E
      BY <2>3, GivesWord
    <3> QED
      BY <3>1, <3>4, <3>5
  <2> QED
    BY <2>2, <2>3 DEF TestsFor, TestedAs
<1>4. CASE mask # Ones /\ value # 0 /\ ~(mask = value /\ SingleBit(mask))
  <2> DEFINE e == Emit(c, "JEQ", value, passed, failed)
  <2>1. d = Then(e, "AND", mask)
    BY <1>4 DEF MaskedTest
  <2>2. /\ Extends(p, c, e) /\ Safely(c, e)
        /\ \A V, data : Reads(V, data, e) =>
             \A acc \in Word : V[e.node][acc] = V[IF Taken("JEQ", value, acc) THEN passed ELSE failed][acc]
    BY <1>0, Branching
  <2> HIDE DEF e
  <2>3. Whole(p, e) /\ e.node \in 1..Count(e)
    BY <2>2 DEF Extends
  <2>4. /\ Extends(p, e, d) /\ Safely(e, d)
        /\ \A V, data : Reads(V, data, d) =>
             \A acc \in Word : V[d.node][acc] = V[e.node][BitAnd(acc, mask)]
    BY <2>1, <2>3, Masking
  <2>5. Extends(p, c, d) /\ Safely(c, d)
    BY <2>2, <2>4, Extending DEF Safely
  <2>6. ASSUME NEW V, NEW data, NEW T, NEW E, Reads(V, data, d), Gives(V, passed, T), Gives(V,
               failed, E),
               NEW acc \in Word
        PROVE  V[d.node][acc] = IF BitAnd(acc, mask) = value THEN T ELSE E
    <3>0. BitAnd(acc, mask) \in Word /\ Reads(V, data, e)
      BY <2>4, <2>6, BitAndFacts DEF Extends
    <3> DEFINE and == BitAnd(acc, mask)
    <3>1. V[d.node][acc] = V[e.node][and]
      BY <2>4, <2>6
    <3> HIDE DEF and
    <3>2. V[e.node][and] = V[IF Taken("JEQ", value, and) THEN passed ELSE failed][and]
      BY <2>2, <3>0 DEF and
    <3>3. Taken("JEQ", value, and) <=> and = value
      BY DEF Taken
    <3>4. V[passed][and] = T /\ V[failed][and] = E
      BY <2>6, <3>0, GivesWord DEF and
    <3> QED
      BY <3>1, <3>2, <3>3, <3>4 DEF and
  <2> QED
    BY <2>5, <2>6 DEF TestsFor, TestedAs
<1> QED
  BY <1>1, <1>2, <1>3, <1>4

(* One half of an argument, but for the upper half of 32 bits.               *)
HalfFor(d, cond, half, passed, failed) ==
  \A V, T, E : \A data \in Datas :
    Reads(V, data, d) /\ Gives(V, passed, T) /\ Gives(V, failed, E) =>
      Gives(V, d.node, IF BitAnd(data[HalfName(half)], cond.mask[half]) = cond.value[half] THEN T ELSE E)

LEMMA HalfTesting ==
  ASSUME NEW p, NEW c, Whole(p, c), NEW wide, NEW cond, NEW half \in {Lower, Upper},
         ~(cond.width = 4 /\ half = Upper),
         cond.mask[half] \in Word, cond.value[half] \in Word,
         cond.value[half] = BitAnd(cond.value[half], cond.mask[half]),
         NEW passed \in 1..Count(c), NEW failed \in 1..Count(c),
         NEW d, d = MaskedEqualHalf(c, wide, cond, half, passed, failed)
  PROVE  Extends(p, c, d) /\ Safely(c, d) /\ HalfFor(d, cond, half, passed, failed)
<1> DEFINE mask == cond.mask[half]
           value == cond.value[half]
           field == HalfName(half)
<1>0. mask \in Word /\ value \in Word /\ value = BitAnd(value, mask)
  OBVIOUS
<1>1. field \in Fields
  BY DEF HalfName, Lower, Upper, Fields
<1>2. d = IF mask = 0 THEN At(c, passed) ELSE Then(MaskedTest(c, mask, value, passed, failed), "LD", field)
  BY DEF MaskedEqualHalf
<1> HIDE DEF mask, value, field
<1>3. CASE mask = 0
  <2>1. Extends(p, c, d) /\ Safely(c, d) /\ d.node = passed
    BY <1>2, <1>3, Placing
  <2>2. value = 0 /\ \A a : BitAnd(a, mask) = 0
    BY <1>0, <1>3, BitAndZero
  <2> QED
    BY <2>1, <2>2 DEF HalfFor, mask, value
<1>4. CASE mask # 0
  <2> DEFINE e == MaskedTest(c, mask, value, passed, failed)
  <2>1. Extends(p, c, e) /\ Safely(c, e) /\ TestsFor(e, mask, value, passed, failed)
    BY <1>0, Testing
  <2>2. d = Then(e, "LD", field)
    BY <1>2, <1>4
  <2> HIDE DEF e
  <2>3. Whole(p, e) /\ e.node \in 1..Count(e)
    BY <2>1 DEF Extends
  <2>4. /\ Extends(p, e, d) /\ Safely(e, d)
        /\ \A V, data : Reads(V, data, d) => Gives(V, d.node, V[e.node][data[field]])
    BY <1>1, <2>2, <2>3, Loading
  <2>5. Extends(p, c, d) /\ Safely(c, d)
    BY <2>1, <2>4, Extending DEF Safely
  <2>6. ASSUME NEW V, NEW T, NEW E, NEW data \in Datas,
               Reads(V, data, d), Gives(V, passed, T), Gives(V, failed, E)
        PROVE  Gives(V, d.node, IF BitAnd(data[field], mask) = value THEN T ELSE E)
    <3>1. Reads(V, data, e)
      BY <2>4, <2>6 DEF Extends
    <3>2. TestedAs(V, e.node, mask, value, T, E)
      BY <2>1, <2>6, <3>1 DEF TestsFor
    <3>3. data[field] \in Word
      BY <1>1 DEF Datas
    <3>4. V[e.node][data[field]] = IF BitAnd(data[field], mask) = value THEN T ELSE E
      BY <3>2, <3>3 DEF TestedAs
    <3>5. Gives(V, d.node, V[e.node][data[field]])
      BY <2>4, <2>6
    <3> QED
      BY <3>4, <3>5
  <2> QED
    BY <2>5, <2>6 DEF HalfFor, mask, value, field
<1> QED
  BY <1>3, <1>4

(* What goes on where a plan ended knows all of its nodes.                   *)
LEMMA Later ==
  ASSUME NEW p, NEW c, NEW d, Whole(p, c), Extends(p, c, d)
  PROVE  /\ Whole(p, d) /\ d.node \in 1..Count(d) /\ d.node \in Nat /\ d.base = c.base
         /\ Count(c) \in Nat /\ Count(d) \in Nat
         /\ \A x \in 1..Count(c) : x \in 1..Count(d)
         /\ \A V, data : Reads(V, data, d) => Reads(V, data, c)
<1>1. Whole(p, d) /\ d.node \in 1..Count(d) /\ d.base = c.base /\ Count(c) <= Count(d)
  BY DEF Extends
<1>2. Count(c) \in Nat /\ Count(d) \in Nat
  BY <1>1, PlanFacts DEF Whole
<1>3. \A V, data : Reads(V, data, d) => Reads(V, data, c)
  BY DEF Extends
<1> QED
  BY <1>1, <1>2, <1>3

(* The upper half of 32 bits.                                                *)
Unsigned(wide, lo, hi) == hi # 0 /\ ~(wide /\ hi = Ones /\ lo >= Half)

SignFor(d, wide, passed) ==
  \A V, T : \A data \in Datas :
    Reads(V, data, d) /\ Gives(V, passed, T) =>
      Gives(V, d.node, IF Unsigned(wide, data["arg_lo"], data["arg_hi"]) THEN Alarm ELSE T)

LEMMA SignChecking ==
  ASSUME NEW p, NEW c, Whole(p, c), NEW wide \in BOOLEAN, NEW passed \in 1..Count(c),
         NEW d, d = SignCheck(Panic(c), wide, passed)
  PROVE  Extends(p, c, d) /\ Safely(c, d) /\ SignFor(d, wide, passed)
<1> DEFINE q == Panic(c)
<1>0. /\ 0 \in Word /\ Ones \in Word /\ Half \in Word /\ "JEQ" \in Branches /\ "JSET" \in Branches
      /\ "arg_lo" \in Fields /\ "arg_hi" \in Fields
      /\ HalfName(Lower) = "arg_lo" /\ HalfName(Upper) = "arg_hi"
  BY WordFacts DEF Branches, Fields, HalfName, Lower, Upper
<1>1. /\ Extends(p, c, q) /\ Safely(c, q)
      /\ \A V, data : Reads(V, data, q) => Gives(V, q.node, Alarm)
  BY Panicking
<1>2. Whole(p, q) /\ q.node \in 1..Count(q) /\ passed \in 1..Count(q)
  BY <1>1, Later
<1>3. CASE ~wide
  <2> DEFINE zero == Emit(q, "JEQ", 0, passed, q.node)
  <2>1. d = Then(zero, "LD", "arg_hi")
    BY <1>0, <1>3 DEF SignCheck, OnFalse
  <2> HIDE DEF q
  <2>2. /\ Extends(p, q, zero) /\ Safely(q, zero)
        /\ \A V, data : Reads(V, data, zero) =>
             \A acc \in Word : V[zero.node][acc] = V[IF Taken("JEQ", 0, acc) THEN passed ELSE q.node][acc]
    BY <1>0, <1>2, Branching
  <2> HIDE DEF zero
  <2>3. Whole(p, zero) /\ zero.node \in 1..Count(zero)
    BY <2>2 DEF Extends
  <2>4. /\ Extends(p, zero, d) /\ Safely(zero, d)
        /\ \A V, data : Reads(V, data, d) => Gives(V, d.node, V[zero.node][data["arg_hi"]])
    BY <1>0, <2>1, <2>3, Loading
  <2>5. Extends(p, c, zero)
    BY <1>1, <2>2, Extending
  <2>6. Extends(p, c, d) /\ Safely(c, d)
    BY <1>1, <2>2, <2>4, <2>5, Extending DEF Safely
  <2>7. ASSUME NEW V, NEW T, NEW data \in Datas, Reads(V, data, d), Gives(V, passed, T)
        PROVE  Gives(V, d.node, IF Unsigned(wide, data["arg_lo"], data["arg_hi"]) THEN Alarm ELSE T)
    <3> DEFINE hi == data["arg_hi"]
    <3>1. hi \in Word
      BY <1>0 DEF Datas
    <3>2. Reads(V, data, zero) /\ Reads(V, data, q)
      BY <2>2, <2>4, <2>7 DEF Extends
    <3>3. Gives(V, d.node, V[zero.node][hi])
      BY <2>4, <2>7
    <3>4. V[zero.node][hi] = V[IF Taken("JEQ", 0, hi) THEN passed ELSE q.node][hi]
      BY <2>2, <3>1, <3>2
    <3>5. Taken("JEQ", 0, hi) <=> ~Unsigned(wide, data["arg_lo"], hi)
      BY <1>3 DEF Taken, Unsigned
    <3>6. V[passed][hi] = T
      BY <2>7, <3>1, GivesWord
    <3>7. V[q.node][hi] = Alarm
      BY <1>1, <3>1, <3>2, GivesWord
    <3> HIDE DEF hi
    <3>8. V[zero.node][hi] = IF Unsigned(wide, data["arg_lo"], hi) THEN Alarm ELSE T
      BY <3>4, <3>5, <3>6, <3>7
    <3> QED
      BY <3>3, <3>8 DEF hi
  <2> QED
    BY <2>6, <2>7 DEF SignFor
<1>4. CASE wide
  <2> DEFINE a == Emit(q, "JSET", Half, passed, q.node)
             sign == Then(a, "LD", "arg_lo")
             b == Emit(sign, "JEQ", Ones, sign.node, q.node)
             zero == Emit(b, "JEQ", 0, passed, b.node)
  <2>1. d = Then(zero, "LD", "arg_hi")
    BY <1>0, <1>4 DEF SignCheck, OnTrue, OnFalse
  <2> HIDE DEF q, zero
  <2>2. /\ Extends(p, q, a) /\ Safely(q, a)
        /\ \A V, data : Reads(V, data, a) =>
             \A acc \in Word : V[a.node][acc] = V[IF Taken("JSET", Half, acc) THEN passed ELSE q.node][acc]
    <3> HIDE DEF b, sign
    <3> QED
      BY <1>0, <1>2, Branching
  <2> HIDE DEF a
  <2>3. /\ Whole(p, a) /\ a.node \in 1..Count(a) /\ passed \in 1..Count(a) /\ q.node \in 1..Count(a)
        /\ \A V, data : Reads(V, data, a) => Reads(V, data, q)
    BY <1>2, <2>2, Later
  <2>4. /\ Extends(p, a, sign) /\ Safely(a, sign)
        /\ \A V, data : Reads(V, data, sign) => Gives(V, sign.node, V[a.node][data["arg_lo"]])
    <3> HIDE DEF b
    <3> QED
      BY <1>0, <2>3, Loading
  <2> HIDE DEF sign
  <2>5. /\ Whole(p, sign) /\ sign.node \in 1..Count(sign) /\ passed \in 1..Count(sign)
        /\ q.node \in 1..Count(sign)
        /\ \A V, data : Reads(V, data, sign) => Reads(V, data, a)
    BY <2>3, <2>4, Later
  <2>6. /\ Extends(p, sign, b) /\ Safely(sign, b)
        /\ \A V, data : Reads(V, data, b) =>
             \A acc \in Word : V[b.node][acc] = V[IF Taken("JEQ", Ones, acc) THEN sign.node ELSE q.node][acc]
    BY <1>0, <2>5, Branching
  <2> HIDE DEF b
  <2>7. /\ Whole(p, b) /\ b.node \in 1..Count(b) /\ passed \in 1..Count(b)
        /\ \A V, data : Reads(V, data, b) => Reads(V, data, sign)
    BY <2>5, <2>6, Later
  <2>8. /\ Extends(p, b, zero) /\ Safely(b, zero)
        /\ \A V, data : Reads(V, data, zero) =>
             \A acc \in Word : V[zero.node][acc] = V[IF Taken("JEQ", 0, acc) THEN passed ELSE b.node][acc]
    BY <1>0, <2>7, Branching DEF zero
  <2>9. /\ Whole(p, zero) /\ zero.node \in 1..Count(zero)
        /\ \A V, data : Reads(V, data, zero) => Reads(V, data, b)
    BY <2>7, <2>8, Later
  <2>10. /\ Extends(p, zero, d) /\ Safely(zero, d)
         /\ \A V, data : Reads(V, data, d) => Gives(V, d.node, V[zero.node][data["arg_hi"]])
    BY <1>0, <2>1, <2>9, Loading
  <2>11. Extends(p, c, a)
    BY <1>1, <2>2, Extending
  <2>12. Extends(p, c, sign)
    BY <2>11, <2>4, Extending
  <2>13. Extends(p, c, b)
    BY <2>12, <2>6, Extending
  <2>14. Extends(p, c, zero)
    BY <2>13, <2>8, Extending
  <2>15. Extends(p, c, d) /\ Safely(c, d)
    BY <1>1, <2>2, <2>4, <2>6, <2>8, <2>10, <2>14, Extending DEF Safely
  <2>16. ASSUME NEW V, NEW T, NEW data \in Datas, Reads(V, data, d), Gives(V, passed, T)
         PROVE  Gives(V, d.node, IF Unsigned(wide, data["arg_lo"], data["arg_hi"]) THEN Alarm ELSE T)
    <3> DEFINE hi == data["arg_hi"]
               lo == data["arg_lo"]
    <3>1. hi \in Word /\ lo \in Word
      BY <1>0 DEF Datas
    <3>2. /\ Reads(V, data, zero) /\ Reads(V, data, b) /\ Reads(V, data, sign) /\ Reads(V, data, a)
          /\ Reads(V, data, q)
      BY <2>3, <2>5, <2>7, <2>9, <2>10, <2>16 DEF Extends
    <3>3. Gives(V, d.node, V[zero.node][hi]) /\ Gives(V, sign.node, V[a.node][lo])
      BY <2>4, <2>10, <2>16, <3>2
    <3>4. Gives(V, q.node, Alarm)
      BY <1>1, <3>2
    <3>5. V[zero.node][hi] = V[IF Taken("JEQ", 0, hi) THEN passed ELSE b.node][hi]
      BY <2>8, <3>1, <3>2
    <3>6. V[b.node][hi] = V[IF Taken("JEQ", Ones, hi) THEN sign.node ELSE q.node][hi]
      BY <2>6, <3>1, <3>2
    <3>7. V[a.node][lo] = V[IF Taken("JSET", Half, lo) THEN passed ELSE q.node][lo]
      BY <2>2, <3>1, <3>2
    <3>8. /\ Taken("JEQ", 0, hi) <=> hi = 0
          /\ Taken("JEQ", Ones, hi) <=> hi = Ones
          /\ Taken("JSET", Half, lo) <=> lo >= Half
      BY <3>1, HalfBit DEF Taken
    <3>9. V[passed][hi] = T /\ V[passed][lo] = T /\ V[q.node][hi] = Alarm /\ V[q.node][lo] = Alarm
      BY <2>16, <3>1, <3>4, GivesWord
    <3>10. V[sign.node][hi] = V[a.node][lo]
      BY <3>1, <3>3, GivesWord
    <3> HIDE DEF hi, lo
    <3>11. V[a.node][lo] = IF lo >= Half THEN T ELSE Alarm
      BY <3>7, <3>8, <3>9
    <3>12. V[b.node][hi] = IF hi = Ones /\ lo >= Half THEN T ELSE Alarm
      BY <3>6, <3>8, <3>9, <3>10, <3>11
    <3>13. V[zero.node][hi] = IF Unsigned(wide, lo, hi) THEN Alarm ELSE T
      BY <1>4, <3>5, <3>8, <3>9, <3>12 DEF Unsigned
    <3> QED
      BY <3>3, <3>13 DEF hi, lo
  <2> QED
    BY <2>15, <2>16 DEF SignFor
<1> QED
  BY <1>3, <1>4

-----------------------------------------------------------------------------
(* A condition on an argument.                                               *)
Choice(holds, T, E) == IF holds = "yes" THEN T ELSE IF holds = "no" THEN E ELSE Alarm

EqualFor(d, wide, cond, passed, failed) ==
  \A V, T, E : \A data \in Datas :
    Reads(V, data, d) /\ Gives(V, passed, T) /\ Gives(V, failed, E) =>
      Gives(V, d.node, Choice(Equal(wide, cond, data["arg_lo"], data["arg_hi"]), T, E))

LEMMA Comparing ==
  ASSUME NEW p, BuildOK(p.build), NEW c, Whole(p, c), NEW cond, Compared(p, cond),
         NEW passed \in 1..Count(c), NEW failed \in 1..Count(c),
         NEW d, d = MaskedEqual(c, p.build.wide, cond, passed, failed)
  PROVE  Extends(p, c, d) /\ Safely(c, d) /\ EqualFor(d, p.build.wide, cond, passed, failed)
<1> DEFINE wide == p.build.wide
           lower == MaskedEqualHalf(c, wide, cond, Lower, passed, failed)
<1>0. /\ wide \in BOOLEAN /\ cond.width \in {4, 8} /\ Lower \in {Lower, Upper}
      /\ Upper \in {Lower, Upper}
      /\ Lower # Upper /\ HalfName(Lower) = "arg_lo" /\ HalfName(Upper) = "arg_hi"
      /\ cond.mask[Lower] \in Word /\ cond.value[Lower] \in Word
      /\ cond.value[Lower] = BitAnd(cond.value[Lower], cond.mask[Lower])
      /\ cond.mask[Upper] \in Word /\ cond.value[Upper] \in Word
      /\ cond.value[Upper] = BitAnd(cond.value[Upper], cond.mask[Upper])
  BY DEF BuildOK, Compared, Lower, Upper, HalfName
<1>1. d = MaskedEqualHalf(lower, wide, cond, Upper, lower.node, failed)
  BY DEF MaskedEqual
<1>2. Extends(p, c, lower) /\ Safely(c, lower) /\ HalfFor(lower, cond, Lower, passed, failed)
  <2> HIDE DEF wide
  <2>1. ~(cond.width = 4 /\ Lower = Upper)
    BY <1>0
  <2> QED
    BY <1>0, <2>1, HalfTesting
<1> HIDE DEF wide, lower
<1>3. /\ Whole(p, lower) /\ lower.node \in 1..Count(lower) /\ failed \in 1..Count(lower)
      /\ \A V, data : Reads(V, data, lower) => Reads(V, data, c)
  BY <1>2, Later
<1>4. CASE cond.width = 4
  <2>1. d = SignCheck(Panic(lower), wide, lower.node)
    BY <1>1, <1>4 DEF MaskedEqualHalf
  <2>2. Extends(p, lower, d) /\ Safely(lower, d) /\ SignFor(d, wide, lower.node)
    BY <1>0, <1>3, <2>1, SignChecking
  <2>3. Extends(p, c, d) /\ Safely(c, d)
    BY <1>2, <2>2, Extending DEF Safely
  <2>4. ASSUME NEW V, NEW T, NEW E, NEW data \in Datas,
               Reads(V, data, d), Gives(V, passed, T), Gives(V, failed, E)
        PROVE  Gives(V, d.node, Choice(Equal(wide, cond, data["arg_lo"], data["arg_hi"]), T, E))
    <3> DEFINE hi == data["arg_hi"]
               lo == data["arg_lo"]
               L == IF BitAnd(lo, cond.mask[Lower]) = cond.value[Lower] THEN T ELSE E
    <3>1. Reads(V, data, lower)
      BY <2>2, <2>4 DEF Extends
    <3>2. Gives(V, lower.node, L)
      BY <1>0, <1>2, <2>4, <3>1 DEF HalfFor
    <3>3. Gives(V, d.node, IF Unsigned(wide, lo, hi) THEN Alarm ELSE L)
      <4> HIDE DEF L
      <4> QED
        BY <2>2, <2>4, <3>2 DEF SignFor
    <3>4. (IF Unsigned(wide, lo, hi) THEN Alarm ELSE L) = Choice(Equal(wide, cond, lo, hi), T, E)
      <4> HIDE DEF lo, hi
      <4> QED
        BY <1>4 DEF Unsigned, Choice, Equal
    <3> QED
      BY <3>3, <3>4
  <2> QED
    BY <2>3, <2>4 DEF EqualFor, wide
<1>5. CASE cond.width = 8
  <2>0. ~(cond.width = 4 /\ Upper = Upper)
    BY <1>5
  <2>1. /\ Extends(p, lower, d) /\ Safely(lower, d)
        /\ HalfFor(d, cond, Upper, lower.node, failed)
    BY <1>0, <1>1, <1>3, <2>0, HalfTesting
  <2>3. Extends(p, c, d) /\ Safely(c, d)
    BY <1>2, <2>1, Extending DEF Safely
  <2>4. ASSUME NEW V, NEW T, NEW E, NEW data \in Datas,
               Reads(V, data, d), Gives(V, passed, T), Gives(V, failed, E)
        PROVE  Gives(V, d.node, Choice(Equal(wide, cond, data["arg_lo"], data["arg_hi"]), T, E))
    <3> DEFINE hi == data["arg_hi"]
               lo == data["arg_lo"]
               L == IF BitAnd(lo, cond.mask[Lower]) = cond.value[Lower] THEN T ELSE E
               H == IF BitAnd(hi, cond.mask[Upper]) = cond.value[Upper] THEN L ELSE E
    <3>1. Reads(V, data, lower)
      BY <2>1, <2>4 DEF Extends
    <3>2. Gives(V, lower.node, L)
      BY <1>0, <1>2, <2>4, <3>1 DEF HalfFor
    <3>3. Gives(V, d.node, H)
      <4> HIDE DEF L
      <4> QED
        BY <1>0, <2>1, <2>4, <3>2 DEF HalfFor
    <3>4. H = Choice(Equal(wide, cond, lo, hi), T, E)
      <4> HIDE DEF lo, hi
      <4> QED
        BY <1>5 DEF Choice, Equal
    <3> QED
      BY <3>3, <3>4
  <2> QED
    BY <2>3, <2>4 DEF EqualFor, wide
<1> QED
  BY <1>0, <1>4, <1>5

-----------------------------------------------------------------------------
(* The compiler's recursive functions, by their equations.                   *)
LEMMA ObjectFacts ==
  ASSUME NEW p, IsPolicy(p)
  PROVE  /\ Len(p.objects) \in Nat /\ DOMAIN p.objects = 1..Len(p.objects)
         /\ \A i \in DOMAIN p.objects : Built(p, i) /\ i \in Nat
         /\ BuildOK(p.build)
  BY DEF IsPolicy

LEMMA UnsafeEquation ==
  ASSUME NEW p, IsPolicy(p)
  PROVE  \A i \in DOMAIN p.objects : HasUnsafe(p)[i] = UnsafeAt(p, HasUnsafe(p), i)
<1> DEFINE n == Len(p.objects)
           F == [1..n -> BOOLEAN]
           step == [q \in (1..n) \X F |-> UnsafeAt(p, q[2], q[1])]
<1>0. n \in Nat /\ DOMAIN p.objects = 1..n /\ \A i \in 1..n : Built(p, i)
  BY ObjectFacts
<1>1. ASSUME NEW i \in 1..n, p.objects[i].kind = "if"
      PROVE  /\ p.objects[i].then \in 1..n /\ p.objects[i].then < i
             /\ p.objects[i].else \in 1..n /\ p.objects[i].else < i
  BY <1>0, <1>1 DEF Built, ResultAt
<1>2. \A i \in 1..n, f \in F : step[<<i, f>>] = UnsafeAt(p, f, i)
  OBVIOUS
<1>3. step \in [(1..n) \X F -> BOOLEAN]
  <2>1. \A i, f : UnsafeAt(p, f, i) \in BOOLEAN
    BY DEF UnsafeAt
  <2> QED
    BY <2>1
<1> HIDE DEF step, n
<1>4. Back(step, n, BOOLEAN)
  <2> SUFFICES ASSUME NEW i \in 1..n, NEW f \in F, NEW g \in F, \A j \in 1..n : j < i => f[j] = g[j]
               PROVE  step[<<i, f>>] = step[<<i, g>>]
    BY DEF Back
  <2>1. UnsafeAt(p, f, i) = UnsafeAt(p, g, i)
    BY <1>1 DEF UnsafeAt
  <2> QED
    BY <1>2, <2>1
<1>5. PICK f \in F : Solves(f, step, n)
  <2>1. BOOLEAN # {}
    OBVIOUS
  <2> QED
    BY <1>0, <1>3, <1>4, <2>1, Recursion
<1>6. f = [i \in DOMAIN p.objects |-> UnsafeAt(p, f, i)]
  BY <1>0, <1>2, <1>5 DEF Solves
<1> DEFINE chosen == CHOOSE g : g = [i \in DOMAIN p.objects |-> UnsafeAt(p, g, i)]
<1>7. HasUnsafe(p) = chosen
  BY DEF HasUnsafe
<1>8. chosen = [i \in DOMAIN p.objects |-> UnsafeAt(p, chosen, i)]
  BY <1>6
<1> HIDE DEF chosen
<1> QED
  BY <1>7, <1>8

(* Says and Holds.                                                           *)
Answers3 == {"yes", "no", "panic"}

LEMMA HoldsTyped ==
  ASSUME NEW p, IsPolicy(p), NEW lo, NEW hi, NEW i \in DOMAIN p.objects,
         NEW holds, \A j \in DOMAIN p.objects : j < i => holds[j] \in Answers3
  PROVE  HoldsAt(p, lo, hi, holds, i) \in Answers3
<1> DEFINE e == p.objects[i]
<1>0. Built(p, i) /\ i \in Nat
  BY ObjectFacts
<1>1. CASE e.kind = "const"
  BY <1>1 DEF HoldsAt, Answers3
<1>2. CASE e.kind = "equal"
  <2>1. HoldsAt(p, lo, hi, holds, i) = Equal(p.build.wide, e, lo, hi)
    BY <1>2 DEF HoldsAt
  <2> QED
    BY <2>1 DEF Equal, Answers3
<1>3. CASE e.kind = "not"
  <2>1. holds[e.of] \in Answers3
    BY <1>0, <1>3 DEF Built, CondAt
  <2>2. Opposite(holds[e.of]) \in Answers3
    BY <2>1 DEF Opposite, Answers3
  <2> QED
    BY <1>3, <2>2 DEF HoldsAt
<1>4. CASE e.kind \in {"and", "or"}
  <2>1. holds[e.lhs] \in Answers3 /\ holds[e.rhs] \in Answers3
    BY <1>0, <1>4 DEF Built, CondAt
  <2> QED
    BY <1>4, <2>1 DEF HoldsAt
<1>5. CASE e.kind \notin {"const", "equal", "not", "and", "or"}
  BY <1>5 DEF HoldsAt, Answers3
<1> QED
  BY <1>1, <1>2, <1>3, <1>4, <1>5

LEMMA HoldsSame ==
  ASSUME NEW p, IsPolicy(p), NEW lo, NEW hi, NEW i \in DOMAIN p.objects,
         NEW f, NEW g, \A j \in DOMAIN p.objects : j < i => f[j] = g[j]
  PROVE  HoldsAt(p, lo, hi, f, i) = HoldsAt(p, lo, hi, g, i)
<1> DEFINE e == p.objects[i]
<1>0. Built(p, i) /\ i \in Nat
  BY ObjectFacts
<1>1. e.kind = "not" => f[e.of] = g[e.of]
  BY <1>0 DEF Built, CondAt
<1>2. e.kind \in {"and", "or"} => f[e.lhs] = g[e.lhs] /\ f[e.rhs] = g[e.rhs]
  BY <1>0 DEF Built, CondAt
<1>3. CASE e.kind = "not"
  BY <1>1, <1>3 DEF HoldsAt
<1>4. CASE e.kind \in {"and", "or"}
  BY <1>2, <1>4 DEF HoldsAt
<1>5. CASE e.kind \notin {"not", "and", "or"}
  BY <1>5 DEF HoldsAt
<1> QED
  BY <1>3, <1>4, <1>5

LEMMA HoldsEquation ==
  ASSUME NEW p, IsPolicy(p), NEW lo, NEW hi
  PROVE  \A i \in DOMAIN p.objects : Holds(p, lo, hi)[i] = HoldsAt(p, lo, hi, Holds(p, lo, hi), i)
<1> DEFINE n == Len(p.objects)
           F == [1..n -> Answers3]
           step == [q \in (1..n) \X F |-> HoldsAt(p, lo, hi, q[2], q[1])]
<1>0. n \in Nat /\ DOMAIN p.objects = 1..n
  BY ObjectFacts
<1>2. \A i \in 1..n, f \in F : step[<<i, f>>] = HoldsAt(p, lo, hi, f, i)
  OBVIOUS
<1>3. step \in [(1..n) \X F -> Answers3]
  <2>1. ASSUME NEW i \in 1..n, NEW f \in F PROVE HoldsAt(p, lo, hi, f, i) \in Answers3
    <3>1. \A j \in DOMAIN p.objects : j < i => f[j] \in Answers3
      BY <1>0
    <3>2. i \in DOMAIN p.objects
      BY <1>0
    <3> QED
      BY <3>1, <3>2, HoldsTyped
  <2> QED
    BY <2>1
<1> HIDE DEF step, n
<1>4. Back(step, n, Answers3)
  <2> SUFFICES ASSUME NEW i \in 1..n, NEW f \in F, NEW g \in F, \A j \in 1..n : j < i => f[j] = g[j]
               PROVE  step[<<i, f>>] = step[<<i, g>>]
    BY DEF Back
  <2>1. HoldsAt(p, lo, hi, f, i) = HoldsAt(p, lo, hi, g, i)
    BY <1>0, HoldsSame
  <2> QED
    BY <1>2, <2>1
<1>5. PICK f \in F : Solves(f, step, n)
  <2>1. Answers3 # {}
    BY DEF Answers3
  <2> QED
    BY <1>0, <1>3, <1>4, <2>1, Recursion
<1>6. f = [i \in DOMAIN p.objects |-> HoldsAt(p, lo, hi, f, i)]
  BY <1>0, <1>2, <1>5 DEF Solves
<1> DEFINE chosen == CHOOSE g : g = [i \in DOMAIN p.objects |-> HoldsAt(p, lo, hi, g, i)]
<1>7. Holds(p, lo, hi) = chosen
  BY DEF Holds
<1>8. chosen = [i \in DOMAIN p.objects |-> HoldsAt(p, lo, hi, chosen, i)]
  BY <1>6
<1> HIDE DEF chosen
<1> QED
  BY <1>7, <1>8

LEMMA HoldsFacts ==
  ASSUME NEW p, IsPolicy(p), NEW lo, NEW hi
  PROVE  \A i \in DOMAIN p.objects : Holds(p, lo, hi)[i] \in Answers3
<1> DEFINE n == Len(p.objects)
           holds == Holds(p, lo, hi)
           G == {i \in 1..n : holds[i] \in Answers3}
<1>0. n \in Nat /\ DOMAIN p.objects = 1..n
  BY ObjectFacts
<1>1. \A i \in 1..n : holds[i] = HoldsAt(p, lo, hi, holds, i)
  BY <1>0, HoldsEquation
<1> HIDE DEF holds
<1>2. ASSUME NEW i \in 1..n, \A j \in 1..n : j < i => j \in G PROVE i \in G
  <2>1. i \in DOMAIN p.objects /\ \A j \in DOMAIN p.objects : j < i => holds[j] \in Answers3
    BY <1>0, <1>2
  <2>2. HoldsAt(p, lo, hi, holds, i) \in Answers3
    BY <2>1, HoldsTyped
  <2> QED
    BY <1>1, <2>2
<1>3. \A i \in 1..n : i \in G
  <2> HIDE DEF G
  <2> QED
    BY <1>0, <1>2, Smaller
<1> QED
  BY <1>0, <1>3 DEF holds

(* What a result says is something to return.                                *)
Sayings(p) == AskedReturns(p) \union {Invalid}

LEMMA SaysTyped ==
  ASSUME NEW p, IsPolicy(p), NEW lo, NEW hi, NEW i \in DOMAIN p.objects,
         NEW says, \A j \in DOMAIN p.objects : j < i => says[j] \in Sayings(p)
  PROVE  SaysAt(p, lo, hi, says, i) \in Sayings(p)
<1> DEFINE e == p.objects[i]
<1>0. Built(p, i) /\ i \in Nat
  BY ObjectFacts
<1>1. CASE e.kind = "return"
  <2>1. e.ret \in Plain
    BY <1>0, <1>1 DEF Built, Plain, Actions
  <2> QED
    BY <1>1, <2>1 DEF SaysAt, Sayings, AskedReturns
<1>2. CASE e.kind = "trap"
  <2>1. <<"TRAP", e.key>> \in AskedReturns(p)
    BY <1>2 DEF AskedReturns, KeysOf
  <2> QED
    BY <1>2, <2>1 DEF SaysAt, Sayings
<1>3. CASE e.kind = "if"
  <2>1. says[e.then] \in Sayings(p) /\ says[e.else] \in Sayings(p)
    BY <1>0, <1>3 DEF Built, ResultAt
  <2>2. <<"TRAP", PanicKey>> \in Sayings(p)
    BY DEF Sayings, AskedReturns, KeysOf
  <2>3. Invalid \in Sayings(p)
    BY DEF Sayings
  <2> QED
    BY <1>3, <2>1, <2>2, <2>3 DEF SaysAt
<1>4. CASE e.kind \notin {"return", "trap", "if"}
  BY <1>4 DEF SaysAt, Sayings
<1> QED
  BY <1>1, <1>2, <1>3, <1>4

LEMMA SaysSame ==
  ASSUME NEW p, IsPolicy(p), NEW lo, NEW hi, NEW i \in DOMAIN p.objects,
         NEW f, NEW g, \A j \in DOMAIN p.objects : j < i => f[j] = g[j]
  PROVE  SaysAt(p, lo, hi, f, i) = SaysAt(p, lo, hi, g, i)
<1> DEFINE e == p.objects[i]
<1>0. Built(p, i) /\ i \in Nat
  BY ObjectFacts
<1>1. CASE e.kind = "if"
  <2>1. f[e.then] = g[e.then] /\ f[e.else] = g[e.else]
    BY <1>0, <1>1 DEF Built, ResultAt
  <2> QED
    BY <1>1, <2>1 DEF SaysAt
<1>2. CASE e.kind # "if"
  BY <1>2 DEF SaysAt
<1> QED
  BY <1>1, <1>2

LEMMA SaysEquation ==
  ASSUME NEW p, IsPolicy(p), NEW lo, NEW hi
  PROVE  \A i \in DOMAIN p.objects : Says(p, lo, hi)[i] = SaysAt(p, lo, hi, Says(p, lo, hi), i)
<1> DEFINE n == Len(p.objects)
           S == Sayings(p)
           F == [1..n -> S]
           step == [q \in (1..n) \X F |-> SaysAt(p, lo, hi, q[2], q[1])]
<1>0. n \in Nat /\ DOMAIN p.objects = 1..n
  BY ObjectFacts
<1>2. \A i \in 1..n, f \in F : step[<<i, f>>] = SaysAt(p, lo, hi, f, i)
  OBVIOUS
<1>3. step \in [(1..n) \X F -> S]
  <2>1. ASSUME NEW i \in 1..n, NEW f \in F PROVE SaysAt(p, lo, hi, f, i) \in S
    <3>1. \A j \in DOMAIN p.objects : j < i => f[j] \in S
      BY <1>0
    <3>2. i \in DOMAIN p.objects
      BY <1>0
    <3> QED
      BY <3>1, <3>2, SaysTyped
  <2> QED
    BY <2>1
<1>4. S # {}
  BY DEF Sayings
<1> HIDE DEF step, n, S
<1>5. Back(step, n, S)
  <2> SUFFICES ASSUME NEW i \in 1..n, NEW f \in F, NEW g \in F, \A j \in 1..n : j < i => f[j] = g[j]
               PROVE  step[<<i, f>>] = step[<<i, g>>]
    BY DEF Back
  <2>1. SaysAt(p, lo, hi, f, i) = SaysAt(p, lo, hi, g, i)
    BY <1>0, SaysSame
  <2> QED
    BY <1>2, <2>1
<1>6. PICK f \in F : Solves(f, step, n)
  BY <1>0, <1>3, <1>4, <1>5, Recursion
<1>7. f = [i \in DOMAIN p.objects |-> SaysAt(p, lo, hi, f, i)]
  BY <1>0, <1>2, <1>6 DEF Solves
<1> DEFINE chosen == CHOOSE g : g = [i \in DOMAIN p.objects |-> SaysAt(p, lo, hi, g, i)]
<1>8. Says(p, lo, hi) = chosen
  BY DEF Says
<1>9. chosen = [i \in DOMAIN p.objects |-> SaysAt(p, lo, hi, chosen, i)]
  BY <1>7
<1> HIDE DEF chosen
<1> QED
  BY <1>8, <1>9

(* What a result says, and that it is shown as it is.                        *)
SaysSo(p, lo, hi, i) ==
  LET e == p.objects[i]
      says == Says(p, lo, hi)
  IN  /\ says[i] \in AskedReturns(p) /\ Shown(says[i]) = says[i]
      /\ e.kind = "return" => says[i] = e.ret
      /\ e.kind = "trap" => says[i] = <<"TRAP", e.key>>
      /\ e.kind = "if" =>
           says[i] = Choice(Holds(p, lo, hi)[e.cond], says[e.then], says[e.else])

LEMMA SaysFacts ==
  ASSUME NEW p, IsPolicy(p), NEW lo, NEW hi
  PROVE  \A i : ResultAt(p, i) => SaysSo(p, lo, hi, i)
<1> DEFINE n == Len(p.objects)
           says == Says(p, lo, hi)
           G == {i \in 1..n : ResultAt(p, i) => SaysSo(p, lo, hi, i)}
<1>0. n \in Nat /\ DOMAIN p.objects = 1..n
  BY ObjectFacts
<1>1. \A i \in 1..n : says[i] = SaysAt(p, lo, hi, says, i)
  BY <1>0, SaysEquation
<1>2. ASSUME NEW i \in 1..n, \A j \in 1..n : j < i => j \in G PROVE i \in G
  <2> DEFINE e == p.objects[i]
  <2>0. Built(p, i) /\ i \in DOMAIN p.objects
    BY <1>0, ObjectFacts
  <2>1. says[i] = SaysAt(p, lo, hi, says, i)
    BY <1>1
  <2> HIDE DEF says
  <2>2. CASE e.kind = "return"
    <3>1. e.ret \in Plain /\ says[i] = e.ret
      BY <2>0, <2>1, <2>2 DEF Built, Plain, Actions, SaysAt
    <3>2. e.ret[1] # "TRAP" /\ e.ret \in AskedReturns(p)
      BY <3>1 DEF Plain, Actions, AskedReturns
    <3> QED
      BY <2>2, <3>1, <3>2 DEF SaysSo, Shown, says
  <2>3. CASE e.kind = "trap"
    <3> DEFINE ret == <<"TRAP", e.key>>
    <3>1. ret \in AskedReturns(p)
      BY <2>0, <2>3 DEF AskedReturns, KeysOf
    <3>2. ret[2] = e.key /\ e.key.fnc # "ReturnErrno"
      BY <2>0, <2>3 DEF Built
    <3>3. says[i] = ret
      BY <2>1, <2>3 DEF SaysAt
    <3> HIDE DEF ret
    <3>4. Shown(ret) = ret
      BY <3>2 DEF Shown
    <3> QED
      BY <2>3, <3>1, <3>3, <3>4 DEF SaysSo, says, ret
  <2>4. CASE e.kind = "if"
    <3>1. /\ e.then \in 1..n /\ e.then < i /\ ResultAt(p, e.then)
          /\ e.else \in 1..n /\ e.else < i /\ ResultAt(p, e.else)
          /\ e.cond \in DOMAIN p.objects
      BY <1>0, <2>0, <2>4 DEF Built, ResultAt, CondAt
    <3>2. SaysSo(p, lo, hi, e.then) /\ SaysSo(p, lo, hi, e.else)
      BY <1>2, <3>1
    <3>3. /\ says[e.then] \in AskedReturns(p) /\ Shown(says[e.then]) = says[e.then]
          /\ says[e.else] \in AskedReturns(p) /\ Shown(says[e.else]) = says[e.else]
      BY <3>2 DEF SaysSo, says
    <3>4. Alarm \in AskedReturns(p) /\ Shown(Alarm) = Alarm
      <4>1. Alarm[2].fnc # "ReturnErrno"
        BY DEF Alarm, PanicKey
      <4> QED
        BY <4>1 DEF Alarm, AskedReturns, KeysOf, Shown
    <3>5. Holds(p, lo, hi)[e.cond] \in Answers3
      BY <3>1, HoldsFacts
    <3>6. says[i] = Choice(Holds(p, lo, hi)[e.cond], says[e.then], says[e.else])
      BY <2>1, <2>4, <3>5 DEF SaysAt, Choice, Answers3, Alarm
    <3>7. says[i] \in AskedReturns(p) /\ Shown(says[i]) = says[i]
      BY <3>3, <3>4, <3>6 DEF Choice
    <3> QED
      BY <2>4, <3>6, <3>7 DEF SaysSo, says
  <2>5. CASE e.kind \notin {"return", "trap", "if"}
    BY <2>5 DEF ResultAt
  <2> QED
    BY <2>2, <2>3, <2>4, <2>5
<1>3. \A i \in 1..n : i \in G
  <2> HIDE DEF G
  <2> QED
    BY <1>0, <1>2, Smaller
<1> QED
  BY <1>0, <1>3 DEF ResultAt

-----------------------------------------------------------------------------
(* Plans for any nodes at all.                                               *)
LEMMA EmitTyped ==
  ASSUME NEW p, NEW c, c \in Plans(p), NEW code, NEW k, NEW jt, NEW jf,
         <<code, k, jt, jf>> \in Asked(p)
  PROVE  Emit(c, code, k, jt, jf) \in Plans(p)
<1> DEFINE r == <<code, k, jt, jf>>
           asked == Append(c.requests, r)
           x == Count(c) + 1
<1>1. c.base \in Nat /\ c.requests \in Seq(Asked(p)) /\ Count(c) \in Nat /\ r \in Asked(p)
  BY PlanFacts
<1>2. Emit(c, code, k, jt, jf) = [base |-> c.base, requests |-> asked, node |-> x]
  BY DEF Emit
<1> HIDE DEF r
<1>3. asked \in Seq(Asked(p)) /\ x \in Nat
  BY <1>1
<1> HIDE DEF asked, x
<1> QED
  BY <1>1, <1>2, <1>3, PlanOf

LEMMA StepTyped ==
  ASSUME NEW p, NEW c, c \in Plans(p), NEW code, NEW k, <<code, k>> \in AllSteps
  PROVE  Then(c, code, k) \in Plans(p)
<1>1. c.node \in Nat
  BY PlanFacts
<1>2. \E step \in AllSteps, j \in Nat : <<code, k, c.node, kNullNode>> = <<step[1], step[2], j, kNullNode>>
  <2>1. <<code, k>>[1] = code /\ <<code, k>>[2] = k
    OBVIOUS
  <2> QED
    BY <1>1, <2>1
<1>3. <<code, k, c.node, kNullNode>> \in Asked(p)
  BY <1>2 DEF Asked
<1> QED
  BY <1>3, EmitTyped DEF Then

LEMMA TestTyped ==
  ASSUME NEW p, NEW c, c \in Plans(p), NEW code \in Branches, NEW k \in Word, NEW jt \in Nat,
         NEW jf \in Nat
  PROVE  Emit(c, code, k, jt, jf) \in Plans(p)
<1>1. \E test \in AllTests, j \in Nat, l \in Nat : <<code, k, jt, jf>> = <<test[1], test[2], j, l>>
  <2>1. <<code, k>> \in AllTests /\ <<code, k>>[1] = code /\ <<code, k>>[2] = k
    BY DEF AllTests
  <2> QED
    BY <2>1
<1>2. <<code, k, jt, jf>> \in Asked(p)
  BY <1>1 DEF Asked
<1> QED
  BY <1>2, EmitTyped

LEMMA PanicTyped ==
  ASSUME NEW p, NEW c, c \in Plans(p)
  PROVE  Panic(c) \in Plans(p)
<1>1. <<"TRAP", PanicKey>> \in AskedReturns(p)
  BY DEF AskedReturns, KeysOf
<1>2. <<"RET", <<"TRAP", PanicKey>>, kNullNode, kNullNode>> \in Asked(p)
  BY <1>1, ReturnAsked
<1> QED
  BY <1>2, EmitTyped DEF Panic, EmitTrap

LEMMA AtTyped ==
  ASSUME NEW p, NEW c, c \in Plans(p), NEW x \in Nat
  PROVE  At(c, x) \in Plans(p)
<1>1. c.base \in Nat /\ c.requests \in Seq(Asked(p))
  BY PlanFacts
<1> QED
  BY <1>1, PlanOf DEF At

LEMMA JoinedTyped ==
  ASSUME NEW p, NEW c, c \in Plans(p), NEW d, d \in Plans(p)
  PROVE  Joined(c, d) \in Plans(p)
<1> DEFINE asked == c.requests \o d.requests
<1>1. c.base \in Nat /\ c.requests \in Seq(Asked(p)) /\ d.requests \in Seq(Asked(p))
      /\ d.node \in Nat
  BY PlanFacts
<1>2. asked \in Seq(Asked(p))
      /\ Joined(c, d) = [base |-> c.base, requests |-> asked, node |-> d.node]
  BY <1>1 DEF Joined
<1> HIDE DEF asked
<1> QED
  BY <1>1, <1>2, PlanOf

LEMMA ComparedTyped ==
  ASSUME NEW p, BuildOK(p.build), NEW c, c \in Plans(p), NEW cond, Compared(p, cond),
         NEW passed \in Nat, NEW failed \in Nat
  PROVE  MaskedEqual(c, p.build.wide, cond, passed, failed) \in Plans(p)
<1> DEFINE wide == p.build.wide
<1>0. /\ 0 \in Word /\ Ones \in Word /\ Half \in Word /\ "JEQ" \in Branches /\ "JSET" \in Branches
      /\ <<"LD", "arg_lo">> \in AllSteps /\ <<"LD", "arg_hi">> \in AllSteps
      /\ HalfName(Lower) = "arg_lo" /\ HalfName(Upper) = "arg_hi"
      /\ \A mask \in Word : <<"AND", mask>> \in AllSteps
  BY WordFacts DEF Branches, Fields, HalfName, Lower, Upper, AllSteps
<1>1. /\ cond.mask[Lower] \in Word /\ cond.value[Lower] \in Word
      /\ cond.mask[Upper] \in Word /\ cond.value[Upper] \in Word
  BY DEF Compared
<1>2. ASSUME NEW b, b \in Plans(p), NEW mask \in Word, NEW value \in Word, NEW x \in Nat
      PROVE  MaskedTest(b, mask, value, x, failed) \in Plans(p)
  <2>1. /\ Emit(b, "JEQ", value, x, failed) \in Plans(p)
        /\ Emit(b, "JSET", mask, failed, x) \in Plans(p)
        /\ Emit(b, "JSET", mask, x, failed) \in Plans(p)
    BY <1>0, <1>2, TestTyped
  <2>2. Then(Emit(b, "JEQ", value, x, failed), "AND", mask) \in Plans(p)
    BY <1>0, <2>1, StepTyped
  <2> QED
    BY <2>1, <2>2 DEF MaskedTest
<1>3. ASSUME NEW b, b \in Plans(p), NEW x \in Nat
      PROVE  SignCheck(Panic(b), wide, x) \in Plans(p)
  <2> DEFINE q == Panic(b)
             a == Emit(q, "JSET", Half, x, q.node)
             sign == Then(a, "LD", "arg_lo")
             e == Emit(sign, "JEQ", Ones, sign.node, q.node)
             z == Emit(e, "JEQ", 0, x, e.node)
             y == Emit(q, "JEQ", 0, x, q.node)
  <2>1. SignCheck(q, wide, x) = Then(IF wide THEN z ELSE y, "LD", "arg_hi")
    BY <1>0 DEF SignCheck, OnTrue, OnFalse
  <2>2. q \in Plans(p)
    BY <1>3, PanicTyped
  <2> HIDE DEF q
  <2>3. q.node \in Nat
    BY <2>2, PlanFacts
  <2>4. a \in Plans(p)
    BY <1>0, <2>2, <2>3, TestTyped
  <2>5. y \in Plans(p)
    BY <1>0, <2>2, <2>3, TestTyped
  <2> HIDE DEF a, y
  <2>6. sign \in Plans(p)
    BY <1>0, <2>4, StepTyped
  <2> HIDE DEF sign
  <2>7. sign.node \in Nat
    BY <2>6, PlanFacts
  <2>8. e \in Plans(p)
    BY <1>0, <2>3, <2>6, <2>7, TestTyped
  <2> HIDE DEF e
  <2>9. e.node \in Nat
    BY <2>8, PlanFacts
  <2>10. z \in Plans(p)
    BY <1>0, <2>8, <2>9, TestTyped
  <2> HIDE DEF z
  <2>11. (IF wide THEN z ELSE y) \in Plans(p)
    BY <2>5, <2>10
  <2>12. Then(IF wide THEN z ELSE y, "LD", "arg_hi") \in Plans(p)
    BY <1>0, <2>11, StepTyped
  <2> QED
    BY <2>1, <2>12 DEF q
<1>4. ASSUME NEW b, b \in Plans(p), NEW half \in {Lower, Upper}, NEW x \in Nat
      PROVE  MaskedEqualHalf(b, wide, cond, half, x, failed) \in Plans(p)
  <2>1. SignCheck(Panic(b), wide, x) \in Plans(p)
    BY <1>3, <1>4
  <2>2. At(b, x) \in Plans(p)
    BY <1>4, AtTyped
  <2>3. MaskedTest(b, cond.mask[half], cond.value[half], x, failed) \in Plans(p)
    BY <1>1, <1>2, <1>4
  <2>4. <<"LD", HalfName(half)>> \in AllSteps
    BY <1>0
  <2>5. Then(MaskedTest(b, cond.mask[half], cond.value[half], x, failed), "LD", HalfName(half)) \in Plans(p)
    BY <2>3, <2>4, StepTyped
  <2> QED
    BY <2>1, <2>2, <2>5 DEF MaskedEqualHalf
<1> DEFINE lower == MaskedEqualHalf(c, wide, cond, Lower, passed, failed)
<1>5. lower \in Plans(p)
  BY <1>4
<1>6. MaskedEqual(c, wide, cond, passed, failed) = MaskedEqualHalf(lower, wide, cond, Upper, lower.node, failed)
  BY DEF MaskedEqual
<1> HIDE DEF lower
<1>7. lower.node \in Nat
  BY <1>5, PlanFacts
<1> QED
  BY <1>4, <1>5, <1>6, <1>7

-----------------------------------------------------------------------------
(* Compile of a condition.                                                   *)
From == Nat \X Nat \X Nat

CondFrom(p, compile, i, from) ==
  LET cond == p.objects[i]
      then == from[2]
      else == from[3]
      rhs == compile[cond.rhs][from]
      andLhs == compile[cond.lhs][<<Count(rhs), rhs.node, else>>]
      orLhs == compile[cond.lhs][<<Count(rhs), then, rhs.node>>]
  IN  CASE cond.kind = "const" -> At(Code(from[1]), IF cond.value THEN then ELSE else)
        [] cond.kind = "equal" ->
             MaskedEqual(Code(from[1]), p.build.wide, cond, then, else)
        [] cond.kind = "not" -> compile[cond.of][<<from[1], else, then>>]
        [] cond.kind = "and" -> Joined(rhs, andLhs)
        [] cond.kind = "or" -> Joined(rhs, orLhs)
        [] OTHER -> Code(0)

LEMMA CondCodeIs ==
  ASSUME NEW p, NEW compile, NEW i
  PROVE  CondCode(p, compile, i) = [from \in From |-> CondFrom(p, compile, i, from)]
  BY Zenon DEF CondCode, CondFrom, From

(* What the cases of a condition are.                                        *)
IsCond(p, compile, i, from, c) ==
  LET cond == p.objects[i]
      rhs == compile[cond.rhs][from]
  IN  /\ cond.kind = "const" => c = At(Code(from[1]), IF cond.value THEN from[2] ELSE from[3])
      /\ cond.kind = "equal" => c = MaskedEqual(Code(from[1]), p.build.wide, cond, from[2], from[3])
      /\ cond.kind = "not" => c = compile[cond.of][<<from[1], from[3], from[2]>>]
      /\ cond.kind = "and" => c = Joined(rhs, compile[cond.lhs][<<Count(rhs), rhs.node, from[3]>>])
      /\ cond.kind = "or" => c = Joined(rhs, compile[cond.lhs][<<Count(rhs), from[2], rhs.node>>])
      /\ cond.kind \notin {"const", "equal", "not", "and", "or"} => c = Code(0)

LEMMA CondCases ==
  ASSUME NEW p, NEW compile, NEW i, NEW from
  PROVE  IsCond(p, compile, i, from, CondFrom(p, compile, i, from))
  BY DEF CondFrom, IsCond

(* The parts of a condition are older conditions.                            *)
Parts(p, i) ==
  LET e == p.objects[i]
  IN  /\ e.kind = "not" => e.of \in DOMAIN p.objects /\ e.of < i /\ CondAt(p, e.of)
      /\ e.kind \in {"and", "or"} =>
           /\ e.lhs \in DOMAIN p.objects /\ e.lhs < i /\ CondAt(p, e.lhs)
           /\ e.rhs \in DOMAIN p.objects /\ e.rhs < i /\ CondAt(p, e.rhs)
      /\ e.kind = "const" => e.value \in BOOLEAN
      /\ e.kind = "equal" => Compared(p, e)

LEMMA PartsOlder ==
  ASSUME NEW p, IsPolicy(p), NEW i \in DOMAIN p.objects
  PROVE  Parts(p, i)
<1>1. Built(p, i)
  BY ObjectFacts
<1> QED
  BY <1>1 DEF Parts, Built, CondAt

CodesBelow(p, compile, i) == \A j \in DOMAIN p.objects : j < i => compile[j] \in [From -> Plans(p)]

LEMMA CondTyped ==
  ASSUME NEW p, IsPolicy(p), NEW i \in DOMAIN p.objects, NEW compile, CodesBelow(p, compile, i),
         NEW from \in From
  PROVE  CondFrom(p, compile, i, from) \in Plans(p)
<1> DEFINE e == p.objects[i]
           c == CondFrom(p, compile, i, from)
           rhs == compile[e.rhs][from]
<1>0. Parts(p, i) /\ BuildOK(p.build)
  BY PartsOlder, ObjectFacts
<1>1. from[1] \in Nat /\ from[2] \in Nat /\ from[3] \in Nat
  BY DEF From
<1>2. Code(from[1]) \in Plans(p) /\ Code(0) \in Plans(p)
  BY <1>1, CodeWhole DEF Whole
<1>3. \A j \in DOMAIN p.objects : j < i => \A g \in From : compile[j][g] \in Plans(p)
  BY DEF CodesBelow
<1>c. IsCond(p, compile, i, from, c)
  BY CondCases
<1> SUFFICES c \in Plans(p)
  OBVIOUS
<1> HIDE DEF c
<1>4. CASE e.kind = "const"
  <2>1. (IF e.value THEN from[2] ELSE from[3]) \in Nat
    BY <1>1
  <2>2. At(Code(from[1]), IF e.value THEN from[2] ELSE from[3]) \in Plans(p)
    BY <1>2, <2>1, AtTyped
  <2> QED
    BY <1>4, <2>2, <1>c DEF IsCond
<1>5. CASE e.kind = "equal"
  <2>1. Compared(p, e)
    BY <1>0, <1>5 DEF Parts
  <2>2. MaskedEqual(Code(from[1]), p.build.wide, e, from[2], from[3]) \in Plans(p)
    BY <1>0, <1>1, <1>2, <2>1, ComparedTyped
  <2> QED
    BY <1>5, <2>2, <1>c DEF IsCond
<1>6. CASE e.kind = "not"
  <2>1. <<from[1], from[3], from[2]>> \in From
    BY <1>1 DEF From
  <2>2. compile[e.of][<<from[1], from[3], from[2]>>] \in Plans(p)
    BY <1>0, <1>3, <1>6, <2>1 DEF Parts
  <2> QED
    BY <1>6, <2>2, <1>c DEF IsCond
<1>7. CASE e.kind \in {"and", "or"}
  <2>1. rhs \in Plans(p)
    BY <1>0, <1>3, <1>7 DEF Parts
  <2> HIDE DEF rhs
  <2>2. Count(rhs) \in Nat /\ rhs.node \in Nat
    BY <2>1, PlanFacts
  <2>3. <<Count(rhs), rhs.node, from[3]>> \in From /\ <<Count(rhs), from[2], rhs.node>> \in From
    BY <1>1, <2>2 DEF From
  <2>4. /\ compile[e.lhs][<<Count(rhs), rhs.node, from[3]>>] \in Plans(p)
        /\ compile[e.lhs][<<Count(rhs), from[2], rhs.node>>] \in Plans(p)
    BY <1>0, <1>3, <1>7, <2>3 DEF Parts
  <2>5. /\ Joined(rhs, compile[e.lhs][<<Count(rhs), rhs.node, from[3]>>]) \in Plans(p)
        /\ Joined(rhs, compile[e.lhs][<<Count(rhs), from[2], rhs.node>>]) \in Plans(p)
    BY <2>1, <2>4, JoinedTyped
  <2> QED
    BY <1>7, <2>5, <1>c DEF rhs, IsCond
<1>8. CASE e.kind \notin {"const", "equal", "not", "and", "or"}
  BY <1>2, <1>8, <1>c DEF IsCond
<1> QED
  BY <1>4, <1>5, <1>6, <1>7, <1>8

LEMMA CondSame ==
  ASSUME NEW p, IsPolicy(p), NEW i \in DOMAIN p.objects, NEW f, NEW g,
         \A j \in DOMAIN p.objects : j < i => f[j] = g[j]
  PROVE  CondCode(p, f, i) = CondCode(p, g, i)
<1> DEFINE e == p.objects[i]
<1>0. Parts(p, i)
  BY PartsOlder
<1>1. e.kind = "not" => f[e.of] = g[e.of]
  BY <1>0 DEF Parts
<1>2. e.kind \in {"and", "or"} => f[e.lhs] = g[e.lhs] /\ f[e.rhs] = g[e.rhs]
  BY <1>0 DEF Parts
<1>3. ASSUME NEW from \in From PROVE CondFrom(p, f, i, from) = CondFrom(p, g, i, from)
  <2> DEFINE c == CondFrom(p, f, i, from)
             d == CondFrom(p, g, i, from)
  <2>c. IsCond(p, f, i, from, c) /\ IsCond(p, g, i, from, d)
    BY CondCases
  <2> SUFFICES c = d
    OBVIOUS
  <2> HIDE DEF c, d
  <2>1. CASE e.kind = "not"
    BY <1>1, <2>1, <2>c DEF IsCond
  <2>2. CASE e.kind = "and"
    BY <1>2, <2>2, <2>c DEF IsCond
  <2>3. CASE e.kind = "or"
    BY <1>2, <2>3, <2>c DEF IsCond
  <2>4. CASE e.kind = "const"
    BY <2>4, <2>c DEF IsCond
  <2>5. CASE e.kind = "equal"
    BY <2>5, <2>c DEF IsCond
  <2>6. CASE e.kind \notin {"const", "equal", "not", "and", "or"}
    BY <2>6, <2>c DEF IsCond
  <2> QED
    BY <2>1, <2>2, <2>3, <2>4, <2>5, <2>6
<1>4. [from \in From |-> CondFrom(p, f, i, from)] = [from \in From |-> CondFrom(p, g, i, from)]
  BY <1>3
<1> QED
  BY <1>4, CondCodeIs

LEMMA CondFunction ==
  ASSUME NEW p, IsPolicy(p)
  PROVE  \A i \in DOMAIN p.objects :
           CompileCond(p)[i] = [from \in From |-> CondFrom(p, CompileCond(p), i, from)]
<1> DEFINE n == Len(p.objects)
           S == [From -> Plans(p)]
           F == [1..n -> S]
           step == [q \in (1..n) \X F |-> CondCode(p, q[2], q[1])]
<1>0. n \in Nat /\ DOMAIN p.objects = 1..n
  BY ObjectFacts
<1>2. \A i \in 1..n, f \in F : step[<<i, f>>] = CondCode(p, f, i)
  OBVIOUS
<1>3. step \in [(1..n) \X F -> S]
  <2>1. ASSUME NEW i \in 1..n, NEW f \in F PROVE CondCode(p, f, i) \in S
    <3>1. CodesBelow(p, f, i) /\ i \in DOMAIN p.objects
      BY <1>0 DEF CodesBelow
    <3>2. \A from \in From : CondFrom(p, f, i, from) \in Plans(p)
      BY <3>1, CondTyped
    <3>3. [from \in From |-> CondFrom(p, f, i, from)] \in S
      BY <3>2
    <3> QED
      BY <3>3, CondCodeIs
  <2> QED
    BY <2>1
<1>4. S # {}
  <2>1. Code(0) \in Plans(p)
    BY CodeWhole DEF Whole
  <2>2. [from \in From |-> Code(0)] \in S
    BY <2>1
  <2> QED
    BY <2>2
<1> HIDE DEF step, n, S
<1>5. Back(step, n, S)
  <2> SUFFICES ASSUME NEW i \in 1..n, NEW f \in F, NEW g \in F, \A j \in 1..n : j < i => f[j] = g[j]
               PROVE  step[<<i, f>>] = step[<<i, g>>]
    BY DEF Back
  <2>1. CondCode(p, f, i) = CondCode(p, g, i)
    BY <1>0, CondSame
  <2> QED
    BY <1>2, <2>1
<1>6. PICK f \in F : Solves(f, step, n)
  BY <1>0, <1>3, <1>4, <1>5, Recursion
<1>7. f = [i \in DOMAIN p.objects |-> CondCode(p, f, i)]
  BY <1>0, <1>2, <1>6 DEF Solves
<1> DEFINE chosen == CHOOSE g : g = [i \in DOMAIN p.objects |-> CondCode(p, g, i)]
<1>8. CompileCond(p) = chosen
  BY DEF CompileCond
<1>9. chosen = [i \in DOMAIN p.objects |-> CondCode(p, chosen, i)]
  BY <1>7
<1> HIDE DEF chosen
<1>10. \A i \in DOMAIN p.objects : chosen[i] = [from \in From |-> CondFrom(p, chosen, i, from)]
  BY <1>9, CondCodeIs
<1> QED
  BY <1>8, <1>10

LEMMA CondEquation ==
  ASSUME NEW p, IsPolicy(p)
  PROVE  \A i \in DOMAIN p.objects : \A from \in From :
           CompileCond(p)[i][from] = CondFrom(p, CompileCond(p), i, from)
<1> DEFINE compile == CompileCond(p)
<1>1. \A i \in DOMAIN p.objects : compile[i] = [from \in From |-> CondFrom(p, compile, i, from)]
  BY CondFunction
<1> HIDE DEF compile
<1>2. ASSUME NEW i \in DOMAIN p.objects, NEW from \in From
      PROVE  compile[i][from] = CondFrom(p, compile, i, from)
  <2>1. compile[i] = [at \in From |-> CondFrom(p, compile, i, at)]
    BY <1>1
  <2> QED
    BY <2>1
<1> QED
  BY <1>2 DEF compile

LEMMA CondPlan ==
  ASSUME NEW p, IsPolicy(p), NEW i \in DOMAIN p.objects, NEW from \in From
  PROVE  CompileCond(p)[i][from] \in Plans(p)
<1> DEFINE n == Len(p.objects)
           compile == CompileCond(p)
           G == {j \in 1..n : compile[j] \in [From -> Plans(p)]}
<1>0. n \in Nat /\ DOMAIN p.objects = 1..n
  BY ObjectFacts
<1>1. ASSUME NEW j \in 1..n, \A k \in 1..n : k < j => k \in G PROVE j \in G
  <2>1. CodesBelow(p, compile, j)
    BY <1>0, <1>1 DEF CodesBelow
  <2>2. compile[j] = [f \in From |-> CondFrom(p, compile, j, f)]
    BY <1>0, CondFunction
  <2> HIDE DEF compile
  <2>3. \A f \in From : CondFrom(p, compile, j, f) \in Plans(p)
    BY <1>0, <2>1, CondTyped
  <2> QED
    BY <2>2, <2>3
<1>2. \A j \in 1..n : j \in G
  <2> HIDE DEF G
  <2> QED
    BY <1>0, <1>1, Smaller
<1> QED
  BY <1>0, <1>2

(* A condition goes on with one of its nodes, or is the panic.               *)
CondFor(p, c, i, then, else) ==
  \A V, T, E : \A data \in Datas :
    Reads(V, data, c) /\ Gives(V, then, T) /\ Gives(V, else, E) =>
      Gives(V, c.node, Choice(Holds(p, data["arg_lo"], data["arg_hi"])[i], T, E))

Conditional(p, c, i, base, then, else) ==
  Extends(p, Code(base), c) /\ ~UnsafeIn(c) /\ CondFor(p, c, i, then, else)

CondRight(p, i) ==
  \A base \in Nat : \A then, else \in 1..base :
    Conditional(p, CompileCond(p)[i][<<base, then, else>>], i, base, then, else)

LEMMA CondUse ==
  ASSUME NEW p, NEW i, CondRight(p, i), NEW base \in Nat, NEW then \in 1..base,
         NEW else \in 1..base,
         NEW c, c = CompileCond(p)[i][<<base, then, else>>]
  PROVE  /\ Conditional(p, c, i, base, then, else) /\ Whole(p, c) /\ c.base = base
         /\ c.node \in 1..Count(c) /\ Count(c) \in Nat
         /\ \A x \in 1..base : x \in 1..Count(c)
<1>1. Conditional(p, c, i, base, then, else)
  BY DEF CondRight
<1>2. Whole(p, Code(base)) /\ Count(Code(base)) = base /\ Code(base).base = base
  BY CodeWhole
<1> QED
  BY <1>1, <1>2, Later DEF Conditional

LEMMA Both ==
  ASSUME NEW p, NEW base \in Nat, NEW c, NEW d,
         Extends(p, Code(base), c), ~UnsafeIn(c), Extends(p, Code(Count(c)), d), ~UnsafeIn(d),
         NEW e, e = Joined(c, d)
  PROVE  /\ Extends(p, Code(base), e) /\ ~UnsafeIn(e) /\ e.node = d.node
         /\ \A V, data : Reads(V, data, e) => Reads(V, data, c) /\ Reads(V, data, d)
<1>0. Whole(p, Code(base)) /\ Whole(p, c)
  BY CodeWhole DEF Extends
<1>1. Count(c) \in Nat
  BY <1>0, PlanFacts DEF Whole
<1>2. Whole(p, d) /\ d.base = Count(c) /\ d.node \in 1..Count(d)
  BY <1>1, CodeWhole DEF Extends
<1>3. /\ Extends(p, c, e) /\ e.node = d.node
      /\ \A V, data : Reads(V, data, e) => Reads(V, data, d)
      /\ UnsafeIn(e) => UnsafeIn(c) \/ UnsafeIn(d)
  BY <1>0, <1>2, Joining
<1>4. \A V, data : Reads(V, data, e) => Reads(V, data, c)
  BY <1>3 DEF Extends
<1>5. Extends(p, Code(base), e)
  BY <1>0, <1>3, Extending
<1> QED
  BY <1>3, <1>4, <1>5

LEMMA CondStep ==
  ASSUME NEW p, IsPolicy(p), NEW i, CondAt(p, i),
         \A j \in DOMAIN p.objects : j < i /\ CondAt(p, j) => CondRight(p, j)
  PROVE  CondRight(p, i)
<1> SUFFICES ASSUME NEW base \in Nat, NEW then \in 1..base, NEW else \in 1..base
             PROVE  Conditional(p, CompileCond(p)[i][<<base, then, else>>], i, base, then, else)
  BY DEF CondRight
<1> DEFINE e == p.objects[i]
           from == <<base, then, else>>
           compile == CompileCond(p)
           c == compile[i][from]
           rhs == compile[e.rhs][from]
<1>0. Parts(p, i) /\ BuildOK(p.build) /\ i \in DOMAIN p.objects
  BY PartsOlder, ObjectFacts DEF CondAt
<1>1. from[1] = base /\ from[2] = then /\ from[3] = else /\ from \in From
  BY DEF From
<1>2. IsCond(p, compile, i, from, c)
  <2>1. c = CondFrom(p, compile, i, from)
    BY <1>0, <1>1, CondEquation
  <2> QED
    BY <2>1, CondCases
<1>3. Whole(p, Code(base)) /\ Count(Code(base)) = base /\ ~UnsafeIn(Code(base))
  BY CodeWhole
<1>4. \A data \in Datas :
        LET holds == Holds(p, data["arg_lo"], data["arg_hi"])
        IN  holds[i] = HoldsAt(p, data["arg_lo"], data["arg_hi"], holds, i)
  BY <1>0, HoldsEquation
<1>5. CASE e.kind = "const"
  <2> DEFINE x == IF e.value THEN then ELSE else
  <2>1. c = At(Code(base), x)
    BY <1>1, <1>2, <1>5 DEF IsCond
  <2>2. x \in 1..Count(Code(base))
    BY <1>3
  <2> HIDE DEF x, c
  <2>3. Extends(p, Code(base), c) /\ Safely(Code(base), c) /\ c.node = x
    BY <1>3, <2>1, <2>2, Placing
  <2>4. \A data \in Datas : Holds(p, data["arg_lo"], data["arg_hi"])[i] = IF e.value THEN "yes" ELSE "no"
    BY <1>4, <1>5 DEF HoldsAt
  <2>5. CondFor(p, c, i, then, else)
    BY <1>0, <1>5, <2>3, <2>4 DEF CondFor, Choice, Parts, x
  <2> QED
    BY <1>3, <2>3, <2>5 DEF Conditional, Safely, c
<1>6. CASE e.kind = "equal"
  <2>1. c = MaskedEqual(Code(base), p.build.wide, e, then, else)
    BY <1>1, <1>2, <1>6 DEF IsCond
  <2>2. Compared(p, e) /\ then \in 1..Count(Code(base)) /\ else \in 1..Count(Code(base))
    BY <1>0, <1>3, <1>6 DEF Parts
  <2> HIDE DEF c
  <2>3. Extends(p, Code(base), c) /\ Safely(Code(base), c)
        /\ EqualFor(c, p.build.wide, e, then, else)
    BY <1>0, <1>3, <2>1, <2>2, Comparing
  <2>4. \A data \in Datas :
          Holds(p, data["arg_lo"], data["arg_hi"])[i]
            = Equal(p.build.wide, e, data["arg_lo"], data["arg_hi"])
    BY <1>4, <1>6 DEF HoldsAt
  <2>5. CondFor(p, c, i, then, else)
    BY <2>3, <2>4 DEF CondFor, EqualFor
  <2> QED
    BY <1>3, <2>3, <2>5 DEF Conditional, Safely, c
<1>7. CASE e.kind = "not"
  <2>1. c = compile[e.of][<<base, else, then>>] /\ CondRight(p, e.of) /\ e.of \in DOMAIN p.objects
    BY <1>0, <1>1, <1>2, <1>7, <1>1 DEF Parts, IsCond
  <2> HIDE DEF c
  <2>2. Conditional(p, c, e.of, base, else, then)
    BY <2>1, CondUse
  <2>3. ASSUME NEW data \in Datas, NEW T, NEW E
        PROVE  LET holds == Holds(p, data["arg_lo"], data["arg_hi"])
               IN  Choice(holds[i], T, E) = Choice(holds[e.of], E, T)
    <3> DEFINE holds == Holds(p, data["arg_lo"], data["arg_hi"])
    <3>1. holds[e.of] \in Answers3
      BY <2>1, HoldsFacts
    <3>2. holds[i] = Opposite(holds[e.of])
      BY <1>4, <1>7 DEF HoldsAt
    <3> HIDE DEF holds
    <3>3. Choice(holds[i], T, E) = Choice(holds[e.of], E, T)
      BY <3>1, <3>2 DEF Choice, Opposite, Answers3
    <3> QED
      BY <3>3 DEF holds
  <2>4. CondFor(p, c, i, then, else)
    BY <2>2, <2>3 DEF Conditional, CondFor
  <2> QED
    BY <2>2, <2>4 DEF Conditional, c
<1>8. ASSUME e.kind \in {"and", "or"}
      PROVE  /\ Conditional(p, rhs, e.rhs, base, then, else) /\ Extends(p, Code(base), rhs)
             /\ ~UnsafeIn(rhs)
             /\ rhs.node \in 1..Count(rhs) /\ then \in 1..Count(rhs) /\ else \in 1..Count(rhs)
             /\ Count(rhs) \in Nat /\ CondRight(p, e.lhs)
             /\ e.lhs \in DOMAIN p.objects /\ e.rhs \in DOMAIN p.objects
  <2>1. CondRight(p, e.rhs) /\ CondRight(p, e.lhs) /\ e.lhs \in DOMAIN p.objects
        /\ e.rhs \in DOMAIN p.objects
    BY <1>0, <1>8 DEF Parts
  <2>2. rhs = CompileCond(p)[e.rhs][<<base, then, else>>]
    OBVIOUS
  <2> HIDE DEF rhs
  <2>3. /\ Conditional(p, rhs, e.rhs, base, then, else) /\ rhs.node \in 1..Count(rhs)
        /\ Count(rhs) \in Nat
        /\ then \in 1..Count(rhs) /\ else \in 1..Count(rhs)
    BY <2>1, <2>2, CondUse
  <2> QED
    BY <2>1, <2>3 DEF Conditional
<1>9. CASE e.kind = "and"
  <2> DEFINE lhs == compile[e.lhs][<<Count(rhs), rhs.node, else>>]
  <2>1. c = Joined(rhs, lhs)
    BY <1>1, <1>2, <1>9 DEF IsCond
  <2> HIDE DEF c, rhs
  <2>2. lhs = CompileCond(p)[e.lhs][<<Count(rhs), rhs.node, else>>]
    OBVIOUS
  <2> HIDE DEF lhs
  <2>3. Conditional(p, lhs, e.lhs, Count(rhs), rhs.node, else)
    BY <1>8, <1>9, <2>2, CondUse
  <2>4. /\ Extends(p, Code(base), c) /\ ~UnsafeIn(c) /\ c.node = lhs.node
        /\ \A V, data : Reads(V, data, c) => Reads(V, data, rhs) /\ Reads(V, data, lhs)
    BY <1>8, <1>9, <2>1, <2>3, Both DEF Conditional
  <2>5. ASSUME NEW V, NEW T, NEW E, NEW data \in Datas,
               Reads(V, data, c), Gives(V, then, T), Gives(V, else, E)
        PROVE  Gives(V, c.node, Choice(Holds(p, data["arg_lo"], data["arg_hi"])[i], T, E))
    <3> DEFINE holds == Holds(p, data["arg_lo"], data["arg_hi"])
    <3>1. Gives(V, rhs.node, Choice(holds[e.rhs], T, E))
      BY <1>8, <1>9, <2>4, <2>5 DEF Conditional, CondFor
    <3>2. Gives(V, lhs.node, Choice(holds[e.lhs], Choice(holds[e.rhs], T, E), E))
      <4> DEFINE R == Choice(holds[e.rhs], T, E)
      <4> HIDE DEF R
      <4>1. Gives(V, rhs.node, R)
        BY <3>1 DEF R
      <4>2. Gives(V, lhs.node, Choice(holds[e.lhs], R, E))
        BY <2>3, <2>4, <2>5, <4>1 DEF Conditional, CondFor
      <4> QED
        BY <4>2 DEF R
    <3>3. holds[i] = IF holds[e.lhs] = "yes" THEN holds[e.rhs] ELSE holds[e.lhs]
      BY <1>4, <1>9 DEF HoldsAt
    <3>4. holds[e.lhs] \in Answers3 /\ holds[e.rhs] \in Answers3
      BY <1>8, <1>9, HoldsFacts
    <3> HIDE DEF holds
    <3>5. Choice(holds[e.lhs], Choice(holds[e.rhs], T, E), E) = Choice(holds[i], T, E)
      BY <3>3, <3>4 DEF Choice, Answers3
    <3> QED
      BY <2>4, <3>2, <3>5 DEF holds
  <2>6. CondFor(p, c, i, then, else)
    BY <2>5 DEF CondFor
  <2> QED
    BY <2>4, <2>6 DEF Conditional, c
<1>10. CASE e.kind = "or"
  <2> DEFINE lhs == compile[e.lhs][<<Count(rhs), then, rhs.node>>]
  <2>1. c = Joined(rhs, lhs)
    BY <1>1, <1>2, <1>10 DEF IsCond
  <2> HIDE DEF c, rhs
  <2>2. lhs = CompileCond(p)[e.lhs][<<Count(rhs), then, rhs.node>>]
    OBVIOUS
  <2> HIDE DEF lhs
  <2>3. Conditional(p, lhs, e.lhs, Count(rhs), then, rhs.node)
    BY <1>8, <1>10, <2>2, CondUse
  <2>4. /\ Extends(p, Code(base), c) /\ ~UnsafeIn(c) /\ c.node = lhs.node
        /\ \A V, data : Reads(V, data, c) => Reads(V, data, rhs) /\ Reads(V, data, lhs)
    BY <1>8, <1>10, <2>1, <2>3, Both DEF Conditional
  <2>5. ASSUME NEW V, NEW T, NEW E, NEW data \in Datas,
               Reads(V, data, c), Gives(V, then, T), Gives(V, else, E)
        PROVE  Gives(V, c.node, Choice(Holds(p, data["arg_lo"], data["arg_hi"])[i], T, E))
    <3> DEFINE holds == Holds(p, data["arg_lo"], data["arg_hi"])
    <3>1. Gives(V, rhs.node, Choice(holds[e.rhs], T, E))
      BY <1>8, <1>10, <2>4, <2>5 DEF Conditional, CondFor
    <3>2. Gives(V, lhs.node, Choice(holds[e.lhs], T, Choice(holds[e.rhs], T, E)))
      <4> DEFINE R == Choice(holds[e.rhs], T, E)
      <4> HIDE DEF R
      <4>1. Gives(V, rhs.node, R)
        BY <3>1 DEF R
      <4>2. Gives(V, lhs.node, Choice(holds[e.lhs], T, R))
        BY <2>3, <2>4, <2>5, <4>1 DEF Conditional, CondFor
      <4> QED
        BY <4>2 DEF R
    <3>3. holds[i] = IF holds[e.lhs] = "no" THEN holds[e.rhs] ELSE holds[e.lhs]
      BY <1>4, <1>10 DEF HoldsAt
    <3>4. holds[e.lhs] \in Answers3 /\ holds[e.rhs] \in Answers3
      BY <1>8, <1>10, HoldsFacts
    <3> HIDE DEF holds
    <3>5. Choice(holds[e.lhs], T, Choice(holds[e.rhs], T, E)) = Choice(holds[i], T, E)
      BY <3>3, <3>4 DEF Choice, Answers3
    <3> QED
      BY <2>4, <3>2, <3>5 DEF holds
  <2>6. CondFor(p, c, i, then, else)
    BY <2>5 DEF CondFor
  <2> QED
    BY <2>4, <2>6 DEF Conditional, c
<1> QED
  BY <1>5, <1>6, <1>7, <1>9, <1>10 DEF CondAt

LEMMA CondFacts ==
  ASSUME NEW p, IsPolicy(p)
  PROVE  \A i : CondAt(p, i) => CondRight(p, i)
<1> DEFINE n == Len(p.objects)
           G == {i \in 1..n : CondAt(p, i) => CondRight(p, i)}
<1>0. n \in Nat /\ DOMAIN p.objects = 1..n
  BY ObjectFacts
<1>1. ASSUME NEW i \in 1..n, \A j \in 1..n : j < i => j \in G PROVE i \in G
  <2>1. \A j \in DOMAIN p.objects : j < i /\ CondAt(p, j) => CondRight(p, j)
    BY <1>0, <1>1
  <2> QED
    BY <2>1, CondStep
<1>2. \A i \in 1..n : i \in G
  <2> HIDE DEF G
  <2> QED
    BY <1>0, <1>1, Smaller
<1> QED
  BY <1>0, <1>2 DEF CondAt

-----------------------------------------------------------------------------
(* Compile of a result.                                                      *)
ResultFrom(p, compile, i, base) ==
  LET e == p.objects[i]
      then == compile[e.then][base]
      else == compile[e.else][Count(then)]
      cond == CompileCond(p)[e.cond][<<Count(else), then.node, else.node>>]
  IN  CASE e.kind = "return" -> EmitReturn(Code(base), e.ret, HasUnsafeTraps(p))
        [] e.kind = "trap" -> EmitTrap(Code(base), e.key)
        [] e.kind = "if" -> Joined(Joined(then, else), cond)
        [] OTHER -> Code(0)

LEMMA ResultCodeIs ==
  ASSUME NEW p, NEW compile, NEW i
  PROVE  ResultCode(p, compile, i) = [base \in Nat |-> ResultFrom(p, compile, i, base)]
  BY Zenon DEF ResultCode, ResultFrom

IsResult(p, compile, i, base, c) ==
  LET e == p.objects[i]
      then == compile[e.then][base]
      else == compile[e.else][Count(then)]
      cond == CompileCond(p)[e.cond][<<Count(else), then.node, else.node>>]
  IN  /\ e.kind = "return" => c = EmitReturn(Code(base), e.ret, HasUnsafeTraps(p))
      /\ e.kind = "trap" => c = EmitTrap(Code(base), e.key)
      /\ e.kind = "if" => c = Joined(Joined(then, else), cond)
      /\ e.kind \notin {"return", "trap", "if"} => c = Code(0)

LEMMA ResultCases ==
  ASSUME NEW p, NEW compile, NEW i, NEW base
  PROVE  IsResult(p, compile, i, base, ResultFrom(p, compile, i, base))
  BY DEF ResultFrom, IsResult

(* The parts of a result are older results and a condition.                  *)
Pieces(p, i) ==
  LET e == p.objects[i]
  IN  /\ e.kind = "return" => e.ret \in Plain
      /\ e.kind = "trap" => e.key \in KeysOf(p)
      /\ e.kind = "if" => /\ e.then \in DOMAIN p.objects /\ e.then < i /\ ResultAt(p, e.then)
                         /\ e.else \in DOMAIN p.objects /\ e.else < i /\ ResultAt(p, e.else)
                         /\ e.cond \in DOMAIN p.objects /\ CondAt(p, e.cond)

LEMMA PiecesOlder ==
  ASSUME NEW p, IsPolicy(p), NEW i \in DOMAIN p.objects
  PROVE  Pieces(p, i)
<1>1. Built(p, i)
  BY ObjectFacts
<1>2. p.objects[i].kind = "trap" => p.objects[i].key \in KeysOf(p)
  BY DEF KeysOf
<1> QED
  BY <1>1, <1>2 DEF Pieces, Built, ResultAt, CondAt, Plain, Actions

(* A return that is emitted, and what it stands for.                         *)
LEMMA Reporting ==
  ASSUME NEW p, NEW c, Whole(p, c), NEW ret \in Plain, NEW unsafe \in BOOLEAN,
         NEW d, d = EmitReturn(c, ret, unsafe)
  PROVE  /\ Extends(p, c, d) /\ Safely(c, d)
         /\ \A V, data : Reads(V, data, d) => Gives(V, d.node, ret)
<1>1. ret[1] # "TRAP" /\ ret[2] \in Nat /\ ret = <<ret[1], ret[2]>> /\ ret \in AskedReturns(p)
  BY DEF Plain, Actions, AskedReturns
<1>2. CASE unsafe /\ ret[1] = "ERRNO"
  <2> DEFINE entry == ErrnoKey(ret[2])
             trap == <<"TRAP", entry>>
  <2>1. d = Emit(c, "RET", trap, kNullNode, kNullNode)
    BY <1>2 DEF EmitReturn, EmitTrap
  <2>2. entry \in KeysOf(p) /\ entry.safe = TRUE /\ entry.fnc = "ReturnErrno" /\ entry.aux = ret[2]
    BY <1>1 DEF KeysOf, ErrnoKey
  <2> HIDE DEF entry
  <2>3. trap \in AskedReturns(p) /\ trap[1] = "TRAP" /\ trap[2] = entry
    BY <2>2 DEF AskedReturns
  <2>4. Shown(trap) = ret
    BY <1>1, <1>2, <2>2, <2>3 DEF Shown
  <2> HIDE DEF trap
  <2> QED
    BY <2>1, <2>2, <2>3, <2>4, Returning DEF Safely
<1>3. CASE ~(unsafe /\ ret[1] = "ERRNO")
  <2>1. d = Emit(c, "RET", ret, kNullNode, kNullNode)
    BY <1>3 DEF EmitReturn
  <2>2. Shown(ret) = ret
    BY <1>1 DEF Shown
  <2> QED
    BY <1>1, <2>1, <2>2, Returning DEF Safely
<1> QED
  BY <1>2, <1>3

CodesUnder(p, compile, i) == \A j \in DOMAIN p.objects : j < i => compile[j] \in [Nat -> Plans(p)]

LEMMA UnsafeBoolean ==
  ASSUME NEW p
  PROVE  HasUnsafeTraps(p) \in BOOLEAN
  BY DEF HasUnsafeTraps

LEMMA ResultTyped ==
  ASSUME NEW p, IsPolicy(p), NEW i \in DOMAIN p.objects, NEW compile, CodesUnder(p, compile, i),
         NEW base \in Nat
  PROVE  ResultFrom(p, compile, i, base) \in Plans(p)
<1> DEFINE e == p.objects[i]
           c == ResultFrom(p, compile, i, base)
           then == compile[e.then][base]
           else == compile[e.else][Count(then)]
           cond == CompileCond(p)[e.cond][<<Count(else), then.node, else.node>>]
<1>0. Pieces(p, i)
  BY PiecesOlder
<1>1. Whole(p, Code(base)) /\ Code(base) \in Plans(p) /\ Code(0) \in Plans(p)
  BY CodeWhole DEF Whole
<1>2. \A j \in DOMAIN p.objects : j < i => \A b \in Nat : compile[j][b] \in Plans(p)
  BY DEF CodesUnder
<1>3. IsResult(p, compile, i, base, c)
  BY ResultCases
<1> SUFFICES c \in Plans(p)
  OBVIOUS
<1> HIDE DEF c
<1>4. CASE e.kind = "return"
  <2>1. c = EmitReturn(Code(base), e.ret, HasUnsafeTraps(p)) /\ e.ret \in Plain
    BY <1>0, <1>3, <1>4 DEF IsResult, Pieces
  <2>2. Extends(p, Code(base), c)
    BY <1>1, <2>1, UnsafeBoolean, Reporting
  <2> QED
    BY <2>2 DEF Extends, Whole
<1>5. CASE e.kind = "trap"
  <2>1. <<"TRAP", e.key>> \in AskedReturns(p)
    BY <1>0, <1>5 DEF Pieces, AskedReturns
  <2>2. <<"RET", <<"TRAP", e.key>>, kNullNode, kNullNode>> \in Asked(p)
    BY <2>1, ReturnAsked
  <2>3. EmitTrap(Code(base), e.key) \in Plans(p)
    BY <1>1, <2>2, EmitTyped DEF EmitTrap
  <2> QED
    BY <1>3, <1>5, <2>3 DEF IsResult
<1>6. CASE e.kind = "if"
  <2>1. c = Joined(Joined(then, else), cond)
    BY <1>3, <1>6 DEF IsResult
  <2>2. then \in Plans(p)
    BY <1>0, <1>2, <1>6 DEF Pieces
  <2> HIDE DEF then
  <2>3. Count(then) \in Nat /\ then.node \in Nat
    BY <2>2, PlanFacts
  <2>4. else \in Plans(p)
    BY <1>0, <1>2, <1>6, <2>3 DEF Pieces
  <2> HIDE DEF else
  <2>5. Count(else) \in Nat /\ else.node \in Nat
    BY <2>4, PlanFacts
  <2>6. <<Count(else), then.node, else.node>> \in From
    BY <2>3, <2>5 DEF From
  <2>7. cond \in Plans(p)
    BY <1>0, <1>6, <2>6, CondPlan DEF Pieces
  <2>8. Joined(then, else) \in Plans(p)
    BY <2>2, <2>4, JoinedTyped
  <2> HIDE DEF cond
  <2> QED
    BY <2>1, <2>7, <2>8, JoinedTyped
<1>7. CASE e.kind \notin {"return", "trap", "if"}
  BY <1>1, <1>3, <1>7 DEF IsResult
<1> QED
  BY <1>4, <1>5, <1>6, <1>7

LEMMA ResultSame ==
  ASSUME NEW p, IsPolicy(p), NEW i \in DOMAIN p.objects, NEW f, NEW g,
         \A j \in DOMAIN p.objects : j < i => f[j] = g[j]
  PROVE  ResultCode(p, f, i) = ResultCode(p, g, i)
<1> DEFINE e == p.objects[i]
<1>1. e.kind = "if" => f[e.then] = g[e.then] /\ f[e.else] = g[e.else]
  BY PiecesOlder DEF Pieces
<1>2. ASSUME NEW base \in Nat PROVE ResultFrom(p, f, i, base) = ResultFrom(p, g, i, base)
  <2> DEFINE c == ResultFrom(p, f, i, base)
             d == ResultFrom(p, g, i, base)
  <2>c. IsResult(p, f, i, base, c) /\ IsResult(p, g, i, base, d)
    BY ResultCases
  <2> SUFFICES c = d
    OBVIOUS
  <2> HIDE DEF c, d
  <2>1. CASE e.kind = "if"
    BY <1>1, <2>1, <2>c DEF IsResult
  <2>2. CASE e.kind # "if"
    BY <2>2, <2>c DEF IsResult
  <2> QED
    BY <2>1, <2>2
<1>3. [base \in Nat |-> ResultFrom(p, f, i, base)] = [base \in Nat |-> ResultFrom(p, g, i, base)]
  BY <1>2
<1> QED
  BY <1>3, ResultCodeIs

LEMMA ResultEquation ==
  ASSUME NEW p, IsPolicy(p)
  PROVE  \A i \in DOMAIN p.objects : \A base \in Nat :
           CompileResult(p)[i][base] = ResultFrom(p, CompileResult(p), i, base)
<1> DEFINE n == Len(p.objects)
           S == [Nat -> Plans(p)]
           F == [1..n -> S]
           step == [q \in (1..n) \X F |-> ResultCode(p, q[2], q[1])]
<1>0. n \in Nat /\ DOMAIN p.objects = 1..n
  BY ObjectFacts
<1>2. \A i \in 1..n, f \in F : step[<<i, f>>] = ResultCode(p, f, i)
  OBVIOUS
<1>3. step \in [(1..n) \X F -> S]
  <2>1. ASSUME NEW i \in 1..n, NEW f \in F PROVE ResultCode(p, f, i) \in S
    <3>1. CodesUnder(p, f, i) /\ i \in DOMAIN p.objects
      BY <1>0 DEF CodesUnder
    <3>2. \A base \in Nat : ResultFrom(p, f, i, base) \in Plans(p)
      BY <3>1, ResultTyped
    <3>3. [base \in Nat |-> ResultFrom(p, f, i, base)] \in S
      BY <3>2
    <3> QED
      BY <3>3, ResultCodeIs
  <2> QED
    BY <2>1
<1>4. S # {}
  <2>1. Code(0) \in Plans(p)
    BY CodeWhole DEF Whole
  <2>2. [base \in Nat |-> Code(0)] \in S
    BY <2>1
  <2> QED
    BY <2>2
<1> HIDE DEF step, n, S
<1>5. Back(step, n, S)
  <2> SUFFICES ASSUME NEW i \in 1..n, NEW f \in F, NEW g \in F, \A j \in 1..n : j < i => f[j] = g[j]
               PROVE  step[<<i, f>>] = step[<<i, g>>]
    BY DEF Back
  <2>1. ResultCode(p, f, i) = ResultCode(p, g, i)
    BY <1>0, ResultSame
  <2> QED
    BY <1>2, <2>1
<1>6. PICK f \in F : Solves(f, step, n)
  BY <1>0, <1>3, <1>4, <1>5, Recursion
<1>7. f = [i \in DOMAIN p.objects |-> ResultCode(p, f, i)]
  BY <1>0, <1>2, <1>6 DEF Solves
<1> DEFINE chosen == CHOOSE g : g = [i \in DOMAIN p.objects |-> ResultCode(p, g, i)]
<1>8. CompileResult(p) = chosen
  BY DEF CompileResult
<1>9. chosen = [i \in DOMAIN p.objects |-> ResultCode(p, chosen, i)]
  BY <1>7
<1> HIDE DEF chosen
<1>10. \A i \in DOMAIN p.objects : chosen[i] = [base \in Nat |-> ResultFrom(p, chosen, i, base)]
  BY <1>9, ResultCodeIs
<1> QED
  BY <1>8, <1>10

(* The code of a result is the result, and it has unsafe traps only if the   *)
(* policy has.                                                               *)
ResultFor(p, c, i) ==
  \A V : \A data \in Datas :
    Reads(V, data, c) => Gives(V, c.node, Says(p, data["arg_lo"], data["arg_hi"])[i])

Resulting(p, c, i, base) ==
  Extends(p, Code(base), c) /\ (UnsafeIn(c) => HasUnsafe(p)[i]) /\ ResultFor(p, c, i)

ResultRight(p, i) == \A base \in Nat : Resulting(p, CompileResult(p)[i][base], i, base)

LEMMA ResultUse ==
  ASSUME NEW p, NEW i, ResultRight(p, i), NEW base \in Nat, NEW c, c = CompileResult(p)[i][base]
  PROVE  /\ Resulting(p, c, i, base) /\ Whole(p, c) /\ c.base = base
         /\ c.node \in 1..Count(c) /\ Count(c) \in Nat
         /\ \A x \in 1..base : x \in 1..Count(c)
<1>1. Resulting(p, c, i, base)
  BY DEF ResultRight
<1>2. Whole(p, Code(base)) /\ Count(Code(base)) = base /\ Code(base).base = base
  BY CodeWhole
<1> QED
  BY <1>1, <1>2, Later DEF Resulting

(* Plans one after the other.                                                *)
LEMMA OneAfterOther ==
  ASSUME NEW p, NEW base \in Nat, NEW c, NEW d, Extends(p, Code(base), c), Extends(p,
         Code(Count(c)), d),
         NEW e, e = Joined(c, d)
  PROVE  /\ Extends(p, Code(base), e) /\ e.node = d.node /\ Count(e) = Count(d)
         /\ (UnsafeIn(e) => UnsafeIn(c) \/ UnsafeIn(d))
         /\ \A V, data : Reads(V, data, e) => Reads(V, data, c) /\ Reads(V, data, d)
<1>0. Whole(p, Code(base)) /\ Whole(p, c)
  BY CodeWhole DEF Extends
<1>1. Count(c) \in Nat
  BY <1>0, PlanFacts DEF Whole
<1>2. Whole(p, d) /\ d.base = Count(c) /\ d.node \in 1..Count(d)
  BY <1>1, CodeWhole DEF Extends
<1>3. /\ Extends(p, c, e) /\ e.node = d.node /\ Count(e) = Count(d)
      /\ \A V, data : Reads(V, data, e) => Reads(V, data, d)
      /\ UnsafeIn(e) => UnsafeIn(c) \/ UnsafeIn(d)
  BY <1>0, <1>2, Joining
<1>4. \A V, data : Reads(V, data, e) => Reads(V, data, c)
  BY <1>3 DEF Extends
<1>5. Extends(p, Code(base), e)
  BY <1>0, <1>3, Extending
<1> QED
  BY <1>3, <1>4, <1>5

LEMMA ResultStep ==
  ASSUME NEW p, IsPolicy(p), NEW i, ResultAt(p, i),
         \A j \in DOMAIN p.objects : j < i /\ ResultAt(p, j) => ResultRight(p, j)
  PROVE  ResultRight(p, i)
<1> SUFFICES ASSUME NEW base \in Nat
             PROVE  Resulting(p, CompileResult(p)[i][base], i, base)
  BY DEF ResultRight
<1> DEFINE e == p.objects[i]
           compile == CompileResult(p)
           c == compile[i][base]
           then == compile[e.then][base]
           else == compile[e.else][Count(then)]
           cond == CompileCond(p)[e.cond][<<Count(else), then.node, else.node>>]
<1>0. Pieces(p, i) /\ i \in DOMAIN p.objects
  BY PiecesOlder DEF ResultAt
<1>1. IsResult(p, compile, i, base, c)
  <2>1. c = ResultFrom(p, compile, i, base)
    BY <1>0, ResultEquation
  <2> QED
    BY <2>1, ResultCases
<1>2. Whole(p, Code(base)) /\ ~UnsafeIn(Code(base))
  BY CodeWhole
<1>3. \A lo, hi : SaysSo(p, lo, hi, i)
  BY SaysFacts
<1>4. HasUnsafe(p)[i] = UnsafeAt(p, HasUnsafe(p), i)
  BY <1>0, UnsafeEquation
<1>5. CASE e.kind = "return"
  <2>1. c = EmitReturn(Code(base), e.ret, HasUnsafeTraps(p)) /\ e.ret \in Plain
    BY <1>0, <1>1, <1>5 DEF IsResult, Pieces
  <2> HIDE DEF c
  <2>2. /\ Extends(p, Code(base), c) /\ Safely(Code(base), c)
        /\ \A V, data : Reads(V, data, c) => Gives(V, c.node, e.ret)
    BY <1>2, <2>1, UnsafeBoolean, Reporting
  <2>3. \A lo, hi : Says(p, lo, hi)[i] = e.ret
    BY <1>3, <1>5 DEF SaysSo
  <2>4. ResultFor(p, c, i)
    BY <2>2, <2>3 DEF ResultFor
  <2> QED
    BY <1>2, <2>2, <2>4 DEF Resulting, Safely, c
<1>6. CASE e.kind = "trap"
  <2> DEFINE ret == <<"TRAP", e.key>>
  <2>1. c = Emit(Code(base), "RET", ret, kNullNode, kNullNode)
    BY <1>1, <1>6 DEF IsResult, EmitTrap
  <2>2. ret \in AskedReturns(p) /\ ret[2] = e.key
    BY <1>0, <1>6 DEF Pieces, AskedReturns
  <2>3. \A lo, hi : Says(p, lo, hi)[i] = ret /\ Shown(Says(p, lo, hi)[i]) = Says(p, lo, hi)[i]
    BY <1>3, <1>6 DEF SaysSo
  <2> HIDE DEF c, ret
  <2>4. /\ Extends(p, Code(base), c)
        /\ \A V, data : Reads(V, data, c) => Gives(V, c.node, Shown(ret))
        /\ UnsafeIn(c) => ~e.key.safe
    BY <1>2, <2>1, <2>2, Returning
  <2>5. ResultFor(p, c, i)
    BY <2>3, <2>4 DEF ResultFor
  <2>6. ~e.key.safe => HasUnsafe(p)[i]
    BY <1>4, <1>6 DEF UnsafeAt
  <2> QED
    BY <2>4, <2>5, <2>6 DEF Resulting, c
<1>7. CASE e.kind = "if"
  <2> DEFINE both == Joined(then, else)
  <2>1. c = Joined(both, cond)
    BY <1>1, <1>7 DEF IsResult
  <2>2. ResultRight(p, e.then) /\ ResultRight(p, e.else) /\ CondRight(p, e.cond)
        /\ e.cond \in DOMAIN p.objects
    BY <1>0, <1>7, CondFacts DEF Pieces
  <2>3. then = CompileResult(p)[e.then][base] /\ else = CompileResult(p)[e.else][Count(then)]
    OBVIOUS
  <2>4. cond = CompileCond(p)[e.cond][<<Count(else), then.node, else.node>>]
    OBVIOUS
  <2> HIDE DEF c, cond, else, then
  <2>5. /\ Resulting(p, then, e.then, base) /\ then.node \in 1..Count(then) /\ Count(then) \in Nat
    BY <2>2, <2>3, ResultUse
  <2>6. /\ Resulting(p, else, e.else, Count(then)) /\ else.node \in 1..Count(else)
        /\ Count(else) \in Nat
        /\ then.node \in 1..Count(else)
    <3> DEFINE b == Count(then)
    <3>1. b \in Nat /\ else = CompileResult(p)[e.else][b] /\ then.node \in 1..b
      BY <2>3, <2>5
    <3> HIDE DEF b
    <3>2. /\ Resulting(p, else, e.else, b) /\ else.node \in 1..Count(else) /\ Count(else) \in Nat
          /\ \A x \in 1..b : x \in 1..Count(else)
      BY <2>2, <3>1, ResultUse
    <3> QED
      BY <3>1, <3>2 DEF b
  <2>7. Conditional(p, cond, e.cond, Count(else), then.node, else.node)
    BY <2>2, <2>4, <2>6, CondUse
  <2>8. /\ Extends(p, Code(base), both) /\ Count(both) = Count(else)
        /\ (UnsafeIn(both) => UnsafeIn(then) \/ UnsafeIn(else))
        /\ \A V, data : Reads(V, data, both) => Reads(V, data, then) /\ Reads(V, data, else)
    BY <2>5, <2>6, OneAfterOther DEF Resulting
  <2> HIDE DEF both
  <2>9. /\ Extends(p, Code(base), c) /\ c.node = cond.node
        /\ (UnsafeIn(c) => UnsafeIn(both) \/ UnsafeIn(cond))
        /\ \A V, data : Reads(V, data, c) => Reads(V, data, both) /\ Reads(V, data, cond)
    BY <2>1, <2>7, <2>8, OneAfterOther DEF Conditional
  <2>10. UnsafeIn(c) => HasUnsafe(p)[i]
    BY <1>4, <1>7, <2>5, <2>6, <2>7, <2>8, <2>9 DEF Resulting, Conditional, UnsafeAt
  <2>11. ASSUME NEW V, NEW data \in Datas, Reads(V, data, c)
         PROVE  Gives(V, c.node, Says(p, data["arg_lo"], data["arg_hi"])[i])
    <3> DEFINE says == Says(p, data["arg_lo"], data["arg_hi"])
               holds == Holds(p, data["arg_lo"], data["arg_hi"])
    <3>1. Gives(V, then.node, says[e.then]) /\ Gives(V, else.node, says[e.else])
      BY <2>5, <2>6, <2>8, <2>9, <2>11 DEF Resulting, ResultFor
    <3>2. says[i] = Choice(holds[e.cond], says[e.then], says[e.else])
      BY <1>3, <1>7 DEF SaysSo
    <3> DEFINE T == says[e.then]
               E == says[e.else]
    <3>3. Gives(V, then.node, T) /\ Gives(V, else.node, E) /\ says[i] = Choice(holds[e.cond], T, E)
      BY <3>1, <3>2
    <3> HIDE DEF T, E, says
    <3>4. Gives(V, cond.node, Choice(holds[e.cond], T, E))
      BY <2>7, <2>9, <2>11, <3>3 DEF Conditional, CondFor
    <3>5. Gives(V, c.node, says[i])
      BY <2>9, <3>3, <3>4
    <3> QED
      BY <3>5 DEF says
  <2>12. ResultFor(p, c, i)
    BY <2>11 DEF ResultFor
  <2> QED
    BY <2>9, <2>10, <2>12 DEF Resulting, c
<1> QED
  BY <1>5, <1>6, <1>7 DEF ResultAt

LEMMA ResultFacts ==
  ASSUME NEW p, IsPolicy(p)
  PROVE  \A i : ResultAt(p, i) => ResultRight(p, i)
<1> DEFINE n == Len(p.objects)
           G == {i \in 1..n : ResultAt(p, i) => ResultRight(p, i)}
<1>0. n \in Nat /\ DOMAIN p.objects = 1..n
  BY ObjectFacts
<1>1. ASSUME NEW i \in 1..n, \A j \in 1..n : j < i => j \in G PROVE i \in G
  <2>1. \A j \in DOMAIN p.objects : j < i /\ ResultAt(p, j) => ResultRight(p, j)
    BY <1>0, <1>1
  <2> QED
    BY <2>1, ResultStep
<1>2. \A i \in 1..n : i \in G
  <2> HIDE DEF G
  <2> QED
    BY <1>0, <1>1, Smaller
<1> QED
  BY <1>0, <1>2 DEF ResultAt

-----------------------------------------------------------------------------
(* The binary search over the ranges.                                        *)
Starts == Nat \X Nat

TableFrom(found, assemble, n, from) ==
  LET mid == n \div 2
      below == assemble[mid][from]
      above == assemble[n - mid][<<Count(below), from[2] + mid>>]
  IN  IF n = 1 THEN At(Code(from[1]), found[from[2]].node)
      ELSE Emit(Joined(below, above), "JGE", found[from[2] + mid].from, above.node, below.node)

LEMMA TableCodeIs ==
  ASSUME NEW found, NEW assemble, NEW n
  PROVE  TableCode(found, assemble, n) = [from \in Starts |-> TableFrom(found, assemble, n, from)]
  BY Zenon DEF TableCode, TableFrom, Starts

IsTable(found, assemble, n, from, c) ==
  LET mid == n \div 2
      below == assemble[mid][from]
      above == assemble[n - mid][<<Count(below), from[2] + mid>>]
  IN  /\ n = 1 => c = At(Code(from[1]), found[from[2]].node)
      /\ n # 1 => c = Emit(Joined(below, above), "JGE", found[from[2] + mid].from, above.node, below.node)

LEMMA TableCases ==
  ASSUME NEW found, NEW assemble, NEW n, NEW from
  PROVE  IsTable(found, assemble, n, from, TableFrom(found, assemble, n, from))
  BY DEF TableFrom, IsTable

LEMMA Middle ==
  ASSUME NEW n \in Nat, n > 1, NEW mid, mid = n \div 2
  PROVE  /\ mid \in 1..n /\ mid < n /\ n - mid \in 1..n /\ n - mid < n /\ mid \in Nat
         /\ n - mid \in Nat
         /\ mid + (n - mid) = n
  OBVIOUS

(* Whatever the ranges are, the search has a plan.                           *)
Ends(found) == Nat \union {found[k].node : k \in Nat}
Jumps(found) == {<<"JGE", found[k].from, jt, jf>> : k \in Nat, jt \in Ends(found), jf \in Ends(found)}
Loose(found) == [base : Nat, requests : Seq(Jumps(found)), node : Ends(found)]

LEMMA LooseFacts ==
  ASSUME NEW found, NEW c \in Loose(found)
  PROVE  c.base \in Nat /\ c.requests \in Seq(Jumps(found)) /\ Count(c) \in Nat
         /\ c.node \in Ends(found)
  BY DEF Loose, Count

LEMMA LooseOf ==
  ASSUME NEW found, NEW base \in Nat, NEW asked \in Seq(Jumps(found)), NEW x \in Ends(found)
  PROVE  [base |-> base, requests |-> asked, node |-> x] \in Loose(found)
  BY DEF Loose

LEMMA TableTyped ==
  ASSUME NEW found, NEW n \in Nat, n > 0, NEW assemble,
         \A j \in 1..n : j < n => assemble[j] \in [Starts -> Loose(found)], NEW from \in Starts
  PROVE  TableFrom(found, assemble, n, from) \in Loose(found)
<1> DEFINE c == TableFrom(found, assemble, n, from)
           mid == n \div 2
           below == assemble[mid][from]
           above == assemble[n - mid][<<Count(below), from[2] + mid>>]
<1>0. from[1] \in Nat /\ from[2] \in Nat
  BY DEF Starts
<1>1. IsTable(found, assemble, n, from, c)
  BY TableCases
<1>2. \A j \in 1..n : j < n => \A g \in Starts : assemble[j][g] \in Loose(found)
  OBVIOUS
<1> SUFFICES c \in Loose(found)
  OBVIOUS
<1> HIDE DEF c
<1>3. CASE n = 1
  <2>1. <<>> \in Seq(Jumps(found)) /\ found[from[2]].node \in Ends(found)
    BY <1>0 DEF Ends
  <2>2. c = [base |-> from[1], requests |-> <<>>, node |-> found[from[2]].node]
    BY <1>1, <1>3 DEF IsTable, At, Code
  <2> QED
    BY <1>0, <2>1, <2>2, LooseOf
<1>4. CASE n # 1
  <2>0. n > 1
    BY <1>4
  <2>1. mid \in 1..n /\ mid < n /\ n - mid \in 1..n /\ n - mid < n /\ mid \in Nat
    BY <2>0, Middle
  <2>c. c = Emit(Joined(below, above), "JGE", found[from[2] + mid].from, above.node, below.node)
    BY <1>1, <1>4 DEF IsTable
  <2> HIDE DEF mid
  <2>2. below \in Loose(found)
    BY <1>2, <2>1
  <2> HIDE DEF below
  <2>3. Count(below) \in Nat /\ below.base \in Nat /\ below.requests \in Seq(Jumps(found))
        /\ below.node \in Ends(found)
    BY <2>2, LooseFacts
  <2>4. <<Count(below), from[2] + mid>> \in Starts
    BY <1>0, <2>1, <2>3 DEF Starts
  <2>5. above \in Loose(found)
    BY <1>2, <2>1, <2>4
  <2> HIDE DEF above
  <2>6. above.requests \in Seq(Jumps(found)) /\ above.node \in Ends(found)
    BY <2>5, LooseFacts
  <2> DEFINE both == below.requests \o above.requests
             r == <<"JGE", found[from[2] + mid].from, above.node, below.node>>
             x == (below.base + Len(both)) + 1
  <2>7. r \in Jumps(found)
    <3> DEFINE k == from[2] + mid
    <3>1. k \in Nat
      BY <1>0, <2>1
    <3> HIDE DEF k
    <3>2. \A jt, jf \in Ends(found) : <<"JGE", found[k].from, jt, jf>> \in Jumps(found)
      BY <3>1 DEF Jumps
    <3>3. <<"JGE", found[k].from, above.node, below.node>> \in Jumps(found)
      BY <2>3, <2>6, <3>2
    <3> QED
      BY <3>3 DEF k
  <2>8. both \in Seq(Jumps(found))
    BY <2>3, <2>6
  <2>9. c = [base |-> below.base, requests |-> Append(both, r), node |-> x]
    BY <2>c DEF Emit, Joined, Count
  <2> HIDE DEF both, r
  <2>10. Append(both, r) \in Seq(Jumps(found)) /\ x \in Nat
    BY <2>3, <2>7, <2>8
  <2>11. x \in Ends(found)
    BY <2>10 DEF Ends
  <2> HIDE DEF x
  <2> QED
    BY <2>3, <2>9, <2>10, <2>11, LooseOf
<1> QED
  BY <1>3, <1>4

LEMMA TableSame ==
  ASSUME NEW found, NEW n \in Nat, n > 0, NEW f, NEW g, \A j \in 1..n : j < n => f[j] = g[j]
  PROVE  TableCode(found, f, n) = TableCode(found, g, n)
<1> DEFINE mid == n \div 2
<1>1. ASSUME NEW from \in Starts PROVE TableFrom(found, f, n, from) = TableFrom(found, g, n, from)
  <2> DEFINE c == TableFrom(found, f, n, from)
             d == TableFrom(found, g, n, from)
  <2>c. IsTable(found, f, n, from, c) /\ IsTable(found, g, n, from, d)
    BY TableCases
  <2> SUFFICES c = d
    OBVIOUS
  <2> HIDE DEF c, d
  <2>1. CASE n = 1
    BY <2>1, <2>c DEF IsTable
  <2>2. CASE n # 1
    <3>0. n > 1
      BY <2>2
    <3>1. mid \in 1..n /\ mid < n /\ n - mid \in 1..n /\ n - mid < n
      BY <3>0, Middle
    <3> HIDE DEF mid
    <3>2. f[mid] = g[mid] /\ f[n - mid] = g[n - mid]
      BY <3>1
    <3> QED
      BY <2>2, <2>c, <3>2 DEF IsTable, mid
  <2> QED
    BY <2>1, <2>2
<1>2. [from \in Starts |-> TableFrom(found, f, n, from)] = [from \in Starts |-> TableFrom(found, g, n, from)]
  BY <1>1
<1> QED
  BY <1>2, TableCodeIs

LEMMA TableEquation ==
  ASSUME NEW found, NEW max \in Nat, max = Len(found)
  PROVE  \A n \in 1..max : \A from \in Starts :
           AssembleJumpTable(found)[n][from] = TableFrom(found, AssembleJumpTable(found), n, from)
<1> DEFINE S == [Starts -> Loose(found)]
           F == [1..max -> S]
           step == [q \in (1..max) \X F |-> TableCode(found, q[2], q[1])]
<1>2. \A n \in 1..max, f \in F : step[<<n, f>>] = TableCode(found, f, n)
  OBVIOUS
<1>3. step \in [(1..max) \X F -> S]
  <2>1. ASSUME NEW n \in 1..max, NEW f \in F PROVE TableCode(found, f, n) \in S
    <3>1. n \in Nat /\ n > 0 /\ \A j \in 1..n : j < n => f[j] \in [Starts -> Loose(found)]
      OBVIOUS
    <3>2. \A from \in Starts : TableFrom(found, f, n, from) \in Loose(found)
      BY <3>1, TableTyped
    <3>3. [from \in Starts |-> TableFrom(found, f, n, from)] \in S
      BY <3>2
    <3> QED
      BY <3>3, TableCodeIs
  <2> QED
    BY <2>1
<1>4. S # {}
  <2>1. <<>> \in Seq(Jumps(found)) /\ 0 \in Ends(found)
    BY DEF Ends
  <2>2. [base |-> 0, requests |-> <<>>, node |-> 0] \in Loose(found)
    BY <2>1, LooseOf
  <2>3. [from \in Starts |-> [base |-> 0, requests |-> <<>>, node |-> 0]] \in S
    BY <2>2
  <2> QED
    BY <2>3
<1> HIDE DEF step, S
<1>5. Back(step, max, S)
  <2> SUFFICES ASSUME NEW n \in 1..max, NEW f \in F, NEW g \in F, \A j \in 1..max : j < n => f[j] = g[j]
               PROVE  step[<<n, f>>] = step[<<n, g>>]
    BY DEF Back
  <2>1. n \in Nat /\ n > 0 /\ \A j \in 1..n : j < n => f[j] = g[j]
    OBVIOUS
  <2>2. TableCode(found, f, n) = TableCode(found, g, n)
    BY <2>1, TableSame
  <2> QED
    BY <1>2, <2>2
<1>6. PICK f \in F : Solves(f, step, max)
  BY <1>3, <1>4, <1>5, Recursion
<1>7. f = [n \in 1..Len(found) |-> TableCode(found, f, n)]
  BY <1>2, <1>6 DEF Solves
<1> DEFINE chosen == CHOOSE g : g = [n \in 1..Len(found) |-> TableCode(found, g, n)]
<1>8. AssembleJumpTable(found) = chosen
  BY DEF AssembleJumpTable
<1>9. chosen = [n \in 1..Len(found) |-> TableCode(found, chosen, n)]
  BY <1>7
<1> HIDE DEF chosen
<1> DEFINE Solved(g) == \A n \in 1..max : \A from \in Starts :
                          g[n][from] = TableFrom(found, g, n, from)
<1>10. ASSUME NEW n \in 1..max, NEW from \in Starts
       PROVE  chosen[n][from] = TableFrom(found, chosen, n, from)
  <2>1. chosen[n] = TableCode(found, chosen, n)
    BY <1>9
  <2>2. chosen[n] = [at \in Starts |-> TableFrom(found, chosen, n, at)]
    BY <2>1, TableCodeIs
  <2> QED
    BY <2>2
<1>11. Solved(chosen)
  BY <1>10
<1> HIDE DEF Solved
<1>12. Solved(AssembleJumpTable(found))
  BY <1>8, <1>11
<1> QED
  BY <1>12 DEF Solved

-----------------------------------------------------------------------------
(* The search ends in the last range that does not begin after the number.   *)
Ranges(found, base) ==
  /\ Len(found) \in Nat
  /\ \A i \in 1..Len(found) : found[i].from \in Word /\ found[i].node \in 1..base
  /\ \A i, j \in 1..Len(found) : i <= j => found[i].from <= found[j].from

IsLast(found, first, last, k, num) ==
  /\ k \in first..last
  /\ k = first \/ found[k].from <= num
  /\ \A j \in first..last : j > k => num < found[j].from

TableFor(found, c, first, last) ==
  \A V, data : Reads(V, data, c) =>
    \A acc \in Word : \E k \in first..last :
      IsLast(found, first, last, k, acc) /\ V[c.node][acc] = V[found[k].node][acc]

Searching(p, found, c, base, first, last) ==
  Extends(p, Code(base), c) /\ ~UnsafeIn(c) /\ TableFor(found, c, first, last)

TableRight(p, found, low, n) ==
  \A base, first \in Nat :
    base >= low /\ first > 0 /\ first + n <= Len(found) + 1 =>
      Searching(p, found, AssembleJumpTable(found)[n][<<base, first>>], base, first, (first + n) - 1)

LEMMA TableStep ==
  ASSUME NEW p, NEW low \in Nat, NEW found, Ranges(found, low), NEW n \in 1..Len(found),
         \A j \in 1..Len(found) : j < n => TableRight(p, found, low, j)
  PROVE  TableRight(p, found, low, n)
<1> DEFINE max == Len(found)
           assemble == AssembleJumpTable(found)
<1>0. max \in Nat /\ n \in Nat /\ n > 0 /\ n <= max
  BY DEF Ranges
<1> SUFFICES ASSUME NEW base \in Nat, NEW first \in Nat, base >= low, first > 0,
                    first + n <= max + 1
             PROVE  Searching(p, found, assemble[n][<<base, first>>], base, first, (first + n) - 1)
  BY DEF TableRight
<1> DEFINE c == assemble[n][<<base, first>>]
           from == <<base, first>>
<1>1. from \in Starts /\ from[1] = base /\ from[2] = first
  BY DEF Starts
<1>2. IsTable(found, assemble, n, from, c)
  <2>1. c = TableFrom(found, assemble, n, from)
    BY <1>0, <1>1, TableEquation
  <2> QED
    BY <2>1, TableCases
<1>3. Whole(p, Code(base)) /\ Count(Code(base)) = base /\ ~UnsafeIn(Code(base))
  BY CodeWhole
<1>4. CASE n = 1
  <2> DEFINE x == found[first].node
  <2>1. c = At(Code(base), x)
    BY <1>1, <1>2, <1>4 DEF IsTable
  <2>2. first \in 1..max /\ (first + n) - 1 = first
    BY <1>0, <1>4
  <2>3. x \in 1..Count(Code(base))
    BY <1>3, <2>2 DEF Ranges
  <2> HIDE DEF x, c
  <2>4. Extends(p, Code(base), c) /\ Safely(Code(base), c) /\ c.node = x
    BY <1>3, <2>1, <2>3, Placing
  <2>5. \A acc : IsLast(found, first, first, first, acc)
    BY DEF IsLast
  <2>6. first \in first..first
    OBVIOUS
  <2>7. TableFor(found, c, first, first)
    BY <2>4, <2>5, <2>6 DEF TableFor, x
  <2> QED
    BY <1>3, <2>2, <2>4, <2>7 DEF Searching, Safely, c
<1>5. CASE n # 1
  <2> DEFINE mid == n \div 2
             below == assemble[mid][from]
             above == assemble[n - mid][<<Count(below), first + mid>>]
             both == Joined(below, above)
             start == found[first + mid].from
             last == (first + n) - 1
             pivot == first + mid
  <2>0. n > 1
    BY <1>0, <1>5
  <2>1. /\ mid \in 1..n /\ mid < n /\ n - mid \in 1..n /\ n - mid < n /\ mid \in Nat
        /\ n - mid \in Nat
        /\ mid + (n - mid) = n
    BY <1>0, <2>0, Middle
  <2>2. c = Emit(both, "JGE", start, above.node, below.node)
    BY <1>1, <1>2, <1>5 DEF IsTable
  <2>3. below = AssembleJumpTable(found)[mid][<<base, first>>]
    OBVIOUS
  <2>4. above = AssembleJumpTable(found)[n - mid][<<Count(below), first + mid>>]
    OBVIOUS
  <2> HIDE DEF c, mid, below, above, both
  <2> DEFINE rest == n - mid
  <2>5. mid \in 1..max /\ rest \in 1..max /\ first + mid <= max + 1 /\ pivot + rest = first + n
        /\ pivot \in Nat /\ pivot > 0 /\ pivot \in 1..max /\ rest \in Nat /\ rest < n /\ mid < n
        /\ (pivot + rest) - 1 = last /\ (first + mid) - 1 = pivot - 1
        /\ last \in 1..max /\ pivot <= last /\ first < pivot
    BY <1>0, <2>1
  <2>6. TableRight(p, found, low, mid) /\ TableRight(p, found, low, rest)
    BY <2>5
  <2>7. Searching(p, found, below, base, first, pivot - 1)
    BY <2>3, <2>5, <2>6 DEF TableRight
  <2>8. /\ Whole(p, below) /\ below.node \in 1..Count(below) /\ Count(below) \in Nat
        /\ base <= Count(below)
    <3>1. Extends(p, Code(base), below)
      BY <2>7 DEF Searching
    <3> QED
      BY <1>3, <3>1, PlanFacts DEF Extends, Whole
  <2>9. Searching(p, found, above, Count(below), pivot, last)
    <3> DEFINE b == Count(below)
    <3>1. b \in Nat /\ b >= low /\ pivot + rest <= max + 1
          /\ above = AssembleJumpTable(found)[rest][<<b, pivot>>]
      BY <2>4, <2>5, <2>8
    <3> HIDE DEF b, rest
    <3>2. Searching(p, found, above, b, pivot, (pivot + rest) - 1)
      BY <2>5, <2>6, <3>1 DEF TableRight
    <3> QED
      BY <2>5, <3>2 DEF b
  <2>10. /\ Extends(p, Code(base), both) /\ both.node = above.node /\ Count(both) = Count(above)
         /\ ~UnsafeIn(both)
         /\ \A V, data : Reads(V, data, both) => Reads(V, data, below) /\ Reads(V, data, above)
    <3>1. Extends(p, Code(base), below) /\ Extends(p, Code(Count(below)), above)
      BY <2>7, <2>9 DEF Searching
    <3>2. both = Joined(below, above)
      BY DEF both
    <3>3. ~UnsafeIn(below) /\ ~UnsafeIn(above)
      BY <2>7, <2>9 DEF Searching
    <3>4. /\ Extends(p, Code(base), both) /\ both.node = above.node /\ Count(both) = Count(above)
          /\ (UnsafeIn(both) => UnsafeIn(below) \/ UnsafeIn(above))
          /\ \A V, data : Reads(V, data, both) => Reads(V, data, below) /\ Reads(V, data, above)
      BY <3>1, <3>2, OneAfterOther
    <3> QED
      BY <3>3, <3>4
  <2>11. Whole(p, both) /\ above.node \in 1..Count(both) /\ below.node \in 1..Count(both)
    <3>1. Extends(p, Code(Count(below)), above) /\ Count(Code(Count(below))) = Count(below)
          /\ Count(above) \in Nat
      BY <2>8, <2>9, CodeWhole, PlanFacts DEF Searching, Extends, Whole
    <3>2. above.node \in 1..Count(above) /\ Count(below) <= Count(above)
      BY <3>1 DEF Extends
    <3> QED
      BY <2>8, <2>10, <3>1, <3>2 DEF Extends
  <2>12. start \in Word /\ "JGE" \in Branches
    BY <2>5 DEF Ranges, Branches
  <2> HIDE DEF start, pivot, last
  <2>13. /\ Extends(p, both, c) /\ Safely(both, c)
         /\ \A V, data : Reads(V, data, c) =>
              \A acc \in Word : V[c.node][acc] = V[IF Taken("JGE", start, acc) THEN above.node ELSE below.node][acc]
    BY <2>2, <2>11, <2>12, Branching
  <2>14. Extends(p, Code(base), c) /\ ~UnsafeIn(c)
    BY <1>3, <2>10, <2>13, Extending DEF Safely
  <2>15. ASSUME NEW V, NEW data, Reads(V, data, c), NEW acc \in Word
         PROVE  \E k \in first..last :
                  IsLast(found, first, last, k, acc) /\ V[c.node][acc] = V[found[k].node][acc]
    <3>1. Reads(V, data, below) /\ Reads(V, data, above)
      BY <2>10, <2>13, <2>15 DEF Extends
    <3>2. CASE acc >= start
      <4>1. V[c.node][acc] = V[above.node][acc]
        BY <2>13, <2>15, <3>2 DEF Taken
      <4>2. PICK k \in pivot..last : IsLast(found, pivot, last, k, acc)
            /\ V[above.node][acc] = V[found[k].node][acc]
        BY <2>9, <3>1 DEF Searching, TableFor
      <4>3. k \in first..last /\ (k = pivot \/ found[k].from <= acc)
        BY <2>5, <4>2 DEF IsLast
      <4>4. found[pivot].from <= acc
        BY <2>12, <3>2 DEF start, pivot, Word
      <4>5. \A j \in first..last : j > k => j \in pivot..last
        BY <2>5, <4>2
      <4>6. IsLast(found, first, last, k, acc)
        BY <4>2, <4>3, <4>4, <4>5 DEF IsLast
      <4> QED
        BY <4>1, <4>2, <4>3, <4>6
    <3>3. CASE ~(acc >= start)
      <4>1. V[c.node][acc] = V[below.node][acc]
        BY <2>13, <2>15, <3>3 DEF Taken
      <4>2. PICK k \in first..(pivot - 1) :
              IsLast(found, first, pivot - 1, k, acc) /\ V[below.node][acc] = V[found[k].node][acc]
        BY <2>7, <3>1 DEF Searching, TableFor
      <4>3. k \in first..last
        BY <2>5, <4>2
      <4>4. ASSUME NEW j \in first..last, j > k,
                   ~(j \in first..(pivot - 1)) PROVE acc < found[j].from
        <5>1. j \in 1..max /\ pivot <= j
          BY <2>5, <4>4
        <5>2. found[pivot].from <= found[j].from /\ found[j].from \in Word
          BY <2>5, <5>1 DEF Ranges
        <5>3. found[pivot].from = start
          BY DEF start, pivot
        <5> QED
          BY <2>12, <3>3, <5>2, <5>3 DEF Word
      <4>5. IsLast(found, first, last, k, acc)
        BY <4>2, <4>3, <4>4 DEF IsLast
      <4> QED
        BY <4>1, <4>2, <4>3, <4>5
    <3> QED
      BY <3>2, <3>3
  <2>16. TableFor(found, c, first, last)
    BY <2>15 DEF TableFor
  <2> QED
    BY <2>14, <2>16 DEF Searching, c, last
<1> QED
  BY <1>4, <1>5

LEMMA TableFacts ==
  ASSUME NEW p, NEW low \in Nat, NEW found, Ranges(found, low), Len(found) > 0, NEW base \in Nat,
         base >= low,
         NEW c, c = AssembleJumpTable(found)[Len(found)][<<base, 1>>]
  PROVE  Searching(p, found, c, base, 1, Len(found))
<1> DEFINE n == Len(found)
           G == {i \in 1..n : TableRight(p, found, low, i)}
<1>0. n \in Nat
  BY DEF Ranges
<1>1. ASSUME NEW i \in 1..n, \A j \in 1..n : j < i => j \in G PROVE i \in G
  <2>1. \A j \in 1..n : j < i => TableRight(p, found, low, j)
    BY <1>1
  <2> QED
    BY <2>1, TableStep
<1>2. \A i \in 1..n : i \in G
  <2> HIDE DEF G
  <2> QED
    BY <1>0, <1>1, Smaller
<1>3. n \in 1..n /\ TableRight(p, found, low, n)
  BY <1>0, <1>2
<1>4. 1 > 0 /\ 1 + n <= n + 1 /\ (1 + n) - 1 = n
  BY <1>0
<1> HIDE DEF n
<1>5. Searching(p, found, c, base, 1, (1 + n) - 1)
  BY <1>3, <1>4 DEF TableRight, n
<1> QED
  BY <1>4, <1>5 DEF n

-----------------------------------------------------------------------------
(* The iteration over the numbers.                                           *)
ValidFacts(build) ==
  /\ Len(build.valid) \in Nat /\ DOMAIN build.valid = 1..Len(build.valid)
  /\ \A i \in 1..Len(build.valid) :
       /\ build.valid[i][1] \in Nat /\ build.valid[i][2] \in Nat
       /\ build.valid[i][1] <= build.valid[i][2] /\ build.valid[i][2] < Half
  /\ \A i, j \in 1..Len(build.valid) : j < i => build.valid[j][2] < build.valid[i][1]

LEMMA BuildFacts ==
  ASSUME NEW build, BuildOK(build)
  PROVE  ValidFacts(build)
<1>1. Len(build.valid) \in Nat /\ DOMAIN build.valid = 1..Len(build.valid)
  BY DEF BuildOK
<1>2. \A i \in 1..Len(build.valid) : build.valid[i] \in Nat \X Nat
  BY DEF BuildOK
<1>3. \A i, j \in 1..Len(build.valid) : j < i => j \in 1..(i - 1)
  BY <1>1
<1> QED
  BY <1>1, <1>2, <1>3 DEF BuildOK, ValidFacts

(* The numbers between one and the next are invalid, and so is the one       *)
(* before them: what the policy says does not change in between.             *)
Skipping(build, num, next) ==
  \A k \in Word : num < k /\ k < next => ~IsValid(build, k) /\ ~IsValid(build, num)

NextRight(build, num, next) ==
  /\ next = 0 => num = Ones
  /\ next # 0 => next \in Word /\ num < next /\ Skipping(build, num, next)

LEMMA NextFacts ==
  ASSUME NEW build, BuildOK(build), NEW num \in Word
  PROVE  NextRight(build, num, NextSyscall(build, num))
<1> DEFINE next == NextSyscall(build, num)
           n == Len(build.valid)
           ahead == Ahead(build, num)
           v == build.valid
<1>0. ValidFacts(build)
  BY BuildFacts
<1>1. /\ n \in Nat /\ DOMAIN v = 1..n /\ num \in Nat /\ num <= Ones
      /\ \A i \in 1..n : v[i][1] \in Nat /\ v[i][2] \in Nat /\ v[i][1] <= v[i][2] /\ v[i][2] < Half
      /\ \A i, j \in 1..n : j < i => v[j][2] < v[i][1]
  <2>1. num \in Nat /\ num <= Ones
    BY WordFacts DEF Word
  <2> QED
    BY <1>0, <2>1 DEF ValidFacts
<1>2. /\ Top \in Nat /\ Half \in Nat /\ Half >= 2 /\ Top = 2 * Half /\ Ones = Top - 1
      /\ Word = 0..(Top - 1)
  BY WordFacts DEF Word
<1>3. \A k : IsValid(build, k) <=> \E i \in 1..n : v[i][1] <= k /\ k <= v[i][2]
  BY <1>1 DEF IsValid
<1>4. \A i : i \in ahead <=> i \in 1..n /\ num <= v[i][2]
  BY <1>1 DEF Ahead
<1> SUFFICES NextRight(build, num, next)
  OBVIOUS
<1>5. CASE ahead = {}
  <2>1. next = NextBehind(num)
    BY <1>5 DEF NextSyscall
  <2>2. \A k \in Word : num <= k => ~IsValid(build, k)
    <3> SUFFICES ASSUME NEW k \in Word, num <= k, NEW i \in 1..n, v[i][1] <= k,
                        k <= v[i][2] PROVE FALSE
      BY <1>3
    <3>1. num <= v[i][2]
      BY <1>1, <1>2
    <3> QED
      BY <1>4, <1>5, <3>1
  <2>3. Skipping(build, num, next)
    BY <1>1, <1>2, <2>2 DEF Skipping
  <2>4. next = 0 => num = Ones
    BY <1>1, <1>2, <2>1 DEF NextBehind
  <2>5. next # 0 => next \in Word /\ num < next
    BY <1>1, <1>2, <2>1 DEF NextBehind
  <2> QED
    BY <2>3, <2>4, <2>5 DEF NextRight
<1>6. CASE ahead # {}
  <2> DEFINE first == CHOOSE i \in ahead : \A j \in ahead : i <= j
             range == v[first]
             lo == range[1]
             hi == range[2]
  <2>1. first \in ahead /\ \A j \in ahead : first <= j
    <3>1. ahead \in SUBSET Nat
      BY <1>4
    <3>2. \E i \in ahead : \A j \in ahead : i <= j
      BY <1>6, <3>1, LeastNumber
    <3> QED
      BY <3>2
  <2>2. next = NextAt(range, num)
    BY <1>6 DEF NextSyscall
  <2> HIDE DEF first, ahead
  <2>3. first \in 1..n /\ num <= hi /\ lo \in Nat /\ hi \in Nat /\ lo <= hi /\ hi < Half
    BY <1>1, <1>4, <2>1
  <2>4. ASSUME NEW k \in Word, num <= k, k < lo PROVE ~IsValid(build, k)
    <3> SUFFICES ASSUME NEW i \in 1..n, v[i][1] <= k, k <= v[i][2] PROVE FALSE
      BY <1>3
    <3>1. i \in ahead
      <4>1. v[i][2] \in Nat /\ k \in Nat /\ num \in Nat
        BY <1>1, <1>2
      <4>2. num <= v[i][2]
        BY <2>4, <4>1
      <4> QED
        BY <1>4, <4>2
    <3>2. first <= i
      BY <2>1, <3>1
    <3>3. lo <= v[i][1]
      <4>1. CASE first = i
        BY <1>1, <4>1
      <4>2. CASE first # i
        <5>1. hi < v[i][1] /\ v[i][1] \in Nat
          BY <1>1, <2>3, <3>2, <4>2
        <5> QED
          BY <2>3, <5>1
      <4> QED
        BY <4>1, <4>2
    <3> QED
      BY <1>1, <1>2, <2>3, <2>4, <3>3
  <2> HIDE DEF range, lo, hi, v
  <2>5. CASE lo > 0 /\ num < lo - 1
    <3>1. next = lo - 1
      BY <1>1, <2>2, <2>3, <2>5 DEF NextAt, lo
    <3>2. next \in Word /\ num < next /\ next # 0
      BY <1>1, <1>2, <2>3, <2>5, <3>1
    <3>3. Skipping(build, num, next)
      <4> SUFFICES ASSUME NEW k \in Word, num < k, k < next PROVE ~IsValid(build,
                          k) /\ ~IsValid(build, num)
        BY DEF Skipping
      <4>1. k < lo /\ num <= k /\ num < lo /\ num <= num
        BY <1>1, <1>2, <2>3, <3>1
      <4> QED
        BY <2>4, <4>1
    <3> QED
      BY <3>2, <3>3 DEF NextRight
  <2>6. CASE ~(lo > 0 /\ num < lo - 1)
    <3>1. next = num + 1
      <4>1. CASE num < lo
        <5>1. next = lo
          BY <1>1, <2>2, <2>3, <2>6, <4>1 DEF NextAt, lo
        <5> QED
          BY <1>1, <2>3, <2>6, <4>1, <5>1
      <4>2. CASE ~(num < lo)
        <5>1. num >= lo
          BY <1>1, <2>3, <4>2
        <5> QED
          BY <2>2, <2>6, <4>2, <5>1 DEF NextAt, lo
      <4> QED
        BY <4>1, <4>2
    <3>2. next \in Word /\ num < next /\ next # 0
      BY <1>1, <1>2, <2>3, <3>1
    <3>3. Skipping(build, num, next)
      BY <1>1, <1>2, <3>1 DEF Skipping
    <3> QED
      BY <3>2, <3>3 DEF NextRight
  <2> QED
    BY <2>5, <2>6
<1> QED
  BY <1>5, <1>6

(* What a process asks with, is data.                                        *)
LEMMA DataFacts ==
  ASSUME IsPolicy(policy)
  PROVE  \A data \in Data :
           /\ data \in Datas /\ data.nr \in Word /\ data.arch \in Word
           /\ data.ip_hi \in Word /\ data.ip_lo \in Word /\ data.arg_lo \in Word
           /\ data.arg_hi \in Word
<1>0. 0 \in Word /\ 1 \in Word /\ 2 \in Word /\ ValidNumbers(policy.build) \subseteq Word
      /\ 0..1 \subseteq Word
  BY WordFacts DEF ValidNumbers
<1>1. ArgLo \subseteq Word /\ ArgHi \subseteq Word
  BY PolicyAssumption
<1>2. \A data \in Data :
        data \in [nr : Word, arch : Word, ip_hi : Word, ip_lo : Word, arg_lo : Word, arg_hi : Word]
  BY <1>0, <1>1 DEF Data
<1>3. ASSUME NEW data \in [nr : Word, arch : Word, ip_hi : Word, ip_lo : Word, arg_lo : Word,
             arg_hi : Word]
      PROVE  data \in [Fields -> Word]
  BY <1>3 DEF Fields
<1> QED
  BY <1>2, <1>3 DEF Datas

-----------------------------------------------------------------------------
(* The requests of a policy p and their answers: rs are the requests, ns the *)
(* nodes of those that were made, ks the handlers that were added.           *)
Asking(p, rs) ==
  /\ rs \in Seq(Asked(p))
  /\ \A n \in 1..Len(rs) : Targets(rs[n], n)
  /\ \A n \in 1..Len(rs) : Unsafe(rs[n]) => HasUnsafeTraps(p)

(* No handler has two identifiers, and unsafe ones are the policy's.         *)
Named(p, ks) ==
  /\ ks \in Seq(KeysOf(p))
  /\ \A i, j \in 1..Len(ks) : ks[i] = ks[j] => i = j
  /\ \A i \in 1..Len(ks) : ~ks[i].safe => HasUnsafeTraps(p)

NodeIn(ns, n) == IF n = kNullNode THEN kNullNode ELSE ns[n]
Call(ks, ns, r) == <<r[1], Operand(ks, r), NodeIn(ns, r[3]), NodeIn(ns, r[4])>>

Has(ks, entry) == \E i \in 1..Len(ks) : ks[i] = entry

(* The answer to the request is what CodeGen remembers for its call.         *)
IsAnswered(g, ks, ns, n, r) ==
  /\ Call(ks, ns, r) \in DOMAIN g.memos /\ g.memos[Call(ks, ns, r)] = ns[n]
  /\ IsTrap(r) => Has(ks, r[2][2])

Answering(g, ks, rs, ns) ==
  /\ ns \in Seq(Nat) /\ Len(ns) <= Len(rs)
  /\ \A n \in 1..Len(ns) : IsAnswered(g, ks, ns, n, rs[n])

Dialogue(p, g, ks, rs, ns) ==
  /\ IsPolicy(p) /\ Assembled(g) /\ Memoised(g)
  /\ Asking(p, rs) /\ Named(p, ks) /\ Answering(g, ks, rs, ns)

(* Identifiers.                                                              *)
LEMMA KeyNamed ==
  ASSUME NEW p, NEW ks, Named(p, ks), NEW entry \in KeysOf(p), entry.safe \/ HasUnsafeTraps(p),
         NEW ls, ls = Registry!WithKey(ks, entry)
  PROVE  /\ Named(p, ls) /\ Has(ls, entry)
         /\ \A k : Has(ks, k) => Has(ls, k)
         /\ \A i \in 1..Len(ks) : i \in 1..Len(ls) /\ ls[i] = ks[i]
<1>0. Len(ks) \in Nat
  BY DEF Named
<1>1. CASE Has(ks, entry)
  <2>1. ls = ks
    BY <1>1 DEF Registry!WithKey, Registry!Ids, Has
  <2> QED
    BY <1>1, <2>1
<1>2. CASE ~Has(ks, entry)
  <2>1. ls = Append(ks, entry)
    BY <1>2 DEF Registry!WithKey, Registry!Ids, Has
  <2>2. /\ ls \in Seq(KeysOf(p)) /\ Len(ls) = Len(ks) + 1 /\ ls[Len(ks) + 1] = entry
        /\ \A i \in 1..Len(ks) : ls[i] = ks[i]
    BY <2>1 DEF Named
  <2> DEFINE n == Len(ks)
  <2> HIDE DEF n
  <2>3. 1..Len(ls) = (1..n) \union {n + 1} /\ n \in Nat
    BY <1>0, <2>2 DEF n
  <2>4. \A i \in 1..n : ls[i] = ks[i] /\ ls[i] # entry
    BY <1>2, <2>2 DEF Has, n
  <2>5. ls[n + 1] = entry
    BY <2>2 DEF n
  <2>6. \A i, j \in 1..Len(ls) : ls[i] = ls[j] => i = j
    BY <2>3, <2>4, <2>5 DEF Named, n
  <2>7. \A i \in 1..Len(ls) : ~ls[i].safe => HasUnsafeTraps(p)
    BY <2>3, <2>4, <2>5 DEF Named, n
  <2>8. Has(ls, entry) /\ \A k : Has(ks, k) => Has(ls, k)
    BY <2>3, <2>4, <2>5 DEF Has, n
  <2> QED
    BY <2>2, <2>3, <2>4, <2>6, <2>7, <2>8 DEF Named, n
<1> QED
  BY <1>1, <1>2

LEMMA IdFacts ==
  ASSUME NEW p, NEW ks, Named(p, ks), NEW entry, Has(ks, entry)
  PROVE  /\ Registry!IdOf(ks, entry) \in 1..Len(ks) /\ Registry!IdOf(ks, entry) \in Nat
         /\ ks[Registry!IdOf(ks, entry)] = entry
         /\ \A i \in 1..Len(ks) : ks[i] = entry => Registry!IdOf(ks, entry) = i
<1>1. \E id \in 1..Len(ks) : ks[id] = entry
  BY DEF Has
<1>2. Registry!IdOf(ks, entry) \in 1..Len(ks) /\ ks[Registry!IdOf(ks, entry)] = entry
  BY <1>1 DEF Registry!IdOf, Registry!Ids
<1> QED
  BY <1>2 DEF Named

LEMMA IdKept ==
  ASSUME NEW p, NEW ks, NEW ls, Named(p, ks), Named(p, ls), NEW entry, Has(ks, entry), Has(ls,
         entry),
         \A i \in 1..Len(ks) : i \in 1..Len(ls) /\ ls[i] = ks[i]
  PROVE  Registry!IdOf(ls, entry) = Registry!IdOf(ks, entry)
<1>1. Registry!IdOf(ks, entry) \in 1..Len(ks) /\ ks[Registry!IdOf(ks, entry)] = entry
  BY IdFacts
<1>2. \A i \in 1..Len(ls) : ls[i] = entry => Registry!IdOf(ls, entry) = i
  BY IdFacts
<1> QED
  BY <1>1, <1>2

(* A request, by its kind.                                                   *)
LEMMA AskedKinds ==
  ASSUME NEW p, NEW r \in Asked(p)
  PROVE  /\ r = <<r[1], r[2], r[3], r[4]>> /\ r[3] \in Nat /\ r[4] \in Nat
         /\ r[1] \in {"RET", "LD", "AND"} \union Branches
         /\ r[1] = "RET" => r[2] \in AskedReturns(p) /\ r[3] = kNullNode /\ r[4] = kNullNode
         /\ r[1] \notin {"RET"} \union Branches => <<r[1], r[2]>> \in AllSteps /\ r[4] = kNullNode
         /\ r[1] \in Branches => <<r[1], r[2]>> \in AllTests
<1>1. CASE r \in {"RET"} \X AskedReturns(p) \X {kNullNode} \X {kNullNode}
  BY <1>1 DEF Branches, kNullNode
<1>2. CASE r \in {<<step[1], step[2], jt, kNullNode>> : step \in AllSteps, jt \in Nat}
  <2>1. PICK step \in AllSteps, jt \in Nat : r = <<step[1], step[2], jt, kNullNode>>
    BY <1>2
  <2>2. <<step[1], step[2]>> \in AllSteps /\ step[1] \in {"LD", "AND"}
    BY DEF AllSteps
  <2> QED
    BY <2>1, <2>2 DEF Branches, kNullNode
<1>3. CASE r \in {<<test[1], test[2], jt, jf>> : test \in AllTests, jt \in Nat, jf \in Nat}
  <2>1. PICK test \in AllTests, jt \in Nat, jf \in Nat : r = <<test[1], test[2], jt, jf>>
    BY <1>3
  <2>2. <<test[1], test[2]>> \in AllTests /\ test[1] \in Branches
    BY DEF AllTests
  <2> QED
    BY <2>1, <2>2 DEF Branches, kNullNode
<1> QED
  BY <1>1, <1>2, <1>3 DEF Asked

LEMMA ReturnKinds ==
  ASSUME NEW p, NEW ret \in AskedReturns(p)
  PROVE  /\ ret[1] # "TRAP" => ret \in Plain
         /\ ret[1] = "TRAP" => ret[2] \in KeysOf(p) /\ ret = <<"TRAP", ret[2]>>
  BY DEF AskedReturns, Plain, Actions

(* An instruction that is made, or was.                                      *)
LEMMA MemoMade ==
  ASSUME NEW g, Assembled(g), Memoised(g), NEW code, NEW k, NEW jt, NEW jf,
         <<code, k, jt, jf>> \in DOMAIN g.memos \/ Wanted(g, <<code, k, jt, jf>>),
         NEW made, made = MakeInstruction(g, code, k, jt, jf)
  PROVE  /\ Assembled(made.gen) /\ Memoised(made.gen) /\ made.node \in Nat
         /\ <<code, k, jt, jf>> \in DOMAIN made.gen.memos
         /\ made.gen.memos[<<code, k, jt, jf>>] = made.node
         /\ \A other \in DOMAIN g.memos :
              other \in DOMAIN made.gen.memos /\ made.gen.memos[other] = g.memos[other]
<1> DEFINE asked == <<code, k, jt, jf>>
           h == AppendInstruction(g, code, k, jt, jf)
<1>0. g.memos \in [DOMAIN g.memos -> Nat]
  BY GensFacts DEF Assembled
<1>1. CASE asked \in DOMAIN g.memos
  <2>1. made = Made(g, g.memos[asked])
    BY <1>1 DEF MakeInstruction
  <2>2. made.gen = g /\ made.node = g.memos[asked]
    BY <2>1 DEF Made
  <2> HIDE DEF asked
  <2>3. g.memos[asked] \in Nat
    BY <1>0, <1>1
  <2> QED
    BY <1>1, <2>2, <2>3 DEF asked
<1>2. CASE asked \notin DOMAIN g.memos
  <2>1. Wanted(g, asked)
    BY <1>2
  <2>2. made = Remembered(h, asked)
    BY <1>2 DEF MakeInstruction
  <2>3. Assembled(made.gen) /\ Memoised(made.gen)
    <3>1. LET i == MakeInstruction(g, code, k, jt, jf).gen IN Assembled(i) /\ Memoised(i)
      BY <2>1, RequestMade
    <3> QED
      BY <3>1
  <2>4. asked[1] = code /\ asked[2] = k /\ asked[3] = jt /\ asked[4] = jf
    OBVIOUS
  <2> HIDE DEF asked
  <2>5. Emitted(g, h, asked)
    <3>1. asked \in Requests
      BY <2>1 DEF Wanted
    <3>2. Legal(g, asked)
      BY <2>1, <3>1, RequestKinds, GivenNodes DEF Wanted, Legal, Branches
    <3>3. Emitted(g, AppendInstruction(g, asked[1], asked[2], asked[3], asked[4]), asked)
      BY <3>2, InstructionEmitted
    <3> QED
      BY <2>4, <3>3
  <2> HIDE DEF h
  <2>6. h \in Gens /\ h.memos = g.memos /\ Len(h.program) \in Nat
    BY <2>5, GensFacts DEF Emitted, Grown, Assembled
  <2> DEFINE memos == [other \in DOMAIN h.memos \union {asked} |->
                         IF other = asked THEN Len(h.program) ELSE h.memos[other]]
  <2>7. made.gen.memos = memos /\ made.node = Len(h.program)
    <3>1. made.gen = [h EXCEPT !.memos = memos] /\ made.node = Len(h.program)
      BY <2>2 DEF Remembered, Made
    <3> HIDE DEF memos
    <3>2. h = [program |-> h.program, equivalent |-> h.equivalent, memos |-> h.memos]
      BY <2>6, GensFacts
    <3>3. [h EXCEPT !.memos = memos].memos = memos
      BY <3>2
    <3> QED
      BY <3>1, <3>3
  <2>8. \A other \in DOMAIN g.memos : other \in DOMAIN memos /\ memos[other] = g.memos[other]
    BY <1>2, <2>6
  <2>9. asked \in DOMAIN memos /\ memos[asked] = Len(h.program)
    OBVIOUS
  <2> QED
    BY <2>3, <2>6, <2>7, <2>8, <2>9 DEF asked
<1> QED
  BY <1>1, <1>2

(* The call for a request is one that the assembler understands.             *)
LEMMA CallWanted ==
  ASSUME NEW p, NEW g, NEW ks, NEW ls, NEW rs, NEW ns, Dialogue(p, g, ks, rs, ns), Named(p, ls),
         NEW r \in Asked(p), Targets(r, Len(ns) + 1), IsTrap(r) => Has(ls, r[2][2])
  PROVE  Call(ls, ns, r) \in DOMAIN g.memos \/ Wanted(g, Call(ls, ns, r))
<1> DEFINE a == Operand(ls, r)
           jt == NodeIn(ns, r[3])
           jf == NodeIn(ns, r[4])
           call == <<r[1], a, jt, jf>>
<1>0. Call(ls, ns, r) = call
  BY DEF Call
<1>1. Len(ns) \in Nat /\ (Len(ns) + 1) - 1 = Len(ns)
  BY DEF Dialogue, Answering
<1>2. /\ r[1] \in {"RET", "LD", "AND"} \union Branches
      /\ r[1] = "RET" => r[2] \in AskedReturns(p) /\ r[3] = kNullNode /\ r[4] = kNullNode
      /\ r[1] \notin {"RET"} \union Branches => <<r[1], r[2]>> \in AllSteps /\ r[4] = kNullNode
      /\ r[1] \in Branches => <<r[1], r[2]>> \in AllTests
  BY AskedKinds
<1>3. ASSUME NEW m \in 1..Len(ns) PROVE NodeIn(ns, m) \in GivenIn(g) /\ NodeIn(ns, m) \in Nat
  <2>1. IsAnswered(g, ks, ns, m, rs[m]) /\ ns[m] \in Nat /\ m # 0
    BY DEF Dialogue, Answering
  <2> QED
    BY <2>1 DEF IsAnswered, GivenIn, NodeIn, kNullNode
<1>4. r[1] # "RET" => r[3] \in 1..Len(ns)
  BY <1>1 DEF Targets
<1>5. r[1] \in Branches => r[4] \in 1..Len(ns)
  BY <1>1 DEF Targets
<1>6. NodeIn(ns, kNullNode) = kNullNode
  BY DEF NodeIn
<1>7. r[1] # "RET" => a = r[2]
  BY DEF Operand, IsTrap
<1>8. r[1] = "RET" => a \in AllReturns
  <2> SUFFICES ASSUME r[1] = "RET" PROVE a \in AllReturns
    OBVIOUS
  <2>1. CASE r[2][1] = "TRAP"
    <3>1. IsTrap(r)
      BY <2>1 DEF IsTrap
    <3>2. Registry!IdOf(ls, r[2][2]) \in Nat
      BY <3>1, IdFacts
    <3>3. a = <<"TRAP", Registry!IdOf(ls, r[2][2])>>
      BY <3>1 DEF Operand
    <3> QED
      BY <3>2, <3>3 DEF AllReturns
  <2>2. CASE r[2][1] # "TRAP"
    <3>1. a = r[2]
      BY <2>2 DEF Operand, IsTrap
    <3>2. r[2] \in Plain
      BY <1>2, <2>2, ReturnKinds
    <3> QED
      BY <3>1, <3>2 DEF Plain, Actions, AllReturns
  <2> QED
    BY <2>1, <2>2
<1>9. call[1] = r[1] /\ call[3] = jt /\ call[4] = jf
  OBVIOUS
<1>10. CASE r[1] = "RET"
  <2>1. jt = kNullNode /\ jf = kNullNode
    BY <1>2, <1>6, <1>10
  <2> HIDE DEF a, jt, jf
  <2>2. call \in {"RET"} \X AllReturns \X {kNullNode} \X {kNullNode}
    BY <1>8, <1>10, <2>1
  <2>3. call \in Requests
    BY <2>2 DEF Requests
  <2> QED
    BY <1>0, <1>10, <2>3 DEF Wanted, Branches
<1>11. CASE r[1] \notin {"RET"} \union Branches
  <2>1. jt \in GivenIn(g) /\ jt \in Nat /\ jf = kNullNode /\ a = r[2] /\ <<r[1], r[2]>> \in AllSteps
    BY <1>2, <1>3, <1>4, <1>6, <1>7, <1>11
  <2> HIDE DEF a, jt, jf
  <2>2. \E step \in AllSteps, n \in Nat : call = <<step[1], step[2], n, kNullNode>>
    <3>1. <<r[1], r[2]>>[1] = r[1] /\ <<r[1], r[2]>>[2] = r[2]
      OBVIOUS
    <3> QED
      BY <2>1, <3>1
  <2>3. call \in Requests
    BY <2>2 DEF Requests
  <2> QED
    BY <1>0, <1>9, <1>11, <2>1, <2>3 DEF Wanted
<1>12. CASE r[1] \in Branches
  <2>0. r[1] # "RET"
    BY <1>12 DEF Branches
  <2>1. /\ jt \in GivenIn(g) /\ jt \in Nat /\ jf \in GivenIn(g) /\ jf \in Nat
        /\ a = r[2] /\ <<r[1], r[2]>> \in AllTests
    BY <1>2, <1>3, <1>4, <1>5, <1>7, <1>12, <2>0
  <2> HIDE DEF a, jt, jf
  <2>2. \E test \in AllTests, n \in Nat, m \in Nat : call = <<test[1], test[2], n, m>>
    <3>1. <<r[1], r[2]>>[1] = r[1] /\ <<r[1], r[2]>>[2] = r[2]
      OBVIOUS
    <3> QED
      BY <2>1, <3>1
  <2>3. call \in Requests
    BY <2>2 DEF Requests
  <2> QED
    BY <1>0, <1>9, <1>12, <2>1, <2>3 DEF Wanted
<1> QED
  BY <1>10, <1>11, <1>12

(* The instruction that answers a request.                                   *)
Recalled(g, made, call) ==
  /\ Assembled(made.gen) /\ Memoised(made.gen) /\ made.node \in Nat
  /\ call \in DOMAIN made.gen.memos /\ made.gen.memos[call] = made.node
  /\ \A other \in DOMAIN g.memos :
       other \in DOMAIN made.gen.memos /\ made.gen.memos[other] = g.memos[other]

LEMMA MemoAnswers ==
  ASSUME NEW g, Assembled(g), Memoised(g), NEW ls, NEW ns, NEW r,
         Call(ls, ns, r) \in DOMAIN g.memos \/ Wanted(g, Call(ls, ns, r)),
         NEW made,
         made = MakeInstruction(g, r[1], Operand(ls, r), NodeIn(ns, r[3]), NodeIn(ns, r[4]))
  PROVE  Recalled(g, made, Call(ls, ns, r))
<1> DEFINE code == r[1]
           k == Operand(ls, r)
           jt == NodeIn(ns, r[3])
           jf == NodeIn(ns, r[4])
<1>1. Call(ls, ns, r) = <<code, k, jt, jf>>
  BY DEF Call
<1>2. made = MakeInstruction(g, code, k, jt, jf)
  OBVIOUS
<1> HIDE DEF code, k, jt, jf
<1>3. <<code, k, jt, jf>> \in DOMAIN g.memos \/ Wanted(g, <<code, k, jt, jf>>)
  BY <1>1
<1>4. Recalled(g, made, <<code, k, jt, jf>>)
  BY <1>2, <1>3, MemoMade DEF Recalled
<1> QED
  BY <1>1, <1>4

(* One more answer, and the earlier ones stand.                              *)
LEMMA AnswerMade ==
  ASSUME NEW p, NEW g, NEW ks, NEW rs, NEW ns, Dialogue(p, g, ks, rs, ns), Len(ns) < Len(rs),
         NEW r, r = rs[Len(ns) + 1],
         NEW ls, ls = (IF IsTrap(r) THEN Registry!WithKey(ks, r[2][2]) ELSE ks),
         NEW made,
         made = MakeInstruction(g, r[1], Operand(ls, r), NodeIn(ns, r[3]), NodeIn(ns, r[4])),
         NEW ms, ms = Append(ns, made.node)
  PROVE  Dialogue(p, made.gen, ls, rs, ms)
<1> DEFINE n == Len(ns)
<1>1. /\ rs \in Seq(Asked(p)) /\ ns \in Seq(Nat) /\ n \in Nat /\ Len(rs) \in Nat
      /\ n + 1 \in 1..Len(rs)
      /\ \A m \in 1..n : m \in 1..Len(rs)
  BY DEF Dialogue, Asking, Answering
<1>2. r \in Asked(p) /\ Targets(r, n + 1) /\ (Unsafe(r) => HasUnsafeTraps(p))
  BY <1>1 DEF Dialogue, Asking
<1>3. /\ Named(p, ls) /\ (IsTrap(r) => Has(ls, r[2][2])) /\ (\A k : Has(ks, k) => Has(ls, k))
      /\ \A i \in 1..Len(ks) : i \in 1..Len(ls) /\ ls[i] = ks[i]
  <2>1. CASE IsTrap(r)
    <3> DEFINE entry == r[2][2]
    <3>1. r[2] \in AskedReturns(p)
      BY <1>2, <2>1, AskedKinds DEF IsTrap
    <3>2. entry \in KeysOf(p)
      BY <2>1, <3>1, ReturnKinds DEF IsTrap
    <3>3. entry.safe \/ HasUnsafeTraps(p)
      BY <1>2, <2>1 DEF Unsafe
    <3>4. ls = Registry!WithKey(ks, entry) /\ Named(p, ks)
      BY <2>1 DEF Dialogue
    <3> HIDE DEF entry
    <3>5. /\ Named(p, ls) /\ Has(ls, entry) /\ \A k : Has(ks, k) => Has(ls, k)
          /\ \A i \in 1..Len(ks) : i \in 1..Len(ls) /\ ls[i] = ks[i]
      BY <3>2, <3>3, <3>4, KeyNamed
    <3> QED
      BY <3>5 DEF entry
  <2>2. CASE ~IsTrap(r)
    BY <2>2 DEF Dialogue
  <2> QED
    BY <2>1, <2>2
<1>4. Call(ls, ns, r) \in DOMAIN g.memos \/ Wanted(g, Call(ls, ns, r))
  BY <1>2, <1>3, CallWanted
<1>5. Assembled(g) /\ Memoised(g)
  BY DEF Dialogue
<1>6. /\ Assembled(made.gen) /\ Memoised(made.gen) /\ made.node \in Nat
      /\ Call(ls, ns, r) \in DOMAIN made.gen.memos /\ made.gen.memos[Call(ls, ns, r)] = made.node
      /\ \A other \in DOMAIN g.memos :
           other \in DOMAIN made.gen.memos /\ made.gen.memos[other] = g.memos[other]
  <2>1. Recalled(g, made, Call(ls, ns, r))
    BY <1>4, <1>5, MemoAnswers
  <2> QED
    BY <2>1 DEF Recalled
<1>7. /\ ms \in Seq(Nat) /\ Len(ms) = n + 1 /\ ms[n + 1] = made.node
      /\ \A i \in 1..n : ms[i] = ns[i]
  <2> DEFINE x == made.node
  <2>1. x \in Nat /\ ns \in Seq(Nat) /\ ms = Append(ns, x) /\ n = Len(ns)
    BY <1>1, <1>6
  <2> HIDE DEF x, n
  <2>2. /\ ms \in Seq(Nat) /\ Len(ms) = n + 1 /\ ms[n + 1] = x
        /\ \A i \in 1..n : ms[i] = ns[i]
    BY <2>1
  <2> QED
    BY <2>2 DEF x
<1> HIDE DEF n
<1>8. ASSUME NEW m \in 0..n PROVE NodeIn(ms, m) = NodeIn(ns, m)
  <2>1. m = 0 \/ m \in 1..n
    BY <1>1
  <2>2. m \in 1..n => ms[m] = ns[m]
    BY <1>7
  <2> QED
    BY <2>1, <2>2 DEF NodeIn, kNullNode
<1>9. ASSUME NEW m \in 1..(n + 1), NEW q \in Asked(p), Targets(q, m)
      PROVE  NodeIn(ms, q[3]) = NodeIn(ns, q[3]) /\ NodeIn(ms, q[4]) = NodeIn(ns, q[4])
  <2>0. /\ q[1] = "RET" => q[3] = 0 /\ q[4] = 0
        /\ q[1] \notin {"RET"} \union Branches => q[4] = 0
    BY AskedKinds DEF kNullNode
  <2>1. q[3] \in 0..n
    <3>1. q[1] # "RET" => q[3] \in 1..(m - 1)
      BY <1>9 DEF Targets
    <3> QED
      BY <1>1, <2>0, <3>1
  <2>2. q[4] \in 0..n
    <3>1. q[1] \in Branches => q[4] \in 1..(m - 1)
      BY <1>9 DEF Targets
    <3> QED
      BY <1>1, <2>0, <3>1
  <2> QED
    BY <1>8, <2>1, <2>2
<1>10. ASSUME NEW m \in 1..n PROVE IsAnswered(made.gen, ls, ms, m, rs[m])
  <2> DEFINE q == rs[m]
  <2>1. q \in Asked(p) /\ Targets(q, m) /\ m \in 1..(n + 1)
    BY <1>1 DEF Dialogue, Asking
  <2>2. IsAnswered(g, ks, ns, m, q)
    BY DEF Dialogue, Answering, n
  <2> HIDE DEF q
  <2>3. Operand(ls, q) = Operand(ks, q)
    <3>1. CASE IsTrap(q)
      <4>1. Has(ks, q[2][2]) /\ Has(ls, q[2][2])
        BY <1>3, <2>2, <3>1 DEF IsAnswered
      <4>2. Registry!IdOf(ls, q[2][2]) = Registry!IdOf(ks, q[2][2])
        BY <1>3, <4>1, IdKept DEF Dialogue
      <4> QED
        BY <4>2 DEF Operand
    <3>2. CASE ~IsTrap(q)
      BY <3>2 DEF Operand
    <3> QED
      BY <3>1, <3>2
  <2>4. Call(ls, ms, q) = Call(ks, ns, q)
    BY <1>9, <2>1, <2>3 DEF Call
  <2>5. IsTrap(q) => Has(ls, q[2][2])
    BY <1>3, <2>2 DEF IsAnswered
  <2>6. IsAnswered(made.gen, ls, ms, m, q)
    <3> DEFINE old == Call(ks, ns, q)
               now == Call(ls, ms, q)
    <3>1. old \in DOMAIN g.memos /\ g.memos[old] = ns[m]
      BY <2>2 DEF IsAnswered
    <3>2. now = old
      BY <2>4
    <3> HIDE DEF old, now
    <3>3. now \in DOMAIN made.gen.memos /\ made.gen.memos[now] = ms[m]
      BY <1>6, <1>7, <3>1, <3>2
    <3> QED
      BY <2>5, <3>3 DEF IsAnswered, now
  <2> QED
    BY <2>6 DEF q
<1>11. IsAnswered(made.gen, ls, ms, n + 1, r)
  <2>1. n + 1 \in 1..(n + 1)
    BY <1>1
  <2>2. Call(ls, ms, r) = Call(ls, ns, r)
    BY <1>2, <1>9, <2>1 DEF Call
  <2> QED
    BY <1>3, <1>6, <1>7, <2>2 DEF IsAnswered
<1>12. 1..(n + 1) = (1..n) \union {n + 1}
  BY <1>1
<1>13. Answering(made.gen, ls, rs, ms)
  <2>1. \A m \in 1..Len(ms) : IsAnswered(made.gen, ls, ms, m, rs[m])
    BY <1>7, <1>10, <1>11, <1>12 DEF n
  <2>2. ms \in Seq(Nat) /\ Len(ms) <= Len(rs)
    BY <1>1, <1>7
  <2> QED
    BY <2>1, <2>2 DEF Answering
<1> QED
  BY <1>3, <1>6, <1>13 DEF Dialogue

-----------------------------------------------------------------------------
(* What is read off a value that all requests and answers are true of.       *)
Serves(rs, ns, V, data) ==
  /\ \A n \in 1..Len(rs) : Means(V, data, n, rs[n])
  /\ \A m, n \in 1..Len(ns) : ns[m] = ns[n] => V[m] = V[n]

(* The node of request x gives what it should, as far as can be told.        *)
Delivers(rs, ns, x, says) ==
  \A V : \A data \in Datas : Serves(rs, ns, V, data) => Gives(V, x, says[data])

(* There are more requests or answers, and nothing is taken back.            *)
Onward(rs, ns, qs, ms) ==
  Len(rs) <= Len(qs) /\ \A V, data : Serves(qs, ms, V, data) => Serves(rs, ns, V, data)

LEMMA DeliversOnward ==
  ASSUME NEW rs, NEW ns, NEW qs, NEW ms, Onward(rs, ns, qs, ms), NEW x, NEW says, Delivers(rs, ns,
         x, says)
  PROVE  Delivers(qs, ms, x, says)
  BY DEF Onward, Delivers

LEMMA AnswerOnward ==
  ASSUME NEW rs, NEW ns \in Seq(Nat), NEW x \in Nat, Len(rs) \in Nat, NEW ms, ms = Append(ns, x)
  PROVE  Onward(rs, ns, rs, ms)
<1>1. /\ Len(ns) \in Nat /\ Len(ms) = Len(ns) + 1
      /\ \A n \in 1..Len(ns) : n \in 1..Len(ms) /\ ms[n] = ns[n]
  OBVIOUS
<1> QED
  BY <1>1 DEF Onward, Serves

(* More requests.                                                            *)
LEMMA MoreAsked ==
  ASSUME NEW p, NEW g, NEW ks, NEW rs, NEW ns, Dialogue(p, g, ks, rs, ns),
         NEW c, Extends(p, Code(Len(rs)), c), UnsafeIn(c) => HasUnsafeTraps(p),
         NEW qs, qs = rs \o c.requests
  PROVE  /\ Dialogue(p, g, ks, qs, ns) /\ Len(qs) = Count(c) /\ Onward(rs, ns, qs, ns)
         /\ c.node \in 1..Len(qs)
         /\ \A V, data : Serves(qs, ns, V, data) => Reads(V, data, c)
<1> DEFINE b == [base |-> 0, requests |-> rs, node |-> 0]
           e == Joined(b, c)
<1>0. rs \in Seq(Asked(p)) /\ Len(rs) \in Nat
  BY DEF Dialogue, Asking
<1>1. b \in Plans(p) /\ b.base = 0 /\ b.requests = rs /\ Count(b) = Len(rs)
  <2>1. b \in Plans(p) /\ b.base = 0 /\ b.requests = rs /\ Count(b) = 0 + Len(rs)
    BY <1>0, PlanOf
  <2> QED
    BY <1>0, <2>1
<1>2. e.base = 0 /\ e.requests = qs
  BY DEF Joined
<1> HIDE DEF b
<1>3. Whole(p, b)
  BY <1>0, <1>1 DEF Whole, Behind, Dialogue, Asking
<1>4. Whole(p, c) /\ c.base = Count(b) /\ c.node \in 1..Count(c)
  BY <1>0, <1>1, CodeWhole DEF Extends
<1>5. /\ Extends(p, b, e) /\ Count(e) = Count(c)
      /\ \A V, data : Reads(V, data, e) => Reads(V, data, c)
      /\ UnsafeIn(e) => UnsafeIn(b) \/ UnsafeIn(c)
  BY <1>3, <1>4, Joining
<1> HIDE DEF e
<1>6. /\ Whole(p, e) /\ Count(b) <= Count(e) /\ qs \in Seq(Asked(p)) /\ Len(qs) \in Nat
      /\ Count(e) = 0 + Len(qs)
  BY <1>2, <1>5, PlanFacts DEF Extends, Whole
<1>7. Len(qs) = Count(c) /\ Len(rs) <= Len(qs)
  BY <1>1, <1>5, <1>6
<1>8. \A n \in 1..Len(qs) : 0 + n = n
  BY <1>6
<1>9. \A n \in 1..Len(qs) : Targets(qs[n], n)
  BY <1>2, <1>6, <1>8 DEF Whole, Behind
<1>10. \A n \in 1..Len(qs) : Unsafe(qs[n]) => HasUnsafeTraps(p)
  BY <1>1, <1>2, <1>5 DEF UnsafeIn, Dialogue, Asking
<1>11. \A n \in 1..Len(rs) : n \in 1..Len(qs) /\ qs[n] = rs[n]
  <2> DEFINE more == c.requests
  <2>1. more \in Seq(Asked(p)) /\ qs = rs \o more
    BY <1>4, PlanFacts DEF Whole
  <2> HIDE DEF more
  <2> QED
    BY <1>0, <2>1, ConcatProperties, <1>6, <1>7
<1>12. Answering(g, ks, qs, ns)
  <2>1. /\ ns \in Seq(Nat) /\ Len(ns) <= Len(rs) /\ Len(ns) \in Nat
        /\ \A n \in 1..Len(ns) : IsAnswered(g, ks, ns, n, rs[n])
    BY DEF Dialogue, Answering
  <2>2. Len(ns) <= Len(qs) /\ \A n \in 1..Len(ns) : n \in 1..Len(rs)
    BY <1>0, <1>6, <1>7, <2>1
  <2> QED
    BY <1>11, <2>1, <2>2 DEF Answering
<1>13. ASSUME NEW V, NEW data, Serves(qs, ns, V, data)
       PROVE  Serves(rs, ns, V, data) /\ Reads(V, data, c)
  <2>1. Reads(V, data, e)
    BY <1>2, <1>8, <1>13 DEF Reads, Serves
  <2>2. \A n \in 1..Len(rs) : Means(V, data, n, rs[n])
    BY <1>11, <1>13 DEF Serves
  <2> QED
    BY <1>5, <1>13, <2>1, <2>2 DEF Serves
<1>14. Asking(p, qs)
  BY <1>6, <1>9, <1>10 DEF Asking
<1> QED
  BY <1>4, <1>7, <1>12, <1>13, <1>14 DEF Dialogue, Onward

-----------------------------------------------------------------------------
(* The program serves the requests.                                          *)
SeenIn(ks, result) ==
  IF result[1] # "TRAP" THEN result
  ELSE IF ks[result[2]].fnc = "ReturnErrno" THEN <<"ERRNO", ks[result[2]].aux>>
  ELSE <<"TRAP", ks[result[2]]>>

Values(g, ks, ns, data) ==
  [n \in 1..Len(ns) |-> [acc \in 0..Top |-> SeenIn(ks, Row(g, data, ns[n])[acc])]]

LEMMA OperandShown ==
  ASSUME NEW p, NEW ks, Named(p, ks), NEW r, r[1] = "RET", r[2] \in AskedReturns(p),
         IsTrap(r) => Has(ks, r[2][2])
  PROVE  SeenIn(ks, Operand(ks, r)) = Shown(r[2])
<1>1. CASE r[2][1] = "TRAP"
  <2> DEFINE entry == r[2][2]
             id == Registry!IdOf(ks, entry)
             seen == <<"TRAP", id>>
  <2>1. IsTrap(r) /\ r[2] = <<"TRAP", entry>>
    BY <1>1, ReturnKinds DEF IsTrap
  <2>2. Operand(ks, r) = seen /\ ks[id] = entry
    BY <2>1, IdFacts DEF Operand
  <2>3. seen[1] = "TRAP" /\ seen[2] = id
    OBVIOUS
  <2>4. Shown(r[2]) = IF entry.fnc = "ReturnErrno" THEN <<"ERRNO", entry.aux>> ELSE <<"TRAP", entry>>
    BY <1>1, <2>1 DEF Shown
  <2> HIDE DEF entry, id, seen
  <2> QED
    BY <2>2, <2>3, <2>4 DEF SeenIn
<1>2. CASE r[2][1] # "TRAP"
  BY <1>2 DEF Operand, IsTrap, SeenIn, Shown
<1> QED
  BY <1>1, <1>2

LEMMA ServesAll ==
  ASSUME NEW p, NEW g, NEW ks, NEW rs, NEW ns, Dialogue(p, g, ks, rs, ns), Len(ns) = Len(rs),
         NEW data \in Datas
  PROVE  Serves(rs, ns, Values(g, ks, ns, data), data)
<1> DEFINE V == Values(g, ks, ns, data)
           value == Results(g.program, data)
<1>0. /\ Len(ns) \in Nat /\ rs \in Seq(Asked(p)) /\ Memoised(g) /\ Named(p, ks)
      /\ \A n \in 1..Len(rs) : IsAnswered(g, ks, ns, n, rs[n]) /\ rs[n] \in Asked(p) /\ Targets(rs[n], n)
  BY DEF Dialogue, Asking, Answering
<1>1. \A n \in 1..Len(rs) : \A acc \in 0..Top : V[n][acc] = SeenIn(ks, value[ns[n]][acc])
  BY DEF Values, Row
<1>2. \A m, n \in 1..Len(ns) : ns[m] = ns[n] => V[m] = V[n]
  BY DEF Values
<1> HIDE DEF V, value
<1>3. ASSUME NEW n \in 1..Len(rs) PROVE Means(V, data, n, rs[n])
  <2> DEFINE r == rs[n]
             call == Call(ks, ns, r)
             a == Operand(ks, r)
             jt == NodeIn(ns, r[3])
             jf == NodeIn(ns, r[4])
  <2>1. call \in DOMAIN g.memos /\ g.memos[call] = ns[n] /\ (IsTrap(r) => Has(ks, r[2][2]))
    BY <1>0 DEF IsAnswered
  <2>2. r \in Asked(p) /\ Targets(r, n)
    BY <1>0
  <2>3. value[ns[n]] = Explained(call, data, value)
    <3>1. Answers(g, call, ns[n])
      BY <1>0, <2>1 DEF Memoised
    <3> QED
      BY <3>1 DEF Answers, Row, value
  <2>4. call[1] = r[1] /\ call[2] = a /\ call[3] = jt /\ call[4] = jf
    BY DEF Call
  <2>5. \A m \in 1..(n - 1) : m \in 1..Len(rs) /\ NodeIn(ns, m) = ns[m]
    BY <1>0 DEF NodeIn, kNullNode
  <2>6. /\ r[1] \in {"RET", "LD", "AND"} \union Branches
        /\ r[1] = "RET" => r[2] \in AskedReturns(p)
        /\ r[1] \notin {"RET"} \union Branches => <<r[1], r[2]>> \in AllSteps
        /\ r[1] \in Branches => <<r[1], r[2]>> \in AllTests
    BY <2>2, AskedKinds
  <2>7. r[1] # "RET" => a = r[2]
    BY DEF Operand, IsTrap
  <2>8. r[1] # "RET" => r[3] \in 1..(n - 1) /\ jt = ns[r[3]] /\ r[3] \in 1..Len(rs)
    BY <2>2, <2>5 DEF Targets
  <2>9. r[1] \in Branches => r[4] \in 1..(n - 1) /\ jf = ns[r[4]] /\ r[4] \in 1..Len(rs)
    BY <2>2, <2>5 DEF Targets
  <2>10. r[1] = "RET" => SeenIn(ks, a) = Shown(r[2])
    BY <1>0, <2>1, <2>6, OperandShown
  <2> HIDE DEF call, a, jt, jf, r
  <2>11. ASSUME NEW acc \in 0..Top
         PROVE  V[n][acc] = SeenIn(ks, Explained(call, data, value)[acc])
    BY <1>1, <2>3
  <2>12. MeansReturn(V, n, r)
    <3> SUFFICES ASSUME r[1] = "RET", NEW acc \in 0..Top PROVE V[n][acc] = Shown(r[2])
      BY DEF MeansReturn, Gives
    <3>1. Explained(call, data, value)[acc] = a
      BY <2>4, ExplainedAt
    <3> QED
      BY <2>10, <2>11, <3>1
  <2>13. MeansLoad(V, data, n, r)
    <3> SUFFICES ASSUME r[1] = "LD", NEW acc \in 0..Top PROVE V[n][acc] = V[r[3]][data[r[2]]]
      BY DEF MeansLoad, Gives
    <3>0. r[1] # "RET" /\ r[1] \notin {"RET"} \union Branches
      BY DEF Branches
    <3>1. Explained(call, data, value)[acc] = value[jt][data[a]]
      BY <2>4, ExplainedAt
    <3>2. data[r[2]] \in 0..Top
      <4>1. r[2] \in Fields
        BY <2>6, <3>0 DEF AllSteps
      <4> QED
        BY <4>1, AccFacts
    <3>3. V[r[3]][data[r[2]]] = SeenIn(ks, value[ns[r[3]]][data[r[2]]])
      BY <1>1, <2>8, <3>0, <3>2
    <3> QED
      BY <2>7, <2>8, <2>11, <3>0, <3>1, <3>3
  <2>14. MeansMask(V, n, r)
    <3> SUFFICES ASSUME r[1] = "AND", NEW acc \in 0..Top PROVE V[n][acc] = V[r[3]][Masked(acc,
                        r[2])]
      BY DEF MeansMask
    <3>0. r[1] # "RET"
      OBVIOUS
    <3>1. Explained(call, data, value)[acc] = value[jt][Masked(acc, a)]
      BY <2>4, ExplainedAt
    <3>2. Masked(acc, r[2]) \in 0..Top
      BY AccFacts
    <3>3. V[r[3]][Masked(acc, r[2])] = SeenIn(ks, value[ns[r[3]]][Masked(acc, r[2])])
      BY <1>1, <2>8, <3>0, <3>2
    <3> QED
      BY <2>7, <2>8, <2>11, <3>0, <3>1, <3>3
  <2>15. MeansBranch(V, n, r)
    <3> DEFINE to(acc) == IF Taken(r[1], r[2], acc) THEN r[3] ELSE r[4]
    <3> SUFFICES ASSUME r[1] \in Branches, NEW acc \in Word PROVE V[n][acc] = V[to(acc)][acc]
      BY DEF MeansBranch
    <3>0. r[1] # "RET" /\ acc \in 0..Top /\ acc # NoAccumulator
      BY AccFacts DEF Branches
    <3>1. Explained(call, data, value)[acc] = value[IF Taken(r[1], a, acc) THEN jt ELSE jf][acc]
      BY <2>4, <3>0, ExplainedAt
    <3>2. to(acc) \in 1..Len(rs) /\ ns[to(acc)] = IF Taken(r[1], a, acc) THEN jt ELSE jf
      BY <2>7, <2>8, <2>9, <3>0
    <3> HIDE DEF to
    <3>3. V[to(acc)][acc] = SeenIn(ks, value[ns[to(acc)]][acc])
      BY <1>1, <3>0, <3>2
    <3> QED
      BY <2>11, <3>0, <3>1, <3>2, <3>3
  <2> QED
    BY <2>12, <2>13, <2>14, <2>15 DEF Means, r
<1> QED
  BY <1>2, <1>3 DEF Serves, V

-----------------------------------------------------------------------------
(* The ranges found so far give every number below limit what it gets.       *)
Numbered(p, num) == IF IsValid(p.build, num) THEN p.result[num] ELSE p.invalid
Outcome(p, i) == [data \in Datas |-> Says(p, data["arg_lo"], data["arg_hi"])[i]]
OutcomeOf(p, num) == Outcome(p, Numbered(p, num))

Covered(p, rs, ns, all, limit) ==
  \A k \in 1..Len(all) : \A num \in Word :
    num < limit /\ IsLast(all, 1, Len(all), k, num) => Delivers(rs, ns, all[k].node, OutcomeOf(p, num))

Ranged(p, rs, ns, all, limit) ==
  /\ Ranges(all, Len(rs)) /\ Len(all) > 0 /\ all[1].from = 0
  /\ \A k \in 1..Len(all) : all[k].from <= limit
  /\ Covered(p, rs, ns, all, limit)

LEMMA RangedOnward ==
  ASSUME NEW p, NEW rs, NEW ns, NEW qs, NEW ms, Onward(rs, ns, qs, ms), Len(rs) \in Nat,
         Len(qs) \in Nat,
         NEW all, NEW limit, Ranged(p, rs, ns, all, limit)
  PROVE  Ranged(p, qs, ms, all, limit)
<1>1. Ranges(all, Len(qs))
  <2>1. Len(rs) <= Len(qs)
    BY DEF Onward
  <2>2. \A x \in 1..Len(rs) : x \in 1..Len(qs)
    BY <2>1
  <2> QED
    BY <2>2 DEF Ranged, Ranges
<1>2. Covered(p, qs, ms, all, limit)
  BY DeliversOnward DEF Ranged, Covered
<1> QED
  BY <1>1, <1>2 DEF Ranged

(* The numbers from one to the next are treated alike.                       *)
LEMMA TreatedAlike ==
  ASSUME NEW p, BuildOK(p.build), NEW num \in Word, NEW next, next = NextSyscall(p.build, num),
         NEW limit, limit = (IF next = 0 THEN Top ELSE next)
  PROVE  /\ limit \in Nat /\ num < limit
         /\ \A k \in Word : num <= k /\ k < limit => OutcomeOf(p, k) = OutcomeOf(p, num)
<1>1. NextRight(p.build, num, next)
  BY NextFacts
<1>2. Top \in Nat /\ Ones = Top - 1 /\ Word = 0..(Top - 1) /\ num \in Nat /\ num <= Top - 1
  BY WordFacts DEF Word
<1>3. CASE next = 0
  <2>1. num = Ones /\ limit = Top
    BY <1>1, <1>3 DEF NextRight
  <2>2. \A k \in Word : num <= k => k = num
    BY <1>2, <2>1
  <2> QED
    BY <1>2, <2>1, <2>2
<1>4. CASE next # 0
  <2>1. next \in Word /\ num < next /\ Skipping(p.build, num, next) /\ limit = next
    BY <1>1, <1>4 DEF NextRight
  <2>2. ASSUME NEW k \in Word, num <= k, k < limit PROVE OutcomeOf(p, k) = OutcomeOf(p, num)
    <3>1. CASE k = num
      BY <3>1
    <3>2. CASE k # num
      <4>1. num < k /\ k < next
        BY <1>2, <2>1, <2>2, <3>2
      <4>2. ~IsValid(p.build, k) /\ ~IsValid(p.build, num)
        BY <2>1, <4>1 DEF Skipping
      <4>3. Numbered(p, k) = Numbered(p, num)
        BY <4>2 DEF Numbered
      <4> QED
        BY <4>3 DEF OutcomeOf
    <3> QED
      BY <3>1, <3>2
  <2> QED
    BY <1>2, <2>1, <2>2
<1> QED
  BY <1>3, <1>4

(* One number more: the last range grows, or another one begins.             *)
LEMMA LastRange ==
  ASSUME NEW p, NEW rs, NEW ns, NEW all, NEW num \in Word, Ranged(p, rs, ns, all, num),
         NEW limit \in Nat, num < limit,
         \A k \in Word : num <= k /\ k < limit => OutcomeOf(p, k) = OutcomeOf(p, num),
         Delivers(rs, ns, all[Len(all)].node, OutcomeOf(p, num))
  PROVE  Ranged(p, rs, ns, all, limit)
<1> DEFINE n == Len(all)
<1>0. n \in Nat /\ n > 0 /\ n \in 1..n /\ num \in Nat
  BY WordFacts DEF Ranged, Ranges
<1>1. \A k \in 1..n : all[k].from \in Nat /\ all[k].from <= num /\ all[k].from <= limit
  <2>1. \A k \in 1..n : all[k].from \in Word /\ all[k].from <= num
    BY DEF Ranged, Ranges
  <2>2. \A k \in 1..n : all[k].from \in Nat
    BY <2>1, WordFacts
  <2> QED
    BY <1>0, <2>1, <2>2
<1> HIDE DEF n
<1>2. ASSUME NEW k \in 1..n, NEW number \in Word, number < limit, IsLast(all, 1, n, k, number)
      PROVE  Delivers(rs, ns, all[k].node, OutcomeOf(p, number))
  <2>0. number \in Nat
    BY WordFacts
  <2>1. CASE number < num
    BY <1>2, <2>1 DEF Ranged, Covered, n
  <2>2. CASE ~(number < num)
    <3>1. ~(number < all[n].from)
      BY <1>0, <1>1, <2>0, <2>2
    <3>2. k = n
      BY <1>0, <1>2, <3>1 DEF IsLast
    <3>3. OutcomeOf(p, number) = OutcomeOf(p, num)
      BY <1>0, <1>2, <2>0, <2>2
    <3> QED
      BY <3>2, <3>3 DEF n
  <2> QED
    BY <2>1, <2>2
<1>3. Covered(p, rs, ns, all, limit)
  BY <1>2 DEF Covered, n
<1> QED
  BY <1>1, <1>3 DEF Ranged, n

LEMMA NewRange ==
  ASSUME NEW p, NEW rs, NEW ns, NEW all, NEW num \in Word, Ranged(p, rs, ns, all, num),
         all \in Seq([from : Word, node : Nat]), NEW x \in 1..Len(rs), Len(rs) \in Nat,
         NEW limit \in Nat, num < limit,
         \A k \in Word : num <= k /\ k < limit => OutcomeOf(p, k) = OutcomeOf(p, num),
         Delivers(rs, ns, x, OutcomeOf(p, num)),
         NEW more, more = Append(all, [from |-> num, node |-> x])
  PROVE  Ranged(p, rs, ns, more, limit)
<1> DEFINE n == Len(all)
           r == [from |-> num, node |-> x]
<1>0. n \in Nat /\ n > 0 /\ n \in 1..n /\ num \in Nat
  BY WordFacts DEF Ranged, Ranges
<1>1. \A k \in 1..n : all[k].from \in Word /\ all[k].from \in Nat /\ all[k].from <= num /\ all[k].node \in 1..Len(rs)
  BY <1>0, WordFacts DEF Ranged, Ranges
<1>2. \A i, j \in 1..n : i <= j => all[i].from <= all[j].from
  BY DEF Ranged, Ranges
<1>3. Len(more) = n + 1 /\ more[n + 1] = r /\ \A k \in 1..n : more[k] = all[k]
  OBVIOUS
<1>4. r.from = num /\ r.node = x
  OBVIOUS
<1>5. all[1].from = 0 /\ Covered(p, rs, ns, all, num)
  BY DEF Ranged
<1> HIDE DEF r
<1>6. ASSUME NEW k \in 1..(n + 1), NEW number \in Word, number < limit, IsLast(more, 1, n + 1, k,
             number)
      PROVE  Delivers(rs, ns, more[k].node, OutcomeOf(p, number))
  <2>0. number \in Nat
    BY WordFacts
  <2>1. CASE number < num
    <3>1. k # n + 1
      BY <1>0, <1>3, <1>4, <1>6, <2>0, <2>1 DEF IsLast
    <3>2. k \in 1..n
      BY <1>0, <3>1
    <3>3. \A j \in 1..n : j \in 1..(n + 1) /\ more[j] = all[j]
      BY <1>0, <1>3
    <3> HIDE DEF n
    <3>4. IsLast(all, 1, n, k, number)
      BY <1>6, <3>2, <3>3 DEF IsLast
    <3>5. Delivers(rs, ns, all[k].node, OutcomeOf(p, number))
      BY <1>5, <2>1, <3>2, <3>4 DEF Covered, n
    <3> QED
      BY <3>2, <3>3, <3>5
  <2>2. CASE ~(number < num)
    <3>1. ~(number < more[n + 1].from) /\ n + 1 \in 1..(n + 1)
      BY <1>0, <1>3, <1>4, <2>0, <2>2
    <3>2. k = n + 1
      BY <1>0, <1>6, <3>1 DEF IsLast
    <3>3. OutcomeOf(p, number) = OutcomeOf(p, num)
      BY <1>0, <1>6, <2>0, <2>2
    <3> QED
      BY <1>3, <1>4, <3>2, <3>3
  <2> QED
    BY <2>1, <2>2
<1> HIDE DEF n
<1>7. Covered(p, rs, ns, more, limit)
  BY <1>3, <1>6 DEF Covered
<1>8. 1..(n + 1) = (1..n) \union {n + 1}
  BY <1>0
<1>9. Ranges(more, Len(rs))
  <2>1. \A k \in 1..(n + 1) : more[k].from \in Word /\ more[k].node \in 1..Len(rs)
    BY <1>1, <1>3, <1>4, <1>8
  <2>2. ASSUME NEW i \in 1..(n + 1), NEW j \in 1..(n + 1), i <= j PROVE more[i].from <= more[j].from
    <3>1. CASE j \in 1..n
      <4>1. i \in 1..n
        BY <1>0, <2>2, <3>1
      <4> QED
        BY <1>2, <1>3, <2>2, <3>1, <4>1
    <3>2. CASE j = n + 1
      <4>1. more[j].from = num
        BY <1>3, <1>4, <3>2
      <4>2. CASE i \in 1..n
        BY <1>1, <1>3, <4>1, <4>2
      <4>3. CASE i = n + 1
        <5>1. more[i].from = num /\ num <= num
          BY <1>0, <1>3, <1>4, <4>3
        <5> QED
          BY <4>1, <5>1
      <4> QED
        BY <1>8, <4>2, <4>3
    <3> QED
      BY <1>8, <3>1, <3>2
  <2> QED
    BY <1>0, <1>3, <2>1, <2>2 DEF Ranges
<1>10. \A k \in 1..(n + 1) : more[k].from <= limit
  <2>1. \A k \in 1..n : more[k].from <= limit
    BY <1>0, <1>1, <1>3
  <2>2. more[n + 1].from <= limit
    BY <1>0, <1>3, <1>4
  <2> QED
    BY <1>8, <2>1, <2>2
<1>11. Len(more) > 0 /\ more[1].from = 0
  BY <1>0, <1>3, <1>5
<1> QED
  BY <1>3, <1>7, <1>9, <1>10, <1>11 DEF Ranged

-----------------------------------------------------------------------------
-----------------------------------------------------------------------------
(* The first instructions.                                                   *)
NumberSays(p, data) ==
  IF p.build.intel /\ (data["nr"] \div (Half \div 2)) % 2 = 1 THEN Alarm
  ELSE OutcomeOf(p, data["nr"])[data]

NumberDone(p, rs, ns, c) ==
  \A V : \A data \in Datas :
    Serves(rs, ns, V, data) /\ Reads(V, data, c) => Gives(V, c.node, NumberSays(p, data))

LEMMA Dispatching ==
  ASSUME NEW p, IsPolicy(p), NEW rs, NEW ns, NEW found, Ranged(p, rs, ns, found, Top),
         Len(rs) \in Nat,
         NEW t, t = AssembleJumpTable(found)[Len(found)][<<Len(rs), 1>>],
         NEW c, c = Then(CheckSyscallNumber(t, p.build.intel), "LD", "nr")
  PROVE  Extends(p, Code(Len(rs)), c) /\ ~UnsafeIn(c) /\ NumberDone(p, rs, ns, c)
<1> DEFINE base == Len(rs)
           b == CheckSyscallNumber(t, p.build.intel)
<1>0. Whole(p, Code(base)) /\ ~UnsafeIn(Code(base)) /\ p.build.intel \in BOOLEAN
  BY CodeWhole, ObjectFacts DEF BuildOK
<1>1. Searching(p, found, t, base, 1, Len(found))
  <2> HIDE DEF base
  <2>1. base \in Nat /\ base >= base /\ Ranges(found, base) /\ Len(found) > 0
        /\ t = AssembleJumpTable(found)[Len(found)][<<base, 1>>]
    BY DEF Ranged, base
  <2> QED
    BY <2>1, TableFacts
<1>2. Extends(p, Code(base), t) /\ ~UnsafeIn(t) /\ Whole(p, t) /\ t.node \in 1..Count(t)
  BY <1>1 DEF Searching, Extends
<1>3. ASSUME NEW V, NEW data \in Datas, Serves(rs, ns, V, data), Reads(V, data, t), NEW num \in Word
      PROVE  V[t.node][num] = OutcomeOf(p, num)[data]
  <2>1. PICK k \in 1..Len(found) :
          IsLast(found, 1, Len(found), k, num) /\ V[t.node][num] = V[found[k].node][num]
    BY <1>1, <1>3 DEF Searching, TableFor
  <2>2. num < Top /\ num \in 0..Top
    <3>1. Top \in Nat /\ num \in 0..(Top - 1)
      BY WordFacts DEF Word
    <3> QED
      BY <3>1
  <2>3. Delivers(rs, ns, found[k].node, OutcomeOf(p, num))
    BY <2>1, <2>2 DEF Ranged, Covered
  <2>4. Gives(V, found[k].node, OutcomeOf(p, num)[data])
    BY <1>3, <2>3 DEF Delivers
  <2> QED
    BY <2>1, <2>2, <2>4 DEF Gives
<1>4. /\ Extends(p, t, b) \/ b = t
      /\ Extends(p, Code(base), b) /\ ~UnsafeIn(b)
      /\ \A V : \A data \in Datas : Serves(rs, ns, V, data) /\ Reads(V, data, b) =>
           \A num \in Word :
             V[b.node][num] = IF p.build.intel /\ (num \div (Half \div 2)) % 2 = 1 THEN Alarm
                              ELSE OutcomeOf(p, num)[data]
  <2>1. CASE ~p.build.intel
    <3>1. b = t
      BY <2>1 DEF CheckSyscallNumber
    <3> QED
      BY <1>2, <1>3, <2>1, <3>1
  <2>2. CASE p.build.intel
    <3> DEFINE q == Panic(t)
    <3>1. b = Emit(q, "JSET", Half \div 2, q.node, t.node)
      BY <2>2 DEF CheckSyscallNumber
    <3>2. /\ Extends(p, t, q) /\ Safely(t, q)
          /\ \A V, data : Reads(V, data, q) => Gives(V, q.node, Alarm)
      BY <1>2, Panicking
    <3> HIDE DEF q
    <3>3. Whole(p, q) /\ q.node \in 1..Count(q) /\ t.node \in 1..Count(q)
      BY <1>2, <3>2, Later
    <3>4. Half \div 2 \in Word /\ "JSET" \in Branches
      BY WordFacts DEF Branches
    <3> HIDE DEF b
    <3>5. /\ Extends(p, q, b) /\ Safely(q, b)
          /\ \A V, data : Reads(V, data, b) =>
               \A acc \in Word : V[b.node][acc] = V[IF Taken("JSET", Half \div 2, acc) THEN q.node ELSE t.node][acc]
      BY <3>1, <3>3, <3>4, Branching
    <3>6. Extends(p, t, b) /\ Safely(t, b)
      BY <1>2, <3>2, <3>5, Extending DEF Safely
    <3>7. Extends(p, Code(base), b) /\ ~UnsafeIn(b)
      BY <1>0, <1>2, <3>6, Extending DEF Safely
    <3>8. ASSUME NEW V, NEW data \in Datas, Serves(rs, ns, V, data), Reads(V, data, b),
                 NEW num \in Word
          PROVE  V[b.node][num] = IF (num \div (Half \div 2)) % 2 = 1 THEN Alarm
                                  ELSE OutcomeOf(p, num)[data]
      <4>1. Reads(V, data, q) /\ Reads(V, data, t)
        BY <3>5, <3>6, <3>8 DEF Extends
      <4>2. V[q.node][num] = Alarm
        BY <3>2, <4>1, GivesWord
      <4>3. V[t.node][num] = OutcomeOf(p, num)[data]
        BY <1>3, <3>8, <4>1
      <4>4. Taken("JSET", Half \div 2, num) <=> (num \div (Half \div 2)) % 2 = 1
        <5>1. Taken("JSET", Half \div 2, num) <=> BitAnd(num, Half \div 2) # 0
          BY DEF Taken
        <5> QED
          BY <5>1, QuarterBit
      <4> QED
        BY <3>5, <3>8, <4>2, <4>3, <4>4
    <3> QED
      BY <2>2, <3>6, <3>7, <3>8
  <2> QED
    BY <1>0, <2>1, <2>2
<1> HIDE DEF b
<1>5. Whole(p, b) /\ b.node \in 1..Count(b) /\ "nr" \in Fields /\ c = Then(b, "LD", "nr")
  BY <1>4 DEF Extends, Fields, b
<1>6. /\ Extends(p, b, c) /\ Safely(b, c)
      /\ \A V, data : Reads(V, data, c) => Gives(V, c.node, V[b.node][data["nr"]])
  BY <1>5, Loading
<1>7. Extends(p, Code(base), c) /\ ~UnsafeIn(c)
  BY <1>0, <1>4, <1>6, Extending DEF Safely
<1>8. NumberDone(p, rs, ns, c)
  <2> SUFFICES ASSUME NEW V, NEW data \in Datas, Serves(rs, ns, V, data), Reads(V, data, c)
               PROVE  Gives(V, c.node, NumberSays(p, data))
    BY DEF NumberDone
  <2>1. data["nr"] \in Word /\ Reads(V, data, b)
    BY <1>6 DEF Datas, Fields, Extends
  <2>2. V[b.node][data["nr"]] = NumberSays(p, data)
    BY <1>4, <2>1 DEF NumberSays
  <2> QED
    BY <1>6, <2>2
<1> QED
  BY <1>7, <1>8

(* A test in front of a node: where it fails it goes on to rest.             *)
Gated(b, c, field, k, rest) ==
  \A V : \A data \in Datas : Reads(V, data, c) =>
    \A T, E : Gives(V, b.node, T) /\ Gives(V, rest, E) =>
      Gives(V, c.node, IF data[field] = k THEN T ELSE E)

LEMMA Gating ==
  ASSUME NEW p, NEW b, Whole(p, b), b.node \in 1..Count(b), NEW field \in Fields, NEW k \in Word,
         NEW rest \in 1..Count(b), NEW c, c = Then(OnTrue(b, "JEQ", k, rest), "LD", field)
  PROVE  Extends(p, b, c) /\ Safely(b, c) /\ Gated(b, c, field, k, rest)
<1> DEFINE d == Emit(b, "JEQ", k, b.node, rest)
<1>1. c = Then(d, "LD", field) /\ "JEQ" \in Branches
  BY DEF OnTrue, Branches
<1>2. /\ Extends(p, b, d) /\ Safely(b, d)
      /\ \A V, data : Reads(V, data, d) =>
           \A acc \in Word : V[d.node][acc] = V[IF Taken("JEQ", k, acc) THEN b.node ELSE rest][acc]
  BY <1>1, Branching
<1> HIDE DEF d
<1>3. Whole(p, d) /\ d.node \in 1..Count(d)
  BY <1>2 DEF Extends
<1>4. /\ Extends(p, d, c) /\ Safely(d, c)
      /\ \A V, data : Reads(V, data, c) => Gives(V, c.node, V[d.node][data[field]])
  BY <1>1, <1>3, Loading
<1>5. Extends(p, b, c) /\ Safely(b, c)
  BY <1>2, <1>4, Extending DEF Safely
<1>6. ASSUME NEW V, NEW data \in Datas, Reads(V, data, c), NEW T, NEW E, Gives(V, b.node, T),
             Gives(V, rest, E)
      PROVE  Gives(V, c.node, IF data[field] = k THEN T ELSE E)
  <2>1. Reads(V, data, d) /\ data[field] \in Word
    BY <1>4, <1>6 DEF Extends, Datas
  <2>2. V[b.node][data[field]] = T /\ V[rest][data[field]] = E
    BY <1>6, <2>1, GivesWord
  <2>3. Taken("JEQ", k, data[field]) <=> data[field] = k
    BY DEF Taken
  <2>4. V[d.node][data[field]] = IF data[field] = k THEN T ELSE E
    BY <1>2, <2>1, <2>2, <2>3
  <2>5. Gives(V, c.node, V[d.node][data[field]])
    BY <1>4, <1>6
  <2> QED
    BY <2>4, <2>5
<1> QED
  BY <1>5, <1>6 DEF Gated

(* The escape hatch.                                                         *)
Escapes(data) == data["ip_hi"] = escapepc.ip_hi /\ data["ip_lo"] = escapepc.ip_lo

HatchDone(c, rest) ==
  \A V : \A data \in Datas : Reads(V, data, c) =>
    \A E : Gives(V, rest, E) => Gives(V, c.node, IF Escapes(data) THEN Allow.ret ELSE E)

LEMMA Hatching ==
  ASSUME NEW p, NEW base \in Nat, NEW rest \in 1..base, NEW c, c = Hatch(base, rest)
  PROVE  Extends(p, Code(base), c) /\ ~UnsafeIn(c) /\ HatchDone(c, rest)
<1> DEFINE a == EmitReturn(Code(base), Allow.ret, TRUE)
           b == Then(OnTrue(a, "JEQ", 1, rest), "LD", "ip_hi")
<1>0. /\ Whole(p, Code(base)) /\ ~UnsafeIn(Code(base)) /\ Count(Code(base)) = base
      /\ escapepc.ip_hi = 1 /\ escapepc.ip_lo = 2 /\ 1 \in Word /\ 2 \in Word
      /\ "ip_hi" \in Fields /\ "ip_lo" \in Fields
  BY CodeWhole, WordFacts DEF escapepc, Fields
<1>1. c = Then(OnTrue(b, "JEQ", 2, rest), "LD", "ip_lo")
  BY <1>0 DEF Hatch
<1>2. Allow.ret \in Plain
  BY DEF Allow, Return, Plain, Actions
<1>3. /\ Extends(p, Code(base), a) /\ Safely(Code(base), a)
      /\ \A V, data : Reads(V, data, a) => Gives(V, a.node, Allow.ret)
  BY <1>0, <1>2, Reporting
<1> HIDE DEF a
<1>4. Whole(p, a) /\ a.node \in 1..Count(a) /\ rest \in 1..Count(a)
  BY <1>0, <1>3, Later
<1>5. Extends(p, a, b) /\ Safely(a, b) /\ Gated(a, b, "ip_hi", 1, rest)
  BY <1>0, <1>4, Gating
<1> HIDE DEF b
<1>6. Whole(p, b) /\ b.node \in 1..Count(b) /\ rest \in 1..Count(b)
  BY <1>4, <1>5, Later
<1>7. Extends(p, b, c) /\ Safely(b, c) /\ Gated(b, c, "ip_lo", 2, rest)
  BY <1>0, <1>1, <1>6, Gating
<1>8. Extends(p, a, c) /\ Safely(a, c)
  BY <1>4, <1>5, <1>7, Extending DEF Safely
<1>9. Extends(p, Code(base), c) /\ ~UnsafeIn(c)
  BY <1>0, <1>3, <1>8, Extending DEF Safely
<1>10. ASSUME NEW V, NEW data \in Datas, Reads(V, data, c), NEW E, Gives(V, rest, E)
       PROVE  Gives(V, c.node, IF Escapes(data) THEN Allow.ret ELSE E)
  <2> DEFINE T == Allow.ret
             U == IF data["ip_hi"] = 1 THEN T ELSE E
  <2>1. Reads(V, data, b) /\ Reads(V, data, a)
    BY <1>7, <1>8, <1>10 DEF Extends
  <2>2. Gives(V, a.node, T)
    BY <1>3, <2>1
  <2> HIDE DEF T
  <2>3. Gives(V, b.node, U)
    BY <1>5, <1>10, <2>1, <2>2 DEF Gated
  <2> HIDE DEF U
  <2>4. Gives(V, c.node, IF data["ip_lo"] = 2 THEN U ELSE E)
    BY <1>7, <1>10, <2>3 DEF Gated
  <2>5. (IF data["ip_lo"] = 2 THEN U ELSE E) = IF Escapes(data) THEN T ELSE E
    BY <1>0 DEF U, Escapes
  <2> QED
    BY <2>4, <2>5 DEF T
<1> QED
  BY <1>9, <1>10 DEF HatchDone

(* The architecture.                                                         *)
ArchDone(c, passed) ==
  \A V : \A data \in Datas : Reads(V, data, c) =>
    \A T : Gives(V, passed, T) => Gives(V, c.node, IF data["arch"] = SECCOMP_ARCH THEN T ELSE Alarm)

LEMMA ArchChecking ==
  ASSUME NEW p, NEW base \in Nat, NEW passed \in 1..base, NEW c, c = ArchCheck(base, passed)
  PROVE  Extends(p, Code(base), c) /\ ~UnsafeIn(c) /\ ArchDone(c, passed)
<1> DEFINE q == Panic(Code(base))
           d == Emit(q, "JEQ", SECCOMP_ARCH, passed, q.node)
<1>0. /\ Whole(p, Code(base)) /\ ~UnsafeIn(Code(base)) /\ Count(Code(base)) = base
      /\ SECCOMP_ARCH \in Word /\ "arch" \in Fields /\ "JEQ" \in Branches
  BY CodeWhole, WordFacts DEF SECCOMP_ARCH, Fields, Branches
<1>1. c = Then(d, "LD", "arch")
  BY DEF ArchCheck
<1>2. /\ Extends(p, Code(base), q) /\ Safely(Code(base), q)
      /\ \A V, data : Reads(V, data, q) => Gives(V, q.node, Alarm)
  BY <1>0, Panicking
<1> HIDE DEF q
<1>3. Whole(p, q) /\ q.node \in 1..Count(q) /\ passed \in 1..Count(q)
  BY <1>0, <1>2, Later
<1>4. /\ Extends(p, q, d) /\ Safely(q, d)
      /\ \A V, data : Reads(V, data, d) =>
           \A acc \in Word : V[d.node][acc] = V[IF Taken("JEQ", SECCOMP_ARCH, acc) THEN passed ELSE q.node][acc]
  BY <1>0, <1>3, Branching
<1> HIDE DEF d
<1>5. Whole(p, d) /\ d.node \in 1..Count(d)
  BY <1>4 DEF Extends
<1>6. /\ Extends(p, d, c) /\ Safely(d, c)
      /\ \A V, data : Reads(V, data, c) => Gives(V, c.node, V[d.node][data["arch"]])
  BY <1>0, <1>1, <1>5, Loading
<1>7. Extends(p, q, c) /\ Safely(q, c)
  BY <1>3, <1>4, <1>6, Extending DEF Safely
<1>8. Extends(p, Code(base), c) /\ ~UnsafeIn(c)
  BY <1>0, <1>2, <1>7, Extending DEF Safely
<1>9. ASSUME NEW V, NEW data \in Datas, Reads(V, data, c), NEW T, Gives(V, passed, T)
      PROVE  Gives(V, c.node, IF data["arch"] = SECCOMP_ARCH THEN T ELSE Alarm)
  <2>1. Reads(V, data, d) /\ Reads(V, data, q) /\ data["arch"] \in Word
    BY <1>0, <1>6, <1>7, <1>9 DEF Extends, Datas
  <2>2. Gives(V, q.node, Alarm)
    BY <1>2, <2>1
  <2>3. V[passed][data["arch"]] = T /\ V[q.node][data["arch"]] = Alarm
    BY <1>9, <2>1, <2>2, GivesWord
  <2>4. Taken("JEQ", SECCOMP_ARCH, data["arch"]) <=> data["arch"] = SECCOMP_ARCH
    BY DEF Taken
  <2>5. V[d.node][data["arch"]] = IF data["arch"] = SECCOMP_ARCH THEN T ELSE Alarm
    BY <1>4, <2>1, <2>3, <2>4
  <2>6. Gives(V, c.node, V[d.node][data["arch"]])
    BY <1>6, <1>9
  <2> QED
    BY <2>5, <2>6
<1> QED
  BY <1>8, <1>9 DEF ArchDone

-----------------------------------------------------------------------------
(* The invariant of the compiler.                                            *)
HatchSays(p, data) ==
  IF HasUnsafeTraps(p) /\ Escapes(data) THEN Allow.ret ELSE NumberSays(p, data)
ArchSays(p, data) == IF data["arch"] = SECCOMP_ARCH THEN HatchSays(p, data) ELSE Alarm

NumberResult(p) == [data \in Datas |-> NumberSays(p, data)]
HatchResult(p) == [data \in Datas |-> HatchSays(p, data)]
ArchResult(p) == [data \in Datas |-> ArchSays(p, data)]

(* The ranges with the one that is still open.                               *)
AllRanges == Append(ranges, [from |-> old_sysnum, node |-> old_node])

(* Fresh: nothing is asked for before the checks.  Accepted: nothing is      *)
(* compiled but what passed them.  Ranging, Numbering: the numbers below     *)
(* sysnum, and sysnum.  Searched: all numbers.  Headed: head starts a        *)
(* filter that lacks the checks still to come.                               *)
Fresh ==
  /\ stage \in {"compile", "died"} => keys = <<>> /\ requests = <<>>
  /\ stage = "compile" => ranges = <<>> /\ sysnum = 0 /\ old_sysnum = 0
Accepted ==
  stage \notin {"compile", "died"} => Acceptable /\ (HasUnsafeTraps(policy) => unsafe_enabled)
Ranging ==
  stage \in {"ranges", "compare"} =>
    /\ sysnum \in Word /\ old_sysnum \in Word /\ old_node \in Nat
    /\ ranges \in Seq([from : Word, node : Nat])
    /\ invalid_node \in 1..Len(requests)
    /\ Delivers(requests, nodes, invalid_node, Outcome(policy, policy.invalid))
    /\ Ranged(policy, requests, nodes, AllRanges, sysnum)
Numbering ==
  stage = "compare" =>
    new_node \in 1..Len(requests) /\ Delivers(requests, nodes, new_node, OutcomeOf(policy, sysnum))
Searched == stage = "table" => Ranged(policy, requests, nodes, ranges, Top)
Headed ==
  /\ stage \in {"hatch", "arch", "done"} => head \in 1..Len(requests)
  /\ stage = "hatch" => Delivers(requests, nodes, head, NumberResult(policy))
  /\ stage = "arch" => Delivers(requests, nodes, head, HatchResult(policy))
  /\ stage = "done" => Delivers(requests, nodes, head, ArchResult(policy))

Told == policy \in Policies /\ Dialogue(policy, gen, keys, requests, nodes)
CompilerIInv == Told /\ Fresh /\ Accepted /\ Ranging /\ Numbering /\ Searched /\ Headed

LEMMA ToldFacts ==
  ASSUME Told
  PROVE  /\ IsPolicy(policy) /\ Len(requests) \in Nat /\ Len(nodes) \in Nat /\ nodes \in Seq(Nat)
         /\ Len(nodes) <= Len(requests) /\ requests \in Seq(Asked(policy))
         /\ ResultAt(policy, policy.invalid)
         /\ \A num \in Word : ResultAt(policy, Numbered(policy, num))
<1>1. IsPolicy(policy)
  BY PolicyAssumption DEF Told
<1>2. \A num \in Word : ResultAt(policy, Numbered(policy, num))
  BY <1>1 DEF IsPolicy, Numbered, ValidNumbers
<1> QED
  BY <1>1, <1>2 DEF Told, Dialogue, Asking, Answering, IsPolicy

LEMMA StartRight == CompilerInit => CompilerIInv
<1> SUFFICES ASSUME CompilerInit PROVE CompilerIInv
  OBVIOUS
<1>1. IsPolicy(policy) /\ policy \in Policies
  BY PolicyAssumption DEF CompilerInit
<1>2. Assembled(gen) /\ Memoised(gen)
  BY GenStart DEF CompilerInit, GenIInv
<1>3. Asking(policy, <<>>)
  BY DEF Asking
<1>4. Named(policy, <<>>)
  BY DEF Named
<1>5. Answering(gen, <<>>, <<>>, <<>>)
  BY DEF Answering
<1>6. Told
  BY <1>1, <1>2, <1>3, <1>4, <1>5 DEF Told, Dialogue, CompilerInit
<1> QED
  BY <1>6 DEF CompilerInit, CompilerIInv, Fresh, Accepted, Ranging, Numbering, Searched, Headed

(* Steps that only add to the requests or to the answers.                    *)
LEMMA StaysTrue ==
  ASSUME CompilerIInv, Onward(requests, nodes, requests', nodes'), policy' = policy,
         Len(requests) \in Nat, Len(requests') \in Nat
  PROVE  /\ \A x \in 1..Len(requests) : x \in 1..Len(requests')
         /\ \A x, says : Delivers(requests, nodes, x, says) => Delivers(requests', nodes', x, says)
         /\ \A all, limit : Ranged(policy, requests, nodes, all, limit) =>
              Ranged(policy', requests', nodes', all, limit)
<1>1. \A x \in 1..Len(requests) : x \in 1..Len(requests')
  BY DEF Onward
<1>2. \A x, says : Delivers(requests, nodes, x, says) => Delivers(requests', nodes', x, says)
  BY DeliversOnward
<1>3. ASSUME NEW all, NEW limit, Ranged(policy, requests, nodes, all, limit)
      PROVE  Ranged(policy', requests', nodes', all, limit)
  <2>1. Ranged(policy, requests', nodes', all, limit)
    BY <1>3, RangedOnward
  <2> QED
    BY <2>1
<1> QED
  BY <1>1, <1>2, <1>3

LEMMA AnswerStep == ASSUME CompilerIInv, Answer PROVE CompilerIInv'
<1> DEFINE r == requests[Len(nodes) + 1]
           ks == IF IsTrap(r) THEN Registry!WithKey(keys, r[2][2]) ELSE keys
           made == MakeInstruction(gen, r[1], Operand(ks, r), NodeIn(nodes, r[3]), NodeIn(nodes, r[4]))
<1>1. Told /\ Fresh /\ Accepted /\ Ranging /\ Numbering /\ Searched /\ Headed
  BY DEF CompilerIInv
<1>2. /\ Len(requests) \in Nat /\ Len(nodes) \in Nat /\ nodes \in Seq(Nat)
      /\ Dialogue(policy, gen, keys, requests, nodes)
  BY <1>1, ToldFacts DEF Told
<1>3. NodeOf(r[3]) = NodeIn(nodes, r[3]) /\ NodeOf(r[4]) = NodeIn(nodes, r[4])
  BY DEF NodeOf, NodeIn
<1>4. keys' = ks /\ gen' = made.gen /\ nodes' = Append(nodes, made.node)
      /\ Len(nodes) < Len(requests)
  BY <1>3 DEF Answer
<1>5. UNCHANGED <<policy, stage, unsafe_enabled, requests, rangeVars, head>>
  BY DEF Answer
<1> HIDE DEF ks, made, r
<1>6. Dialogue(policy, made.gen, ks, requests, nodes')
  BY <1>2, <1>4, AnswerMade DEF ks, made, r
<1>7. Dialogue(policy', gen', keys', requests', nodes')
  BY <1>4, <1>5, <1>6
<1>8. made.node \in Nat
  <2>1. nodes' \in Seq(Nat) /\ Len(nodes) + 1 \in 1..Len(nodes')
        /\ nodes'[Len(nodes) + 1] = made.node
    BY <1>2, <1>4, <1>6 DEF Dialogue, Answering
  <2> QED
    BY <2>1
<1>9. Onward(requests, nodes, requests', nodes') /\ Len(requests') \in Nat
  <2>1. Onward(requests, nodes, requests, nodes')
    BY <1>2, <1>4, <1>8, AnswerOnward
  <2> QED
    BY <1>2, <1>5, <2>1
<1>10. /\ \A x \in 1..Len(requests) : x \in 1..Len(requests')
       /\ \A x, says : Delivers(requests, nodes, x, says) => Delivers(requests', nodes', x, says)
       /\ \A all, limit : Ranged(policy, requests, nodes, all, limit) =>
            Ranged(policy', requests', nodes', all, limit)
  BY <1>2, <1>5, <1>9, StaysTrue
<1>11. Told'
  BY <1>1, <1>5, <1>7 DEF Told
<1>12. Fresh'
  <2>1. stage \notin {"compile", "died"}
    BY <1>1, <1>2, <1>4 DEF Fresh
  <2> QED
    BY <1>5, <2>1 DEF Fresh
<1>13. Accepted'
  BY <1>1, <1>5 DEF Accepted, Acceptable
<1>14. AllRanges' = AllRanges
  BY <1>5 DEF AllRanges, rangeVars
<1>15. Ranging' /\ Numbering' /\ Searched'
  BY <1>1, <1>5, <1>10, <1>14 DEF Ranging, Numbering, Searched, rangeVars
<1>16. Headed'
  BY <1>1, <1>5, <1>10 DEF Headed
<1> QED
  BY <1>11, <1>12, <1>13, <1>15, <1>16 DEF CompilerIInv

(* Asking for a plan.                                                        *)
LEMMA AskedPlan ==
  ASSUME Told, NEW c, Ask(c), policy' = policy, Extends(policy, Code(Len(requests)), c),
         UnsafeIn(c) => HasUnsafeTraps(policy)
  PROVE  /\ Told' /\ Onward(requests, nodes, requests', nodes') /\ c.node \in 1..Len(requests')
         /\ Len(requests) \in Nat /\ Len(requests') \in Nat /\ Len(requests') = Count(c)
         /\ \A V, data : Serves(requests', nodes', V, data) => Reads(V, data, c) /\ Serves(requests, nodes, V, data)
<1> DEFINE qs == requests \o c.requests
<1>1. requests' = qs /\ gen' = gen /\ keys' = keys /\ nodes' = nodes
  BY DEF Ask
<1>2. Dialogue(policy, gen, keys, requests, nodes) /\ Len(requests) \in Nat
  BY ToldFacts DEF Told
<1>3. /\ Dialogue(policy, gen, keys, qs, nodes) /\ Len(qs) = Count(c) /\ Onward(requests, nodes, qs, nodes)
      /\ c.node \in 1..Len(qs)
      /\ \A V, data : Serves(qs, nodes, V, data) => Reads(V, data, c)
  BY <1>2, MoreAsked
<1> HIDE DEF qs
<1>4. Told'
  BY <1>1, <1>3 DEF Told
<1>5. Len(requests') \in Nat
  BY <1>1, <1>3 DEF Dialogue, Asking
<1> QED
  BY <1>1, <1>2, <1>3, <1>4, <1>5 DEF Onward

(* The plan of a result of the policy.                                       *)
LEMMA PlanOfResult ==
  ASSUME NEW p, IsPolicy(p), NEW i, ResultAt(p, i), NEW base \in Nat, NEW c,
         c = CompileResult(p)[i][base],
         HasUnsafe(p)[i] => HasUnsafeTraps(p)
  PROVE  /\ Extends(p, Code(base), c) /\ (UnsafeIn(c) => HasUnsafeTraps(p))
         /\ Count(c) \in Nat /\ c.node \in 1..Count(c) /\ \A x \in 1..base : x \in 1..Count(c)
         /\ \A V : \A data \in Datas : Reads(V, data, c) => Gives(V, c.node, Outcome(p, i)[data])
<1>1. ResultRight(p, i)
  BY ResultFacts
<1>2. /\ Resulting(p, c, i, base) /\ Count(c) \in Nat /\ c.node \in 1..Count(c)
      /\ \A x \in 1..base : x \in 1..Count(c)
  BY <1>1, ResultUse
<1>3. ASSUME NEW V, NEW data \in Datas, Reads(V, data, c) PROVE Gives(V, c.node, Outcome(p,
             i)[data])
  <2>1. Outcome(p, i)[data] = Says(p, data["arg_lo"], data["arg_hi"])[i]
    BY DEF Outcome
  <2>2. Gives(V, c.node, Says(p, data["arg_lo"], data["arg_hi"])[i])
    BY <1>2, <1>3 DEF Resulting, ResultFor
  <2> QED
    BY <2>1, <2>2
<1> QED
  BY <1>2, <1>3 DEF Resulting

LEMMA UnsafeResults ==
  ASSUME NEW p
  PROVE  /\ HasUnsafe(p)[p.invalid] => HasUnsafeTraps(p)
         /\ \A num \in Word : HasUnsafe(p)[Numbered(p, num)] => HasUnsafeTraps(p)
  BY DEF HasUnsafeTraps, Numbered, ValidNumbers

-----------------------------------------------------------------------------
(* One lemma for each action of the compiler.                                *)
LEMMA OneRange ==
  ASSUME NEW p, NEW rs, NEW ns, NEW x \in 1..Len(rs), Len(rs) \in Nat,
         NEW all, all = <<[from |-> 0, node |-> x]>>
  PROVE  Ranged(p, rs, ns, all, 0)
<1>1. Len(all) = 1 /\ all[1].from = 0 /\ all[1].node = x
  OBVIOUS
<1>2. 0 \in Word /\ \A num \in Word : ~(num < 0)
  BY WordFacts
<1>3. Ranges(all, Len(rs))
  BY <1>1, <1>2 DEF Ranges
<1>4. Covered(p, rs, ns, all, 0)
  BY <1>2 DEF Covered
<1> QED
  BY <1>1, <1>3, <1>4 DEF Ranged

(* The plan StartCompile asks for, and what it has for invalid numbers.      *)
LEMMA StartPlan ==
  ASSUME NEW p, IsPolicy(p), NEW invalid, invalid = CompileResult(p)[p.invalid][0],
         NEW first, first = (IF IsValid(p.build, 0)
                             THEN Joined(invalid, CompileResult(p)[p.result[0]][Count(invalid)])
                             ELSE invalid)
  PROVE  /\ Extends(p, Code(0), first) /\ (UnsafeIn(first) => HasUnsafeTraps(p))
         /\ invalid.node \in 1..Count(first)
         /\ \A V : \A data \in Datas :
              Reads(V, data, first) => Gives(V, invalid.node, Outcome(p, p.invalid)[data])
<1>0. ResultAt(p, p.invalid) /\ 0 \in Word
  BY WordFacts DEF IsPolicy
<1>1. /\ Extends(p, Code(0), invalid) /\ (UnsafeIn(invalid) => HasUnsafeTraps(p))
      /\ Count(invalid) \in Nat /\ invalid.node \in 1..Count(invalid)
      /\ \A V : \A data \in Datas : Reads(V, data, invalid) => Gives(V, invalid.node, Outcome(p, p.invalid)[data])
  BY <1>0, PlanOfResult, UnsafeResults
<1>2. CASE ~IsValid(p.build, 0)
  BY <1>1, <1>2
<1>3. CASE IsValid(p.build, 0)
  <2> DEFINE i == p.result[0]
             base == Count(invalid)
             zero == CompileResult(p)[i][base]
  <2>1. ResultAt(p, i) /\ (HasUnsafe(p)[i] => HasUnsafeTraps(p))
    <3>1. Numbered(p, 0) = i /\ 0 \in ValidNumbers(p.build)
      BY <1>0, <1>3 DEF Numbered, ValidNumbers
    <3>2. HasUnsafe(p)[Numbered(p, 0)] => HasUnsafeTraps(p)
      BY <1>0, UnsafeResults
    <3> QED
      BY <3>1, <3>2 DEF IsPolicy
  <2>2. first = Joined(invalid, zero) /\ base \in Nat
    BY <1>1, <1>3
  <2>3. zero = CompileResult(p)[i][base]
    OBVIOUS
  <2> HIDE DEF zero, i
  <2>4. /\ Extends(p, Code(base), zero) /\ (UnsafeIn(zero) => HasUnsafeTraps(p))
        /\ Count(zero) \in Nat /\ \A x \in 1..base : x \in 1..Count(zero)
    <3> HIDE DEF base
    <3> QED
      BY <2>1, <2>2, <2>3, PlanOfResult
  <2>5. /\ Extends(p, Code(0), first) /\ Count(first) = Count(zero)
        /\ (UnsafeIn(first) => UnsafeIn(invalid) \/ UnsafeIn(zero))
        /\ \A V, data : Reads(V, data, first) => Reads(V, data, invalid)
    <3>1. 0 \in Nat
      OBVIOUS
    <3>2. Extends(p, Code(0), invalid)
      BY <1>1
    <3>3. Extends(p, Code(Count(invalid)), zero)
      BY <2>4
    <3>4. first = Joined(invalid, zero)
      BY <2>2
    <3> HIDE DEF base
    <3> QED
      BY <3>1, <3>2, <3>3, <3>4, OneAfterOther
  <2> QED
    BY <1>1, <2>4, <2>5
<1> QED
  BY <1>2, <1>3

LEMMA StartStep == ASSUME CompilerIInv, StartCompile PROVE CompilerIInv'
<1> DEFINE invalid == Result(policy.invalid, 0)
           first == IF IsValid(policy.build, 0)
                    THEN Joined(invalid, Result(policy.result[0], Count(invalid))) ELSE invalid
<1>1. /\ Told /\ Fresh /\ policy' = policy /\ stage = "compile"
  BY DEF CompilerIInv, StartCompile
<1>2. keys = <<>> /\ requests = <<>> /\ ranges = <<>> /\ sysnum = 0 /\ old_sysnum = 0
  BY <1>1 DEF Fresh
<1>3. CASE Stop
  <2>1. /\ stage' = "died" /\ keys' = keys /\ requests' = requests /\ gen' = gen /\ nodes' = nodes
    BY <1>3 DEF Stop
  <2>2. Told' /\ Fresh'
    BY <1>1, <1>2, <2>1 DEF Told, Fresh
  <2> QED
    BY <2>1, <2>2 DEF CompilerIInv, Accepted, Ranging, Numbering, Searched, Headed
<1>4. CASE /\ Acceptable
           /\ unsafe_enabled' = (unsafe_enabled \/ HasUnsafeTraps(policy))
           /\ Ask(first)
           /\ invalid_node' = invalid.node
           /\ old_node' = first.node
           /\ stage' = "ranges"
           /\ UNCHANGED <<ranges, sysnum, old_sysnum, new_node, head>>
  <2>1. IsPolicy(policy)
    BY <1>1, ToldFacts
  <2>2. /\ Extends(policy, Code(0), first) /\ (UnsafeIn(first) => HasUnsafeTraps(policy))
        /\ invalid.node \in 1..Count(first)
        /\ \A V : \A data \in Datas :
             Reads(V, data, first) => Gives(V, invalid.node, Outcome(policy, policy.invalid)[data])
    <3>1. invalid = CompileResult(policy)[policy.invalid][0]
      BY DEF Result
    <3>2. first = (IF IsValid(policy.build, 0)
                   THEN Joined(invalid, CompileResult(policy)[policy.result[0]][Count(invalid)])
                   ELSE invalid)
      BY DEF Result
    <3> HIDE DEF invalid, first
    <3> QED
      BY <2>1, <3>1, <3>2, StartPlan
  <2> HIDE DEF invalid, first
  <2>3. /\ Told' /\ first.node \in 1..Len(requests') /\ Len(requests') \in Nat
        /\ Len(requests') = Count(first)
        /\ \A V, data : Serves(requests', nodes', V, data) => Reads(V, data, first)
    <3>1. Len(requests) = 0
      BY <1>2
    <3>2. Extends(policy, Code(Len(requests)), first)
      BY <2>2, <3>1
    <3> QED
      BY <1>1, <1>4, <2>2, <3>2, AskedPlan
  <2>4. Fresh' /\ Numbering' /\ Searched' /\ Headed'
    BY <1>4 DEF Fresh, Numbering, Searched, Headed
  <2>5. Accepted'
    BY <1>1, <1>4 DEF Accepted, Acceptable
  <2>6. AllRanges' = <<[from |-> 0, node |-> first.node]>>
    BY <1>2, <1>4 DEF AllRanges
  <2>7. Ranged(policy, requests', nodes', AllRanges', 0)
    BY <2>3, <2>6, OneRange
  <2>8. Delivers(requests', nodes', invalid_node', Outcome(policy, policy.invalid))
    BY <1>4, <2>2, <2>3 DEF Delivers
  <2>9. Ranging'
    <3>1. sysnum' = 0 /\ old_sysnum' = 0 /\ ranges' = <<>> /\ old_node' = first.node
      BY <1>2, <1>4
    <3>2. 0 \in Word
      BY WordFacts
    <3>3. invalid_node' \in 1..Len(requests')
      BY <1>4, <2>2, <2>3
    <3>4. first.node \in Nat
      BY <2>3
    <3>5. ranges' \in Seq([from : Word, node : Nat])
      BY <3>1
    <3>6. Ranged(policy', requests', nodes', AllRanges', sysnum')
      BY <1>1, <2>7, <3>1
    <3>7. Delivers(requests', nodes', invalid_node', Outcome(policy', policy'.invalid))
      BY <1>1, <2>8
    <3> QED
      BY <3>1, <3>2, <3>3, <3>4, <3>5, <3>6, <3>7 DEF Ranging
  <2> QED
    BY <2>3, <2>4, <2>5, <2>9 DEF CompilerIInv
<1> QED
  BY <1>3, <1>4 DEF StartCompile

LEMMA NumberStep == ASSUME CompilerIInv, CompileNumber PROVE CompilerIInv'
<1> DEFINE i == Numbered(policy, sysnum)
           c == Result(i, Len(requests))
<1>1. /\ Told /\ Accepted /\ Ranging /\ stage = "ranges" /\ stage' = "compare"
      /\ policy' = policy /\ unsafe_enabled' = unsafe_enabled
      /\ ranges' = ranges /\ sysnum' = sysnum /\ invalid_node' = invalid_node
      /\ old_sysnum' = old_sysnum /\ old_node' = old_node
  BY DEF CompilerIInv, CompileNumber
<1>2. /\ sysnum \in Word /\ old_sysnum \in Word /\ old_node \in Nat
      /\ ranges \in Seq([from : Word, node : Nat])
      /\ invalid_node \in 1..Len(requests)
      /\ Delivers(requests, nodes, invalid_node, Outcome(policy, policy.invalid))
      /\ Ranged(policy, requests, nodes, AllRanges, sysnum)
  BY <1>1 DEF Ranging
<1>3. /\ IsPolicy(policy) /\ Len(requests) \in Nat /\ ResultAt(policy, i)
      /\ (HasUnsafe(policy)[i] => HasUnsafeTraps(policy))
  BY <1>1, <1>2, ToldFacts, UnsafeResults
<1>4. AllRanges' = AllRanges
  BY <1>1 DEF AllRanges
<1>5. Fresh' /\ Accepted' /\ Searched' /\ Headed'
  BY <1>1 DEF Fresh, Accepted, Acceptable, Searched, Headed
<1> SUFFICES /\ Told' /\ new_node' \in 1..Len(requests')
             /\ \A x \in 1..Len(requests) : x \in 1..Len(requests')
             /\ Delivers(requests', nodes', new_node', OutcomeOf(policy, sysnum))
             /\ Delivers(requests', nodes', invalid_node, Outcome(policy, policy.invalid))
             /\ Ranged(policy, requests', nodes', AllRanges, sysnum)
  BY <1>1, <1>2, <1>4, <1>5 DEF CompilerIInv, Ranging, Numbering
<1>6. CASE /\ IsValid(policy.build, sysnum)
           /\ LET d == Result(policy.result[sysnum], Len(requests)) IN Ask(d) /\ new_node' = d.node
  <2>1. i = policy.result[sysnum]
    BY <1>6 DEF Numbered
  <2>2. Ask(c) /\ new_node' = c.node /\ c = CompileResult(policy)[i][Len(requests)]
    BY <1>6, <2>1 DEF Result
  <2> HIDE DEF c
  <2>3. /\ Extends(policy, Code(Len(requests)), c) /\ (UnsafeIn(c) => HasUnsafeTraps(policy))
        /\ \A V : \A data \in Datas : Reads(V, data, c) => Gives(V, c.node, Outcome(policy, i)[data])
    <3> HIDE DEF i
    <3> QED
      BY <1>3, <2>2, PlanOfResult
  <2>4. /\ Told' /\ Onward(requests, nodes, requests', nodes') /\ c.node \in 1..Len(requests')
        /\ Len(requests) \in Nat /\ Len(requests') \in Nat
        /\ \A V, data : Serves(requests', nodes', V, data) => Reads(V, data, c)
    BY <1>1, <2>2, <2>3, AskedPlan
  <2>5. /\ \A x \in 1..Len(requests) : x \in 1..Len(requests')
        /\ \A x, says : Delivers(requests, nodes, x, says) => Delivers(requests', nodes', x, says)
        /\ \A all, limit : Ranged(policy, requests, nodes, all, limit) =>
             Ranged(policy', requests', nodes', all, limit)
    BY <1>1, <2>4, StaysTrue
  <2>6. Delivers(requests', nodes', c.node, OutcomeOf(policy, sysnum))
    <3>1. OutcomeOf(policy, sysnum) = Outcome(policy, i)
      BY DEF OutcomeOf
    <3>2. Delivers(requests', nodes', c.node, Outcome(policy, i))
      BY <2>3, <2>4 DEF Delivers
    <3> QED
      BY <3>1, <3>2
  <2> QED
    BY <1>1, <1>2, <2>2, <2>4, <2>5, <2>6
<1>7. CASE /\ ~IsValid(policy.build, sysnum)
           /\ new_node' = invalid_node /\ UNCHANGED <<gen, keys, requests, nodes>>
  <2>1. OutcomeOf(policy, sysnum) = Outcome(policy, policy.invalid)
    BY <1>7 DEF OutcomeOf, Numbered
  <2>2. Told'
    BY <1>1, <1>7 DEF Told
  <2> QED
    BY <1>2, <1>7, <2>1, <2>2
<1> QED
  BY <1>6, <1>7 DEF CompileNumber

(* Equal nodes do the same, so that the last range goes on.                  *)
LEMMA SameNode ==
  ASSUME NEW rs, NEW ns, NEW x \in 1..Len(ns), NEW y \in 1..Len(ns), ns[x] = ns[y],
         NEW says, Delivers(rs, ns, x, says)
  PROVE  Delivers(rs, ns, y, says)
<1> SUFFICES ASSUME NEW V, NEW data \in Datas, Serves(rs, ns, V, data)
             PROVE  Gives(V, y, says[data])
  BY DEF Delivers
<1>1. Gives(V, x, says[data])
  BY DEF Delivers
<1>2. V[x] = V[y]
  BY DEF Serves
<1> QED
  BY <1>1, <1>2 DEF Gives

(* One number and the next one: what all the ranges are then.                *)
LEMMA RangesAfter ==
  ASSUME NEW p, BuildOK(p.build), NEW rs, NEW ns, Len(rs) \in Nat, Len(ns) = Len(rs),
         NEW num \in Word, NEW next, next = NextSyscall(p.build, num),
         NEW before \in Seq([from : Word, node : Nat]), NEW from \in Word, NEW node \in Nat,
         NEW all, all = Append(before, [from |-> from, node |-> node]),
         Ranged(p, rs, ns, all, num),
         NEW x \in 1..Len(rs), Delivers(rs, ns, x, OutcomeOf(p, num)),
         NEW more, more = (IF ns[x] = ns[node] THEN all ELSE Append(all, [from |-> num,
         node |-> x]))
  PROVE  Ranged(p, rs, ns, more, IF next = 0 THEN Top ELSE next)
<1> DEFINE limit == IF next = 0 THEN Top ELSE next
<1>0. limit = IF next = 0 THEN Top ELSE next
  OBVIOUS
<1> HIDE DEF limit
<1>1. /\ limit \in Nat /\ num < limit
      /\ \A k \in Word : num <= k /\ k < limit => OutcomeOf(p, k) = OutcomeOf(p, num)
  BY <1>0, TreatedAlike
<1>2. /\ Len(before) \in Nat /\ Len(all) = Len(before) + 1 /\ all[Len(all)].node = node
      /\ all \in Seq([from : Word, node : Nat])
  OBVIOUS
<1>3. node \in 1..Len(rs)
  <2>1. Len(all) \in 1..Len(all)
    BY <1>2
  <2> QED
    BY <1>2, <2>1 DEF Ranged, Ranges
<1>4. CASE ns[x] = ns[node]
  <2>1. Delivers(rs, ns, node, OutcomeOf(p, num))
    BY <1>3, <1>4, SameNode
  <2>2. Delivers(rs, ns, all[Len(all)].node, OutcomeOf(p, num))
    BY <1>2, <2>1
  <2>3. Ranged(p, rs, ns, all, limit)
    BY <1>1, <2>2, LastRange
  <2> QED
    BY <1>0, <1>4, <2>3
<1>5. CASE ns[x] # ns[node]
  <2>1. more = Append(all, [from |-> num, node |-> x])
    BY <1>5
  <2>2. Ranged(p, rs, ns, more, limit)
    BY <1>1, <1>2, <2>1, NewRange
  <2> QED
    BY <1>0, <2>2
<1> QED
  BY <1>4, <1>5

LEMMA CompareStep == ASSUME CompilerIInv, CompareNodes PROVE CompilerIInv'
<1> DEFINE next == NextSyscall(policy.build, sysnum)
           same == nodes[new_node] = nodes[old_node]
           latest == [from |-> sysnum, node |-> new_node]
           old == [from |-> old_sysnum, node |-> old_node]
           more == IF same THEN AllRanges ELSE Append(AllRanges, latest)
           closed == IF same THEN ranges ELSE AllRanges
           last == IF same THEN old ELSE latest
<1>1. /\ Told /\ Accepted /\ Ranging /\ Numbering /\ stage = "compare" /\ Len(nodes) = Len(requests)
      /\ UNCHANGED <<gen, policy, keys, unsafe_enabled, requests, nodes, invalid_node, new_node, head>>
  BY DEF CompilerIInv, CompareNodes, Answered
<1>2. /\ sysnum \in Word /\ old_sysnum \in Word /\ old_node \in Nat
      /\ ranges \in Seq([from : Word, node : Nat])
      /\ invalid_node \in 1..Len(requests)
      /\ Delivers(requests, nodes, invalid_node, Outcome(policy, policy.invalid))
      /\ Ranged(policy, requests, nodes, AllRanges, sysnum)
      /\ new_node \in 1..Len(requests)
      /\ Delivers(requests, nodes, new_node, OutcomeOf(policy, sysnum))
  BY <1>1 DEF Ranging, Numbering
<1>3. Len(requests) \in Nat /\ BuildOK(policy.build)
  BY <1>1, ToldFacts DEF IsPolicy
<1>4. AllRanges = Append(ranges, old)
  BY DEF AllRanges
<1>5. Ranged(policy, requests, nodes, more, IF next = 0 THEN Top ELSE next)
  <2>1. more = (IF nodes[new_node] = nodes[old_node] THEN AllRanges
                ELSE Append(AllRanges, [from |-> sysnum, node |-> new_node]))
    OBVIOUS
  <2>2. AllRanges = Append(ranges, [from |-> old_sysnum, node |-> old_node])
    BY <1>4
  <2>3. next = NextSyscall(policy.build, sysnum)
    OBVIOUS
  <2>4. Len(nodes) = Len(requests)
    BY <1>1
  <2> HIDE DEF more, next
  <2> QED
    BY <1>2, <1>3, <2>1, <2>2, <2>3, <2>4, RangesAfter
<1>6. more = Append(closed, last)
  BY <1>4
<1>7. /\ sysnum' = next /\ stage' = (IF next = 0 THEN "table" ELSE "ranges")
      /\ ranges' = (IF next = 0 THEN Append(closed, last) ELSE closed)
      /\ [from |-> old_sysnum', node |-> old_node'] = last
      /\ old_sysnum' = last.from /\ old_node' = last.node
  BY <1>4 DEF CompareNodes
<1>8. Told'
  BY <1>1 DEF Told
<1>9. Fresh' /\ Numbering' /\ Headed'
  BY <1>7 DEF Fresh, Numbering, Headed
<1>10. Accepted'
  BY <1>1 DEF Accepted, Acceptable
<1>11. Searched'
  BY <1>1, <1>5, <1>6, <1>7 DEF Searched
<1>12. Ranging'
  <2>1. ASSUME next # 0 PROVE Ranging'
    <3>1. next \in Word
      BY <1>2, <1>3, <2>1, NextFacts DEF NextRight
    <3>2. last \in [from : Word, node : Nat]
      BY <1>2, <1>3
    <3>3. closed \in Seq([from : Word, node : Nat])
      <4>1. old \in [from : Word, node : Nat]
        BY <1>2
      <4>2. AllRanges \in Seq([from : Word, node : Nat])
        <5> HIDE DEF old
        <5> QED
          BY <1>2, <1>4, <4>1
      <4> QED
        BY <1>2, <4>2
    <3>4. AllRanges' = more
      BY <1>6, <1>7, <2>1 DEF AllRanges
    <3>5. Ranged(policy', requests', nodes', AllRanges', sysnum')
      BY <1>1, <1>5, <1>7, <2>1, <3>4
    <3>6. /\ sysnum' \in Word /\ old_sysnum' \in Word /\ old_node' \in Nat
          /\ ranges' \in Seq([from : Word, node : Nat])
      <4> HIDE DEF closed, last, next
      <4> QED
        BY <1>7, <2>1, <3>1, <3>2, <3>3
    <3> QED
      BY <1>1, <1>2, <3>5, <3>6 DEF Ranging
  <2>2. ASSUME next = 0 PROVE Ranging'
    BY <1>7, <2>2 DEF Ranging
  <2> QED
    BY <2>1, <2>2
<1> QED
  BY <1>8, <1>9, <1>10, <1>11, <1>12 DEF CompilerIInv

(* The steps that put a plan in front of what is there.                      *)
LEMMA FrontStep ==
  ASSUME CompilerIInv, NEW c, Ask(c), head' = c.node, policy' = policy,
         unsafe_enabled' = unsafe_enabled,
         stage \in {"table", "hatch", "arch"}, stage' \in {"hatch", "arch", "done"},
         Extends(policy, Code(Len(requests)), c), UnsafeIn(c) => HasUnsafeTraps(policy),
         \A V : \A data \in Datas :
           Serves(requests, nodes, V, data) /\ Reads(V, data, c) =>
             /\ stage' = "hatch" => Gives(V, c.node, NumberResult(policy)[data])
             /\ stage' = "arch" => Gives(V, c.node, HatchResult(policy)[data])
             /\ stage' = "done" => Gives(V, c.node, ArchResult(policy)[data])
  PROVE  CompilerIInv'
<1>1. Told /\ Accepted
  BY DEF CompilerIInv
<1>2. /\ Told' /\ c.node \in 1..Len(requests')
      /\ \A V, data : Serves(requests', nodes', V, data) => Reads(V, data, c) /\ Serves(requests, nodes, V, data)
  BY <1>1, AskedPlan
<1>3. /\ stage' = "hatch" => Delivers(requests', nodes', c.node, NumberResult(policy))
      /\ stage' = "arch" => Delivers(requests', nodes', c.node, HatchResult(policy))
      /\ stage' = "done" => Delivers(requests', nodes', c.node, ArchResult(policy))
  BY <1>2 DEF Delivers
<1>4. Headed'
  BY <1>2, <1>3 DEF Headed
<1>5. Accepted'
  BY <1>1 DEF Accepted, Acceptable
<1>6. Fresh' /\ Ranging' /\ Numbering' /\ Searched'
  BY DEF Fresh, Ranging, Numbering, Searched
<1> QED
  BY <1>2, <1>4, <1>5, <1>6 DEF CompilerIInv

LEMMA DispatchStep == ASSUME CompilerIInv, DispatchSyscall PROVE CompilerIInv'
<1> DEFINE t == Dispatch
           c == Then(CheckSyscallNumber(t, policy.build.intel), "LD", "nr")
<1>1. /\ Ask(c) /\ head' = c.node /\ policy' = policy /\ unsafe_enabled' = unsafe_enabled
      /\ stage = "table" /\ stage' = "hatch"
  BY DEF DispatchSyscall
<1>2. /\ IsPolicy(policy) /\ Len(requests) \in Nat /\ Ranged(policy, requests, nodes, ranges, Top)
  BY <1>1, ToldFacts DEF CompilerIInv, Searched
<1>3. t = AssembleJumpTable(ranges)[Len(ranges)][<<Len(requests), 1>>]
  BY DEF Dispatch
<1> HIDE DEF t
<1>4. c = Then(CheckSyscallNumber(t, policy.build.intel), "LD", "nr")
  OBVIOUS
<1> HIDE DEF c
<1>5. Extends(policy, Code(Len(requests)), c) /\ ~UnsafeIn(c)
      /\ NumberDone(policy, requests, nodes, c)
  BY <1>2, <1>3, <1>4, Dispatching
<1>6. ASSUME NEW V, NEW data \in Datas, Serves(requests, nodes, V, data), Reads(V, data, c)
      PROVE  Gives(V, c.node, NumberResult(policy)[data])
  <2>1. Gives(V, c.node, NumberSays(policy, data))
    BY <1>5, <1>6 DEF NumberDone
  <2> QED
    BY <2>1 DEF NumberResult
<1>7. stage' # "arch" /\ stage' # "done" /\ stage \in {"table", "hatch", "arch"}
      /\ stage' \in {"hatch", "arch", "done"}
  BY <1>1
<1> QED
  BY <1>1, <1>5, <1>6, <1>7, FrontStep

LEMMA HatchStep == ASSUME CompilerIInv, MaybeAddEscapeHatch PROVE CompilerIInv'
<1> DEFINE c == Hatch(Len(requests), head)
<1>1. /\ policy' = policy /\ unsafe_enabled' = unsafe_enabled /\ stage = "hatch" /\ stage' = "arch"
      /\ IF HasUnsafeTraps(policy) THEN Ask(c) /\ head' = c.node
         ELSE UNCHANGED <<gen, keys, requests, nodes, head>>
  BY DEF MaybeAddEscapeHatch
<1>2. /\ Told /\ Accepted /\ head \in 1..Len(requests) /\ Len(requests) \in Nat
      /\ Delivers(requests, nodes, head, NumberResult(policy))
  BY <1>1, ToldFacts DEF CompilerIInv, Headed
<1>3. c = Hatch(Len(requests), head)
  OBVIOUS
<1> HIDE DEF c
<1>4. CASE HasUnsafeTraps(policy)
  <2>1. Extends(policy, Code(Len(requests)), c) /\ ~UnsafeIn(c) /\ HatchDone(c, head)
    BY <1>2, <1>3, Hatching
  <2>2. ASSUME NEW V, NEW data \in Datas, Serves(requests, nodes, V, data), Reads(V, data, c)
        PROVE  Gives(V, c.node, HatchResult(policy)[data])
    <3>1. Gives(V, head, NumberSays(policy, data))
      BY <1>2, <2>2 DEF Delivers, NumberResult
    <3>2. Gives(V, c.node, IF Escapes(data) THEN Allow.ret ELSE NumberSays(policy, data))
      BY <2>1, <2>2, <3>1 DEF HatchDone
    <3> QED
      BY <1>4, <3>2 DEF HatchResult, HatchSays
  <2>3. stage' # "hatch" /\ stage' # "done" /\ stage \in {"table", "hatch", "arch"}
        /\ stage' \in {"hatch", "arch", "done"}
    BY <1>1
  <2> QED
    BY <1>1, <1>4, <2>1, <2>2, <2>3, FrontStep
<1>5. CASE ~HasUnsafeTraps(policy)
  <2>1. UNCHANGED <<gen, keys, requests, nodes, head>>
    BY <1>1, <1>5
  <2>2. HatchResult(policy) = NumberResult(policy)
    BY <1>5 DEF HatchResult, HatchSays, NumberResult
  <2>3. Headed'
    BY <1>1, <1>2, <2>1, <2>2 DEF Headed
  <2>4. Told' /\ Accepted'
    BY <1>1, <1>2, <2>1 DEF Told, Accepted, Acceptable
  <2>5. Fresh' /\ Ranging' /\ Numbering' /\ Searched'
    BY <1>1 DEF Fresh, Ranging, Numbering, Searched
  <2> QED
    BY <2>3, <2>4, <2>5 DEF CompilerIInv
<1> QED
  BY <1>4, <1>5

LEMMA ArchStep == ASSUME CompilerIInv, CheckArch PROVE CompilerIInv'
<1> DEFINE c == ArchCheck(Len(requests), head)
<1>1. /\ Ask(c) /\ head' = c.node /\ policy' = policy /\ unsafe_enabled' = unsafe_enabled
      /\ stage = "arch" /\ stage' = "done"
  BY DEF CheckArch
<1>2. /\ head \in 1..Len(requests) /\ Len(requests) \in Nat
      /\ Delivers(requests, nodes, head, HatchResult(policy))
  BY <1>1, ToldFacts DEF CompilerIInv, Headed
<1>3. c = ArchCheck(Len(requests), head)
  OBVIOUS
<1> HIDE DEF c
<1>4. Extends(policy, Code(Len(requests)), c) /\ ~UnsafeIn(c) /\ ArchDone(c, head)
  BY <1>2, <1>3, ArchChecking
<1>5. ASSUME NEW V, NEW data \in Datas, Serves(requests, nodes, V, data), Reads(V, data, c)
      PROVE  Gives(V, c.node, ArchResult(policy)[data])
  <2>1. Gives(V, head, HatchSays(policy, data))
    BY <1>2, <1>5 DEF Delivers, HatchResult
  <2>2. Gives(V, c.node, IF data["arch"] = SECCOMP_ARCH THEN HatchSays(policy, data) ELSE Alarm)
    BY <1>4, <1>5, <2>1 DEF ArchDone
  <2> QED
    BY <2>2 DEF ArchResult, ArchSays
<1>6. stage' # "hatch" /\ stage' # "arch" /\ stage \in {"table", "hatch", "arch"}
      /\ stage' \in {"hatch", "arch", "done"}
  BY <1>1
<1> QED
  BY <1>1, <1>4, <1>5, <1>6, FrontStep

LEMMA CompilerStep == ASSUME CompilerIInv, [CompilerNext]_compilerVars PROVE CompilerIInv'
<1>1. CASE Answer
  BY <1>1, AnswerStep
<1>2. CASE StartCompile
  BY <1>2, StartStep
<1>3. CASE CompileNumber
  BY <1>3, NumberStep
<1>4. CASE CompareNodes
  BY <1>4, CompareStep
<1>5. CASE DispatchSyscall
  BY <1>5, DispatchStep
<1>6. CASE MaybeAddEscapeHatch
  BY <1>6, HatchStep
<1>7. CASE CheckArch
  BY <1>7, ArchStep
<1>8. CASE UNCHANGED compilerVars
  BY <1>8 DEF compilerVars, rangeVars, CompilerIInv, Told, Fresh, Accepted, Acceptable, Ranging,
              AllRanges, Numbering, Searched, Headed
<1> QED
  BY <1>1, <1>2, <1>3, <1>4, <1>5, <1>6, <1>7, <1>8 DEF CompilerNext

-----------------------------------------------------------------------------
(* What the finished filter returns is what the policy promises.             *)
LEMMA PromisedIs ==
  ASSUME IsPolicy(policy), NEW data \in Data
  PROVE  Promised(data) = ArchSays(policy, data)
<1>1. data \in Datas
  BY DataFacts
<1>2. ResultOf(data.nr) = Numbered(policy, data["nr"])
  BY DEF ResultOf, Numbered
<1>3. OutcomeOf(policy, data["nr"])[data] = Says(policy, data.arg_lo, data.arg_hi)[ResultOf(data.nr)]
  BY <1>1, <1>2 DEF OutcomeOf, Outcome
<1> QED
  BY <1>3 DEF Promised, ArchSays, HatchSays, NumberSays, Escapes, Alarm

LEMMA FilterIs ==
  ASSUME CompilerIInv, Compiled
  PROVE  \A data \in Data : Seen(Filter(data)) = Promised(data)
<1> SUFFICES ASSUME NEW data \in Data PROVE Seen(Filter(data)) = Promised(data)
  OBVIOUS
<1> DEFINE V == Values(gen, keys, nodes, data)
           row == Row(gen, data, nodes[head])
<1>1. /\ Dialogue(policy, gen, keys, requests, nodes) /\ Len(nodes) = Len(requests)
      /\ head \in 1..Len(requests) /\ Delivers(requests, nodes, head, ArchResult(policy))
  BY DEF CompilerIInv, Told, Headed, Compiled, Answered
<1>2. IsPolicy(policy)
  BY <1>1 DEF Dialogue
<1>3. data \in Datas
  BY <1>2, DataFacts
<1>4. Serves(requests, nodes, V, data)
  BY <1>1, <1>3, ServesAll
<1>5. Gives(V, head, ArchResult(policy)[data])
  <2> HIDE DEF V
  <2> QED
    BY <1>1, <1>3, <1>4 DEF Delivers
<1>6. ArchResult(policy)[data] = ArchSays(policy, data)
  BY <1>3 DEF ArchResult
<1>7. NoAccumulator \in 0..Top
  BY WordFacts DEF NoAccumulator
<1>8. V[head][NoAccumulator] = SeenIn(keys, row[NoAccumulator])
  BY <1>1, <1>7 DEF Values
<1>9. Filter(data) = row[NoAccumulator]
  BY DEF Filter, EvaluateBPF, Row
<1>10. Seen(Filter(data)) = SeenIn(keys, Filter(data))
  BY DEF Seen, SeenIn
<1> HIDE DEF V, row
<1>11. V[head][NoAccumulator] = ArchSays(policy, data)
  BY <1>5, <1>6, <1>7 DEF Gives
<1> QED
  BY <1>2, <1>8, <1>9, <1>10, <1>11, PromisedIs

LEMMA PolicyKept == CompilerIInv => ProgramIsPolicy
  BY FilterIs DEF ProgramIsPolicy

(* Bit 30 of a number below it is zero.                                      *)
LEMMA NotTheOtherInterface ==
  ASSUME NEW num \in Nat, num < Half \div 2
  PROVE  (num \div (Half \div 2)) % 2 = 0
<1> DEFINE h == Half \div 2
<1>1. h \in Nat /\ h > 0
  BY WordFacts
<1> HIDE DEF h
<1>2. num \div h = 0
  BY <1>1 DEF h
<1> QED
  BY <1>2 DEF h

LEMMA RequiredAllowed ==
  ASSUME IsPolicy(policy), Acceptable, HasUnsafeTraps(policy),
         NEW data \in Data, data.nr \in policy.build.required, data.arch = SECCOMP_ARCH
  PROVE  Promised(data) = Allow.ret
<1> DEFINE num == data.nr
           i == policy.result[num]
<1>1. num \in ValidNumbers(policy.build) /\ num \in Word
  BY DEF IsPolicy, BuildOK, ValidNumbers
<1>2. ResultOf(num) = i /\ ResultAt(policy, i)
  BY <1>1 DEF ResultOf, ValidNumbers, IsPolicy
<1>3. policy.objects[i] = Allow
  BY DEF Acceptable, IsAllow
<1>4. Says(policy, data.arg_lo, data.arg_hi)[i] = Allow.ret
  <2> DEFINE lo == data.arg_lo
             hi == data.arg_hi
  <2> SUFFICES Says(policy, lo, hi)[i] = Allow.ret
    OBVIOUS
  <2> HIDE DEF lo, hi, i
  <2>1. SaysSo(policy, lo, hi, i)
    BY <1>2, SaysFacts
  <2>2. policy.objects[i].kind = "return" /\ policy.objects[i].ret = Allow.ret
    BY <1>3 DEF Allow, Return, i
  <2> QED
    BY <2>1, <2>2 DEF SaysSo
<1>5. ~(policy.build.intel /\ (num \div (Half \div 2)) % 2 = 1)
  <2>1. CASE policy.build.intel
    <3>1. num < Half \div 2 /\ num \in Nat
      BY <1>1, <2>1, WordFacts DEF IsPolicy, BuildOK
    <3>2. (num \div (Half \div 2)) % 2 = 0
      BY <3>1, NotTheOtherInterface
    <3> QED
      BY <3>2
  <2> QED
    BY <2>1
<1> QED
  BY <1>2, <1>4, <1>5 DEF Promised

(* Only what is let through looks so.                                        *)
LEMMA SeenAllowed ==
  ASSUME NEW result, Seen(result) = Allow.ret
  PROVE  result = Allow.ret
<1>1. Allow.ret = <<"ALLOW", 0>>
  BY DEF Allow, Return
<1>2. CASE result[1] # "TRAP"
  BY <1>2 DEF Seen
<1>3. CASE result[1] = "TRAP"
  <2>1. Seen(result)[1] \in {"ERRNO", "TRAP"}
    BY <1>3 DEF Seen
  <2> QED
    BY <1>1, <2>1
<1> QED
  BY <1>2, <1>3

LEMMA TrapsAllowed == CompilerIInv => UnsafeTrapsAllowed
<1> SUFFICES ASSUME CompilerIInv, NEW id \in DOMAIN keys, ~keys[id].safe
             PROVE  /\ policy.debugging /\ unsafe_enabled
                    /\ Compiled => \A data \in Data :
                         data.nr \in policy.build.required /\ data.arch = SECCOMP_ARCH =>
                           Filter(data) = Allow.ret
  BY DEF UnsafeTrapsAllowed
<1>1. IsPolicy(policy) /\ Named(policy, keys) /\ Fresh /\ Accepted
  BY DEF CompilerIInv, Told, Dialogue
<1>2. HasUnsafeTraps(policy)
  BY <1>1 DEF Named
<1>3. keys # <<>>
  OBVIOUS
<1>4. stage \notin {"compile", "died"}
  BY <1>1, <1>3 DEF Fresh
<1>5. Acceptable /\ unsafe_enabled
  BY <1>1, <1>2, <1>4 DEF Accepted
<1>6. policy.debugging
  BY <1>2, <1>5 DEF Acceptable
<1>7. ASSUME Compiled, NEW data \in Data, data.nr \in policy.build.required,
             data.arch = SECCOMP_ARCH
      PROVE  Filter(data) = Allow.ret
  <2>1. Seen(Filter(data)) = Promised(data)
    BY <1>7, FilterIs
  <2>2. Promised(data) = Allow.ret
    BY <1>1, <1>2, <1>5, <1>7, RequiredAllowed
  <2> DEFINE result == Filter(data)
  <2>3. Seen(result) = Allow.ret
    BY <2>1, <2>2
  <2> HIDE DEF result
  <2>4. result = Allow.ret
    BY <2>3, SeenAllowed
  <2> QED
    BY <2>4 DEF result
<1> QED
  BY <1>5, <1>6, <1>7

(* The filter gives every system call, of any number and any argument, what  *)
(* the policy says of it, and there are unsafe traps only where the policy   *)
(* was debugged and the registry agreed (ProgramIsPolicy,                    *)
(* UnsafeTrapsAllowed; policy_compiler.cc:107, 239, syscall_set.cc:94).      *)
THEOREM CompilerRight == CompilerSpec => []CompilerInv
<1>1. CompilerIInv => CompilerInv
  BY PolicyKept, TrapsAllowed DEF CompilerInv
<1> QED
  BY StartRight, CompilerStep, <1>1, PTL DEF CompilerSpec
================================================================================
