------------------------ MODULE CrossCallParams_proofs ------------------------
(***************************************************************************)
(* Proofs about CrossCallParams for a channel, an address, a word and a    *)
(* number of parameters of any size, and for any number of words written   *)
(* by another thread of the target.  Before the copy nothing is known but  *)
(* that the declared size is not below the ParamInfos, as far as their     *)
(* size did not wrap (SizesBounded); the recheck binds the count to the    *)
(* declared size (Checked), and so the loop to the end of the copy.        *)
(* Of a message that nobody disturbs the invariant follows the layout:     *)
(* parameter by parameter while the caller packs it (Fields, Apart,        *)
(* Filled), then word by word into the copy, and back (CallInv).           *)
(***************************************************************************)
EXTENDS CrossCallParams, TLAPS

ChannelOfWords == channel \in [Cells -> Word]

SizesBounded ==
  /\ pc \in {"idle", "pack", "count", "size", "range"} => copied = 0 /\ copy = Nothing
  /\ pc = "copy" => /\ SizeWithinRange(MinDeclaredSize(param_count), declared_size)
                    /\ copied < declared_size /\ DOMAIN copy = 0..(copied - 1)
  /\ pc = "recheck" => /\ SizeWithinRange(MinDeclaredSize(param_count), declared_size)
                       /\ DOMAIN copy = 0..(declared_size - 1)

Checked ==
  /\ DOMAIN copy = 0..(declared_size - 1)
  /\ copy[Count] = param_count /\ param_count \in 1..MaxParams
  /\ Info(param_count + 1) <= declared_size /\ declared_size <= ChannelSize

Placed ==
  \A i \in 0..(param_count - 1) :
    /\ Info(param_count + 1) <= OffsetOf(copy, i)
    /\ OffsetOf(copy, i) + SizeOf(copy, i) <= declared_size

Inv ==
  /\ TypeOK /\ SizesBounded
  /\ pc \in {"verify", "args", "handle", "release"} => Checked
  /\ pc \in {"args", "handle", "release"} => Placed
  /\ pc \notin {"handle", "release"} => args = {}
  /\ pc \in {"handle", "release"} => args \subseteq 0..(param_count - 1)
  /\ pc = "answered" => copy = Nothing

(* A message m of n parameters of which those of ps are in: the ParamInfos,  *)
(* the places of the values, and the values.                                 *)
Fields(m, ps, n) ==
  /\ n \in 1..MaxParams /\ m[Count] = n /\ Len(ps) <= n
  /\ \A i \in 1..Len(ps) :
       /\ TypeOf(m, i - 1) = ps[i].type
       /\ OffsetOf(m, i - 1) = ps[i].offset
       /\ SizeOf(m, i - 1) = ps[i].size
       /\ ps[i].type = UINT32_TYPE => ps[i].size = 1
       /\ ps[i].type = INOUTPTR_TYPE => m[IsInOut] = 1
  /\ Info(n + 1) <= OffsetOf(m, Len(ps)) /\ OffsetOf(m, Len(ps)) <= ChannelSize

Apart(ps, n, end) ==
  \A i \in 1..Len(ps) :
    /\ Info(n + 1) <= ps[i].offset /\ ps[i].offset + ps[i].size <= end
    /\ \A j \in 1..(i - 1) : ps[j].offset + ps[j].size <= ps[i].offset

AreaOf(q) == q.offset..(q.offset + q.size - 1)

Filled(m, ps) == \A i \in 1..Len(ps) : \A a \in AreaOf(ps[i]) : m[a] = In

LaidOut(m, ps, n) ==
  Fields(m, ps, n) /\ Apart(ps, n, OffsetOf(m, Len(ps))) /\ Filled(m, ps)

(* What a successful handler leaves in the copy.                             *)
Handled ==
  answer = "ok" =>
    \A a \in 0..(declared_size - 1) :
      copy[a] = IF \E i \in 1..Len(sent) :
                     sent[i].type = INOUTPTR_TYPE /\ a \in AreaOf(sent[i])
                THEN Out ELSE channel[a]

Packing == Undisturbed /\ LaidOut(channel, sent, channel[Count]) /\ Len(sent) < channel[Count]

Copying == {"copy", "recheck", "verify", "args", "handle"}
Sized == {"range", "release"} \union Copying
Counted == {"size"} \union Sized

CallInv ==
  /\ pc = "idle" => Undisturbed /\ sent = <<>>
  /\ pc = "pack" => Packing
  /\ Undisturbed =>
     /\ pc \in {"count"} \union Counted => LaidOut(channel, sent, Len(sent))
     /\ pc \in Counted => param_count = Len(sent)
     /\ pc \in Sized => declared_size = OffsetOf(channel, Len(sent))
     /\ pc \in Copying => \A a \in DOMAIN copy : copy[a] = channel[a]
     /\ pc = "handle" => \A i \in 1..Len(sent) : sent[i].type = INOUTPTR_TYPE => i - 1 \in args
     /\ pc = "release" => Handled
     /\ pc = "answered" => InOutDelivered

-----------------------------------------------------------------------------
LEMMA SmallSum == ASSUME NEW n \in Nat, n < Modulus PROVE n % Modulus = n
  BY LayoutAssumption

LEMMA WrappedSum ==
  ASSUME NEW a \in Word, NEW b \in Word, a + b >= Modulus PROVE Plus(a, b) = (a + b) - Modulus
<1>1. a + b \in Nat /\ Modulus <= a + b /\ a + b < 2 * Modulus
  BY LayoutAssumption DEF Word
<1>2. \A n \in Nat : Modulus <= n /\ n < 2 * Modulus => n % Modulus = n - Modulus
  BY LayoutAssumption
<1>3. (a + b) % Modulus = (a + b) - Modulus
  BY <1>1, <1>2, Zenon
<1> QED
  BY <1>3, Zenon DEF Plus

(* The size of the ParamInfos does not wrap for a count in range.            *)
LEMMA LayoutFacts ==
  /\ ChannelSize \in Nat /\ MaxParams \in Nat \ {0} /\ Modulus \in Nat /\ Base \in Nat \ {0}
  /\ Base + ChannelSize < Modulus
  /\ \A n \in 0..MaxParams : Info(n + 1) <= ChannelSize /\ Info(n + 1) \in Nat
  /\ {0, Out} \subseteq Word
  BY LayoutAssumption DEF HeaderSize, InfoSize, Info, Word, Out

LEMMA SizeOfInfos == \A n \in 1..MaxParams : MinDeclaredSize(n) = Info(n + 1)
<1> SUFFICES ASSUME NEW n \in 1..MaxParams PROVE MinDeclaredSize(n) = Info(n + 1)
  OBVIOUS
<1>1. n + 1 \in Nat /\ n + 1 < Modulus /\ (n + 1) * 3 \in Nat /\ (n + 1) * 3 < Modulus
      /\ 2 + (n + 1) * 3 \in Nat /\ 2 + (n + 1) * 3 < Modulus
  BY LayoutFacts DEF Info, HeaderSize, InfoSize
<1>2. (n + 1) % Modulus = n + 1 /\ ((n + 1) * 3) % Modulus = (n + 1) * 3
      /\ (2 + (n + 1) * 3) % Modulus = 2 + (n + 1) * 3
  BY <1>1, SmallSum
<1> QED
  BY <1>2 DEF MinDeclaredSize, Plus, HeaderSize, InfoSize, Info

LEMMA MinIsNat == \A n \in Word : MinDeclaredSize(n) \in Nat
  BY LayoutFacts DEF MinDeclaredSize, Plus, Word, InfoSize, HeaderSize

LEMMA Start == Init => Inv
<1> SUFFICES ASSUME Init PROVE Inv
  OBVIOUS
<1>1. DOMAIN Nothing = {}
  BY DEF Nothing
<1>2. channel \in [Cells -> Word] /\ sent \in Seq(Params)
  BY LayoutFacts DEF Init
<1>3. 0 \in 0..MaxWrites
  BY LayoutAssumption
<1> QED
  BY <1>1, <1>2, <1>3, LayoutFacts DEF Init, Inv, TypeOK, SizesBounded, Steps, Answers

-----------------------------------------------------------------------------
(* The caller's side: one parameter more is laid out behind the others.      *)
LEMMA AlignBounds ==
  ASSUME NEW n \in Nat, n <= ChannelSize PROVE n <= Align(n) /\ Align(n) <= ChannelSize
  BY LayoutAssumption DEF Align, Alignment

LEMMA ParamFacts ==
  ASSUME NEW p \in Params
  PROVE  /\ p.type \in {WCHAR_TYPE, UINT32_TYPE, INOUTPTR_TYPE} /\ p.size \in Nat
         /\ p.type = UINT32_TYPE => p.size = 1
<1>1. CASE p \in [type : {WCHAR_TYPE, INOUTPTR_TYPE}, size : Sizes]
  <2>1. p.type \in {WCHAR_TYPE, INOUTPTR_TYPE} /\ p.size \in Sizes
    BY <1>1
  <2>2. WCHAR_TYPE # UINT32_TYPE /\ INOUTPTR_TYPE # UINT32_TYPE
    BY DEF WCHAR_TYPE, UINT32_TYPE, INOUTPTR_TYPE
  <2>3. p.size \in Nat
    BY <2>1, LayoutAssumption
  <2> QED
    BY <2>1, <2>2, <2>3
<1>2. CASE p \in [type : {UINT32_TYPE}, size : {1}]
  BY <1>2
<1> QED
  BY <1>1, <1>2 DEF Params

LEMMA CopiedCells ==
  ASSUME NEW m \in [Cells -> Word], NEW n \in 1..MaxParams, NEW k \in 0..(n - 1),
         NEW p \in Params, NEW offset \in Nat, offset = OffsetOf(m, k),
         Info(n + 1) <= offset, offset + p.size <= ChannelSize,
         NEW mm, mm = CopyParamIn(m, k, p)
  PROVE  /\ mm \in [Cells -> Word]
         /\ mm[Count] = m[Count]
         /\ mm[IsInOut] = IF p.type = INOUTPTR_TYPE THEN 1 ELSE m[IsInOut]
         /\ \A i \in 0..(k - 1) : /\ TypeOf(mm, i) = TypeOf(m, i)
                                  /\ SizeOf(mm, i) = SizeOf(m, i)
         /\ \A i \in 0..k : OffsetOf(mm, i) = OffsetOf(m, i)
         /\ TypeOf(mm, k) = p.type /\ SizeOf(mm, k) = p.size
         /\ OffsetOf(mm, k + 1) = Align(offset + p.size)
         /\ \A a \in offset..(offset + p.size - 1) : mm[a] = In
         /\ \A a \in Info(n + 1)..(offset - 1) : mm[a] = m[a]
<1> DEFINE end == Align(offset + p.size)
           flag == IF p.type = INOUTPTR_TYPE THEN 1 ELSE m[IsInOut]
<1>1. /\ k \in Nat /\ n \in Nat /\ p.size \in Nat /\ p.type \in {1, 2, 3}
  BY LayoutFacts, ParamFacts DEF WCHAR_TYPE, UINT32_TYPE, INOUTPTR_TYPE
<1>2. mm = [a \in Cells |->
     CASE a = 1 -> flag
       [] a = 2 + 3 * k -> p.type
       [] a = 2 + 3 * k + 2 -> p.size
       [] a = 2 + 3 * (k + 1) + 1 -> end
       [] a \in offset..(offset + p.size - 1) -> In
       [] OTHER -> m[a]]
  BY DEF CopyParamIn, IsInOut, Info, HeaderSize, InfoSize
<1>3. /\ 2 + 3 * (n + 1) <= ChannelSize /\ 2 + 3 * (n + 1) <= offset /\ k + 1 <= n
      /\ ChannelSize \in Nat
  BY <1>1, LayoutFacts DEF Info, HeaderSize, InfoSize
<1>4. \A a \in 0..(offset + p.size - 1) : a \in Cells
  BY <1>1, <1>3 DEF Cells
<1>5. \A a \in 0..(offset - 1) : a \in Cells
  BY <1>1, <1>4
<1> HIDE DEF end, flag
<1>6. mm \in [Cells -> Word]
  <2>1. end \in Word /\ p.size \in Word /\ p.type \in Word /\ In \in Word /\ 1 \in Word
    <3>1. end \in Nat /\ end <= ChannelSize
      BY <1>1, AlignBounds DEF end, Align, Alignment
    <3> QED
      BY <1>1, <1>3, <3>1, LayoutFacts DEF Word, In
  <2>2. flag \in Word
    BY <2>1, <1>3, LayoutFacts DEF flag, IsInOut, Cells
  <2> QED
    BY <1>2, <2>1, <2>2
<1>7. ASSUME NEW a \in 0..(offset - 1), a # 1, a # 2 + 3 * k, a # 2 + 3 * k + 2,
             a # 2 + 3 * (k + 1) + 1
      PROVE  mm[a] = m[a]
  BY <1>1, <1>2, <1>5, <1>7
<1>8. mm[1] = flag /\ mm[2 + 3 * k] = p.type /\ mm[2 + 3 * k + 2] = p.size
      /\ mm[2 + 3 * (k + 1) + 1] = end
  <2>1. /\ 1 \in Cells /\ 2 + 3 * k \in Cells /\ 2 + 3 * k + 2 \in Cells
        /\ 2 + 3 * (k + 1) + 1 \in Cells
    BY <1>1, <1>3 DEF Cells
  <2>2. 1 # 2 + 3 * k /\ 1 # 2 + 3 * k + 2 /\ 1 # 2 + 3 * (k + 1) + 1
        /\ 2 + 3 * k # 2 + 3 * k + 2 /\ 2 + 3 * k # 2 + 3 * (k + 1) + 1
        /\ 2 + 3 * k + 2 # 2 + 3 * (k + 1) + 1
    BY <1>1
  <2>3. mm[1] = flag
    BY <1>1, <1>2, <1>3, <2>1, <2>2
  <2>4. mm[2 + 3 * k] = p.type
    BY <1>1, <1>2, <1>3, <2>1, <2>2
  <2>5. mm[2 + 3 * k + 2] = p.size
    BY <1>1, <1>2, <1>3, <2>1, <2>2
  <2>6. mm[2 + 3 * (k + 1) + 1] = end
    BY <1>1, <1>2, <1>3, <2>1, <2>2
  <2> QED
    BY <2>3, <2>4, <2>5, <2>6
<1>9. \A a \in offset..(offset + p.size - 1) : mm[a] = In
  <2> SUFFICES ASSUME NEW a \in offset..(offset + p.size - 1) PROVE mm[a] = In
    OBVIOUS
  <2>1. a \in Cells /\ a # 1 /\ a # 2 + 3 * k /\ a # 2 + 3 * k + 2 /\ a # 2 + 3 * (k + 1) + 1
    BY <1>1, <1>3, <1>4
  <2> QED
    BY <1>2, <2>1
<1>10. \A a \in Info(n + 1)..(offset - 1) : mm[a] = m[a]
  BY <1>1, <1>3, <1>7 DEF Info, HeaderSize, InfoSize
<1>11. \A i \in 0..(k - 1) : /\ mm[2 + 3 * i] = m[2 + 3 * i]
                             /\ mm[2 + 3 * i + 2] = m[2 + 3 * i + 2]
  BY <1>1, <1>3, <1>7
<1>12. \A i \in 0..k : mm[2 + 3 * i + 1] = m[2 + 3 * i + 1]
  BY <1>1, <1>3, <1>7
<1>13. mm[0] = m[0]
  BY <1>1, <1>3, <1>7
<1> QED
  BY <1>6, <1>8, <1>9, <1>10, <1>11, <1>12, <1>13
  DEF flag, end, Count, IsInOut, TypeOf, SizeOf, OffsetOf, Info, HeaderSize, InfoSize

LEMMA NextParam ==
  ASSUME NEW m \in [Cells -> Word], NEW ps \in Seq(SentParams), NEW n, NEW p \in Params,
         LaidOut(m, ps, n), Len(ps) < n, ParamFits(m, Len(ps), p.size),
         NEW q, q = [type |-> p.type, size |-> p.size, offset |-> OffsetOf(m, Len(ps))],
         NEW mm, mm = CopyParamIn(m, Len(ps), p)
  PROVE  /\ mm \in [Cells -> Word] /\ Append(ps, q) \in Seq(SentParams)
         /\ LaidOut(mm, Append(ps, q), n)
<1> DEFINE k == Len(ps)
           offset == OffsetOf(m, k)
           qs == Append(ps, q)
<1>1. /\ k \in Nat /\ n \in 1..MaxParams /\ n \in Nat /\ k \in 0..(n - 1)
      /\ Info(n + 1) <= offset
  BY LayoutFacts DEF LaidOut, Fields
<1>2. offset \in Nat
  <2>1. Info(k) + 1 \in Cells
    BY <1>1, LayoutFacts DEF Cells, Info, HeaderSize, InfoSize
  <2> QED
    BY <2>1, LayoutFacts DEF OffsetOf, Word
<1>3. offset + p.size <= ChannelSize /\ p.size \in Nat /\ Info(n + 1) \in Nat
  BY <1>1, <1>2, LayoutFacts, ParamFacts DEF ParamFits
<1>4. /\ q \in SentParams /\ qs \in Seq(SentParams) /\ Len(qs) = k + 1 /\ qs[k + 1] = q
      /\ \A i \in 1..k : qs[i] = ps[i] /\ ps[i] \in SentParams
  <2>1. q \in SentParams
    BY <1>2, ParamFacts DEF SentParams
  <2> QED
    BY <2>1
<1>5. /\ q.type = p.type /\ q.size = p.size /\ q.offset = offset
  OBVIOUS
<1>6. /\ mm \in [Cells -> Word]
      /\ mm[Count] = m[Count]
      /\ mm[IsInOut] = IF p.type = INOUTPTR_TYPE THEN 1 ELSE m[IsInOut]
      /\ \A i \in 0..(k - 1) : TypeOf(mm, i) = TypeOf(m, i) /\ SizeOf(mm, i) = SizeOf(m, i)
      /\ \A i \in 0..k : OffsetOf(mm, i) = OffsetOf(m, i)
      /\ TypeOf(mm, k) = p.type /\ SizeOf(mm, k) = p.size
      /\ OffsetOf(mm, k + 1) = Align(offset + p.size)
      /\ \A a \in offset..(offset + p.size - 1) : mm[a] = In
      /\ \A a \in Info(n + 1)..(offset - 1) : mm[a] = m[a]
  BY <1>1, <1>2, <1>3, CopiedCells, SMTT(20)
<1>7. Align(offset + p.size) \in Nat /\ offset + p.size <= Align(offset + p.size)
      /\ Align(offset + p.size) <= ChannelSize
  BY <1>2, <1>3, AlignBounds DEF Align, Alignment
<1> HIDE DEF k, offset, qs
<1>8. Fields(mm, qs, n)
  <2>1. ASSUME NEW i \in 1..k
        PROVE  /\ TypeOf(mm, i - 1) = qs[i].type
               /\ OffsetOf(mm, i - 1) = qs[i].offset
               /\ SizeOf(mm, i - 1) = qs[i].size
               /\ qs[i].type = UINT32_TYPE => qs[i].size = 1
               /\ qs[i].type = INOUTPTR_TYPE => mm[IsInOut] = 1
    <3>1. i - 1 \in 0..(k - 1) /\ i - 1 \in 0..k
      BY <1>1
    <3>2. /\ TypeOf(m, i - 1) = ps[i].type
          /\ OffsetOf(m, i - 1) = ps[i].offset
          /\ SizeOf(m, i - 1) = ps[i].size
          /\ ps[i].type = UINT32_TYPE => ps[i].size = 1
          /\ ps[i].type = INOUTPTR_TYPE => m[IsInOut] = 1
      BY DEF LaidOut, Fields, k
    <3> QED
      BY <1>4, <1>6, <3>1, <3>2
  <2>2. /\ TypeOf(mm, k) = q.type
        /\ OffsetOf(mm, k) = q.offset
        /\ SizeOf(mm, k) = q.size
        /\ q.type = UINT32_TYPE => q.size = 1
        /\ q.type = INOUTPTR_TYPE => mm[IsInOut] = 1
    <3>1. OffsetOf(mm, k) = OffsetOf(m, k)
      BY <1>1, <1>6
    <3> QED
      BY <1>5, <1>6, <3>1, ParamFacts DEF offset
  <2>3. ASSUME NEW i \in 1..Len(qs), i \notin 1..k PROVE i = k + 1 /\ i - 1 = k
    BY <1>1, <1>4, <2>3
  <2>4. Len(qs) <= n /\ mm[Count] = n /\ Info(n + 1) <= OffsetOf(mm, Len(qs))
        /\ OffsetOf(mm, Len(qs)) <= ChannelSize
    BY <1>1, <1>2, <1>3, <1>4, <1>6, <1>7 DEF LaidOut, Fields
  <2> QED
    BY <1>1, <1>4, <2>1, <2>2, <2>3, <2>4 DEF Fields
<1>9. Apart(qs, n, OffsetOf(mm, Len(qs)))
  <2>1. \A i \in 1..k : /\ Info(n + 1) <= ps[i].offset /\ ps[i].offset + ps[i].size <= offset
                        /\ \A j \in 1..(i - 1) : ps[j].offset + ps[j].size <= ps[i].offset
    BY DEF LaidOut, Apart, k, offset
  <2>2. OffsetOf(mm, Len(qs)) = Align(offset + p.size)
    BY <1>4, <1>6
  <2>3. ASSUME NEW i \in 1..k
        PROVE  /\ Info(n + 1) <= qs[i].offset
               /\ qs[i].offset + qs[i].size <= Align(offset + p.size)
               /\ \A j \in 1..(i - 1) : qs[j].offset + qs[j].size <= qs[i].offset
    <3>1. \A j \in 1..(i - 1) : j \in 1..k
      BY <1>1
    <3>2. qs[i].offset \in Nat /\ qs[i].size \in Nat /\ qs[i] = ps[i]
      <4>1. qs[i] = ps[i] /\ qs[i] \in SentParams
        BY <1>4
      <4> QED
        BY <4>1 DEF SentParams
    <3>3. /\ Info(n + 1) <= qs[i].offset /\ qs[i].offset + qs[i].size <= offset
          /\ \A j \in 1..(i - 1) : qs[j].offset + qs[j].size <= qs[i].offset
      BY <1>4, <2>1, <3>1
    <3> DEFINE end == qs[i].offset + qs[i].size
               top == Align(offset + p.size)
    <3>4. /\ end \in Nat /\ offset \in Nat /\ p.size \in Nat /\ top \in Nat
          /\ end <= offset /\ offset + p.size <= top
      <4>1. offset \in Nat /\ p.size \in Nat /\ top \in Nat /\ offset + p.size <= top
        BY <1>2, <1>3, <1>7
      <4>2. end \in Nat /\ end <= offset
        BY <3>2, <3>3
      <4> QED
        BY <4>1, <4>2
    <3> HIDE DEF end, top
    <3>5. end <= top
      BY <3>4
    <3> QED
      BY <3>3, <3>5 DEF end, top
  <2>4. /\ Info(n + 1) <= q.offset /\ q.offset + q.size <= Align(offset + p.size)
        /\ \A j \in 1..k : qs[j].offset + qs[j].size <= q.offset
    BY <1>1, <1>4, <1>5, <1>7, <2>1
  <2>5. ASSUME NEW i \in 1..Len(qs), i \notin 1..k PROVE i = k + 1 /\ i - 1 = k
    BY <1>1, <1>4, <2>5
  <2> QED
    BY <1>4, <2>2, <2>3, <2>4, <2>5 DEF Apart
<1>10. Filled(mm, qs)
  <2>1. ASSUME NEW i \in 1..k, NEW a \in AreaOf(ps[i]) PROVE mm[a] = In
    <3>1. m[a] = In /\ Info(n + 1) <= ps[i].offset /\ ps[i].offset + ps[i].size <= offset
      BY DEF LaidOut, Apart, Filled, k, offset
    <3>2. ps[i].offset \in Nat /\ ps[i].size \in Nat
      BY <1>4 DEF SentParams
    <3>3. a \in Info(n + 1)..(offset - 1)
      <4> DEFINE first == ps[i].offset
                 size == ps[i].size
                 behind == Info(n + 1)
      <4>1. a \in first..(first + size - 1)
        BY DEF AreaOf
      <4>2. /\ first \in Nat /\ size \in Nat /\ behind \in Nat /\ offset \in Nat
            /\ behind <= first /\ first + size <= offset
        BY <1>2, <1>3, <3>1, <3>2
      <4> HIDE DEF first, size, behind
      <4>3. a \in behind..(offset - 1)
        BY <4>1, <4>2
      <4> QED
        BY <4>3 DEF behind
    <3> QED
      BY <1>6, <3>1, <3>3
  <2>2. ASSUME NEW a \in AreaOf(q) PROVE mm[a] = In
    BY <1>5, <1>6 DEF AreaOf
  <2>3. ASSUME NEW i \in 1..Len(qs), i \notin 1..k PROVE i = k + 1
    BY <1>1, <1>4, <2>3
  <2> QED
    BY <1>4, <2>1, <2>2, <2>3 DEF Filled
<1> QED
  BY <1>4, <1>6, <1>8, <1>9, <1>10 DEF LaidOut, qs

Emptied(m, n) == [m EXCEPT ![Count] = n, ![IsInOut] = 0, ![Info(0) + 1] = Info(n + 1)]

LEMMA NoParam ==
  ASSUME NEW m \in [Cells -> Word], NEW n \in 1..MaxParams, NEW mm, mm = Emptied(m, n)
  PROVE  mm \in [Cells -> Word] /\ mm[Count] = n /\ LaidOut(mm, <<>>, n)
<1>1. /\ 0 \in Cells /\ 1 \in Cells /\ 3 \in Cells /\ n \in Word /\ 0 \in Word
      /\ Info(n + 1) \in Word /\ Info(n + 1) <= ChannelSize
  BY LayoutFacts DEF Cells, Word, Info, HeaderSize, InfoSize
<1>2. mm = [m EXCEPT ![0] = n, ![1] = 0, ![3] = Info(n + 1)]
  BY DEF Emptied, Count, IsInOut, Info, HeaderSize, InfoSize
<1>3. mm \in [Cells -> Word] /\ mm[0] = n /\ mm[3] = Info(n + 1)
  <2>1. mm \in [Cells -> Word]
    BY <1>1, <1>2
  <2>2. ASSUME NEW a \in Cells, a = 0 PROVE mm[a] = n
    BY <1>2, <2>2
  <2>3. ASSUME NEW a \in Cells, a = 3 PROVE mm[a] = Info(n + 1)
    BY <1>2, <2>3
  <2> QED
    BY <1>1, <2>1, <2>2, <2>3
<1>4. Fields(mm, <<>>, n)
  <2>1. OffsetOf(mm, Len(<<>>)) = Info(n + 1)
    BY <1>3 DEF OffsetOf, Info, HeaderSize, InfoSize
  <2> QED
    BY <1>1, <1>3, <2>1, LayoutFacts DEF Fields, Count, Word
<1> QED
  BY <1>3, <1>4 DEF LaidOut, Apart, Filled, Count

LEMMA CallerStep ==
  ASSUME Inv, CallInv, CrossCall
  PROVE  /\ channel' \in [Cells -> Word] /\ sent' \in Seq(SentParams)
         /\ pc' = "pack" => LaidOut(channel', sent', channel'[Count]) /\ Len(sent') < channel'[Count]
         /\ pc' = "count" => LaidOut(channel', sent', Len(sent'))
<1>0. channel \in [Cells -> Word] /\ sent \in Seq(SentParams)
  BY DEF Inv, TypeOK
<1>1. ASSUME NEW n \in 1..MaxParams, StartCall(n)
      PROVE  /\ channel' \in [Cells -> Word] /\ channel'[Count] = n
             /\ LaidOut(channel', sent', n)
             /\ sent' = <<>> /\ pc' = "pack"
  <2>1. channel' = Emptied(channel, n)
    BY <1>1 DEF StartCall, Constructed, Emptied
  <2>2. sent' = <<>> /\ pc' = "pack"
    BY <1>1 DEF StartCall, CallInv
  <2>3. channel' \in [Cells -> Word] /\ channel'[Count] = n /\ LaidOut(channel', <<>>, n)
    <3>1. n \in 1..MaxParams
      OBVIOUS
    <3> QED
      BY <1>0, <2>1, <3>1, NoParam
  <2> QED
    BY <2>2, <2>3
<1>2. ASSUME NEW p \in Params, PackParam(p), pc' # "unsent"
      PROVE  /\ channel' \in [Cells -> Word] /\ sent' \in Seq(SentParams)
             /\ LaidOut(channel', sent', channel[Count])
             /\ Len(sent') = Len(sent) + 1
             /\ pc' = IF Len(sent) + 1 = channel[Count] THEN "count" ELSE "pack"
  <2> DEFINE q == [type |-> p.type, size |-> p.size, offset |-> OffsetOf(channel, Len(sent))]
  <2>1. LaidOut(channel, sent, channel[Count]) /\ Len(sent) < channel[Count]
    BY <1>2 DEF PackParam, CallInv, Packing
  <2>2. /\ ParamFits(channel, Len(sent), p.size) /\ sent' = Append(sent, q)
        /\ channel' = CopyParamIn(channel, Len(sent), p)
        /\ pc' = IF Len(sent) + 1 = channel[Count] THEN "count" ELSE "pack"
    BY <1>2 DEF PackParam
  <2>3. Len(sent') = Len(sent) + 1
    BY <1>0, <2>2
  <2> QED
    BY <1>0, <2>1, <2>2, <2>3, NextParam
<1>3. CASE \E n \in 1..MaxParams : StartCall(n)
  <2>1. Len(<<>>) = 0 /\ <<>> \in Seq(SentParams) /\ \A n \in 1..MaxParams : 0 < n
    BY LayoutFacts
  <2>2. PICK n \in 1..MaxParams : StartCall(n)
    BY <1>3
  <2>3. /\ channel' \in [Cells -> Word] /\ channel'[Count] = n /\ sent' = <<>>
        /\ LaidOut(channel', sent', n) /\ pc' = "pack"
    BY <1>1, <2>2
  <2> QED
    BY <2>1, <2>3
<1>4. CASE \E p \in Params : PackParam(p) /\ pc' # "unsent"
  <2>1. channel'[Count] = channel[Count] /\ Len(sent') <= channel[Count]
    BY <1>2, <1>4 DEF LaidOut, Fields
  <2>2. Len(sent') \in Nat /\ channel[Count] \in Nat /\ Len(sent) \in Nat
    BY <1>0, <1>2, <1>4, LayoutFacts DEF LaidOut, Fields
  <2> QED
    BY <1>2, <1>4, <2>1, <2>2
<1>5. CASE \E p \in Params : PackParam(p) /\ pc' = "unsent"
  BY <1>0, <1>5 DEF PackParam
<1> QED
  BY <1>3, <1>4, <1>5 DEF CrossCall

(* Whoever writes to the channel writes words.                               *)
LEMMA ChannelStep == ASSUME Inv, CallInv, [Next]_vars PROVE ChannelOfWords'
<1>0. ChannelOfWords
  BY DEF Inv, TypeOK, ChannelOfWords
<1>1. CASE CrossCall
  BY <1>1, CallerStep DEF ChannelOfWords
<1>2. ASSUME NEW a \in Cells, NEW v \in OtherValues, OtherThreadWrites(a, v)
      PROVE  ChannelOfWords'
  BY <1>0, <1>2, LayoutAssumption DEF OtherThreadWrites, ChannelOfWords, Word
<1>3. CASE WriteBack
  <2>1. CASE answer = "ok" /\ copy[IsInOut] = 1
    <3>1. ASSUME NEW a \in Cells, a < declared_size PROVE copy[a] \in Word
      <4>1. DOMAIN copy = 0..(declared_size - 1) /\ declared_size \in Nat /\ a \in Nat
        BY <1>3, LayoutFacts DEF WriteBack, Inv, Checked, TypeOK, Word, Cells
      <4> QED
        BY <3>1, <4>1 DEF Inv, TypeOK
    <3> QED
      BY <1>0, <1>3, <2>1, <3>1 DEF WriteBack, ChannelOfWords
  <2>2. CASE ~(answer = "ok" /\ copy[IsInOut] = 1)
    BY <1>0, <1>3, <2>2 DEF WriteBack, ChannelOfWords
  <2> QED
    BY <2>1, <2>2
<1>4. CASE channel' = channel
  BY <1>0, <1>4 DEF ChannelOfWords
<1>5. (InvokeCallback /\ ~WriteBack) \/ UNCHANGED vars => channel' = channel
  BY DEF InvokeCallback, ReadCount, ReadDeclaredSize, CheckRange, CopyWord, RecheckCopy,
         VerifyParams, GetArgs, Handle, vars
<1> QED
  BY <1>1, <1>2, <1>3, <1>4, <1>5 DEF Next, InvokeCallback

(* The caller and the other thread: the copy is not theirs.                  *)
LEMMA TargetStep ==
  ASSUME Inv, CallInv, ChannelOfWords',
         CrossCall \/ \E a \in Cells, v \in OtherValues : OtherThreadWrites(a, v)
  PROVE  Inv'
<1>1. CASE CrossCall
  <2>1. /\ pc \in {"idle", "pack"} /\ pc' \in {"pack", "unsent", "count"}
        /\ UNCHANGED <<writes, param_count, declared_size, copied, copy, args, answer>>
    BY <1>1 DEF CrossCall, StartCall, PackParam, readVars
  <2>2. TypeOK'
    BY <1>1, <2>1, CallerStep DEF Inv, TypeOK, Steps, ChannelOfWords
  <2> QED
    BY <2>1, <2>2 DEF Inv, SizesBounded
<1>2. ASSUME NEW a \in Cells, NEW v \in OtherValues, OtherThreadWrites(a, v) PROVE Inv'
  <2>1. /\ writes' \in 0..MaxWrites
        /\ UNCHANGED <<sent, pc, param_count, declared_size, copied, copy, args, answer>>
    BY <1>2, LayoutAssumption DEF OtherThreadWrites, readVars, Inv, TypeOK
  <2>2. TypeOK'
    BY <2>1 DEF Inv, TypeOK, ChannelOfWords
  <2> QED
    BY <2>1, <2>2 DEF Inv, SizesBounded, Checked, Placed, OffsetOf, SizeOf
<1> QED
  BY <1>1, <1>2

(* Before the copy.                                                          *)
LEMMA SizeStep == ASSUME Inv, ReadCount \/ ReadDeclaredSize \/ CheckRange PROVE Inv'
<1>0. Count \in Cells /\ \A n \in 0..MaxParams : Info(n) + 1 \in Cells
  BY LayoutFacts DEF Count, Cells, Info, HeaderSize, InfoSize
<1>1. CASE ReadCount
  <2>1. param_count' \in Word
    BY <1>0, <1>1 DEF ReadCount, Inv, TypeOK
  <2>2. TypeOK'
    BY <1>1, <2>1 DEF ReadCount, Inv, TypeOK, Steps
  <2> QED
    BY <1>1, <2>2 DEF ReadCount, Inv, SizesBounded
<1>2. CASE ReadDeclaredSize
  <2>1. PICK n \in {param_count, channel[Count]} : declared_size' = ActualBufferSize(n, channel)
    BY <1>2 DEF ReadDeclaredSize
  <2>2. declared_size' \in Word
    BY <1>0, <2>1, LayoutFacts DEF ActualBufferSize, OffsetOf, Inv, TypeOK
  <2>3. TypeOK'
    BY <1>2, <2>2 DEF ReadDeclaredSize, Inv, TypeOK, Steps
  <2> QED
    BY <1>2, <2>3 DEF ReadDeclaredSize, Inv, SizesBounded
<1>3. CASE CheckRange
  <2>1. copied = 0 /\ copy = Nothing /\ DOMAIN copy = 0..(copied - 1)
    <3>1. DOMAIN Nothing = {} /\ 0..(0 - 1) = {}
      BY DEF Nothing
    <3> QED
      BY <1>3, <3>1 DEF CheckRange, Inv, SizesBounded
  <2>2. TypeOK'
    BY <1>3 DEF CheckRange, Refuse, Inv, TypeOK, Steps, Answers, readVars
  <2>3. CASE SizeWithinRange(MinDeclaredSize(param_count), declared_size) /\ pc' = "copy"
    <3>1. copied < declared_size
      <4>1. MinDeclaredSize(param_count) \in Nat /\ declared_size \in Nat
        BY MinIsNat DEF Inv, TypeOK, Word
      <4> QED
        BY <2>1, <2>3, <4>1 DEF SizeWithinRange, HeaderSize, InfoSize
    <3> QED
      BY <1>3, <2>1, <2>2, <2>3, <3>1 DEF CheckRange, Inv, SizesBounded, readVars
  <2>4. CASE Refuse
    BY <1>3, <2>1, <2>2, <2>4 DEF CheckRange, Refuse, Inv, SizesBounded, readVars
  <2> QED
    BY <1>3, <2>3, <2>4 DEF CheckRange
<1> QED
  BY <1>1, <1>2, <1>3

(* Word by word, up to the declared size.                                    *)
LEMMA CopyStep == ASSUME Inv, CopyWord PROVE Inv'
<1>1. /\ pc = "copy" /\ copied < declared_size /\ declared_size \in Nat /\ copied \in Nat
      /\ copied' = copied + 1
      /\ declared_size <= ChannelSize /\ DOMAIN copy = 0..(copied - 1)
      /\ SizeWithinRange(MinDeclaredSize(param_count), declared_size)
      /\ UNCHANGED <<channel, sent, writes, param_count, declared_size, args, answer>>
  BY LayoutFacts DEF CopyWord, Inv, SizesBounded, SizeWithinRange, TypeOK, Word
<1>2. /\ DOMAIN copy' = 0..(copied' - 1) /\ DOMAIN copy' \subseteq Cells
      /\ \A a \in DOMAIN copy' : copy'[a] \in Word
  <2>1. copy' = [a \in 0..copied |-> IF a = copied THEN channel[a] ELSE copy[a]]
    BY DEF CopyWord
  <2>2. 0..copied = 0..(copied' - 1) /\ 0..copied \subseteq Cells
    BY <1>1, LayoutFacts DEF Cells
  <2>3. \A a \in 0..copied : a = copied \/ a \in DOMAIN copy
    BY <1>1
  <2> QED
    BY <2>1, <2>2, <2>3 DEF Inv, TypeOK
<1>3. pc' = (IF copied' = declared_size THEN "recheck" ELSE "copy") /\ copied' \in 0..ChannelSize
  BY <1>1, LayoutFacts DEF CopyWord
<1>4. TypeOK'
  BY <1>1, <1>2, <1>3 DEF Inv, TypeOK, Steps
<1> QED
  BY <1>1, <1>2, <1>3, <1>4 DEF Inv, SizesBounded

(* The count in the copy is the one the sizes are checked for, and it is in  *)
(* range: another would have no declared size.                               *)
LEMMA RecheckStep == ASSUME Inv, RecheckCopy PROVE Inv'
<1>1. TypeOK'
  <2>1. DOMAIN Nothing = {}
    BY DEF Nothing
  <2> QED
    BY <2>1 DEF RecheckCopy, Refuse, Inv, TypeOK, Steps, Answers
<1>2. CASE CopyConsistent /\ pc' = "verify" /\ UNCHANGED <<copy, answer>>
  <2>1. /\ DOMAIN copy = 0..(declared_size - 1) /\ args = {}
        /\ UNCHANGED <<param_count, declared_size, copied, args>>
    BY DEF RecheckCopy, Inv, SizesBounded
  <2>2. copy[Count] = param_count /\ SizeWithinRange(MinDeclaredSize(param_count), declared_size)
    BY <1>2 DEF CopyConsistent
  <2>3. declared_size >= 5 /\ declared_size >= MinDeclaredSize(param_count)
        /\ declared_size <= ChannelSize
    <3>1. MinDeclaredSize(param_count) \in Nat /\ declared_size \in Nat
      BY MinIsNat DEF Inv, TypeOK, Word
    <3> QED
      BY <2>2, <3>1 DEF SizeWithinRange, HeaderSize, InfoSize
  <2>4. param_count \in 1..MaxParams
    <3>1. ActualBufferSize(param_count, copy) = declared_size
      BY <1>2 DEF CopyConsistent
    <3> QED
      BY <2>3, <3>1 DEF ActualBufferSize
  <2>5. Checked'
    BY <1>2, <2>1, <2>2, <2>3, <2>4, SizeOfInfos DEF Checked
  <2> QED
    BY <1>1, <1>2, <2>1, <2>5 DEF Inv, SizesBounded
<1>3. CASE Refuse /\ copy' = Nothing
  <2>1. args = {} /\ args' = args
    BY DEF RecheckCopy, Inv
  <2> QED
    BY <1>1, <1>3, <2>1 DEF Refuse, Inv, SizesBounded
<1> QED
  BY <1>2, <1>3 DEF RecheckCopy

(* An address that passes lies in the copy, though addresses wrap.           *)
LEMMA WellPlacedBounds ==
  ASSUME Inv, Checked, NEW i \in 0..(param_count - 1), WellPlaced(i)
  PROVE  /\ Info(param_count + 1) <= OffsetOf(copy, i)
         /\ OffsetOf(copy, i) + SizeOf(copy, i) <= declared_size
<1> DEFINE offset == OffsetOf(copy, i)
           size == SizeOf(copy, i)
           infos == Info(param_count + 1)
           address == Plus(Base, offset)
<1>1. offset \in Word /\ size \in Word
  <2>1. Info(i) + 1 \in DOMAIN copy /\ Info(i) + 2 \in DOMAIN copy
    BY LayoutFacts DEF Checked, Info, HeaderSize, InfoSize, Inv, TypeOK, Word
  <2> QED
    BY <2>1 DEF Inv, TypeOK, OffsetOf, SizeOf
<1>2. infos \in Nat /\ declared_size \in Nat /\ MinDeclaredSize(param_count) = infos
      /\ Base + declared_size < Modulus
  BY LayoutFacts, SizeOfInfos DEF Checked, Inv, TypeOK, Word
<1>3. address >= Base + infos /\ address <= Base + declared_size
      /\ Plus(address, size) >= address /\ Plus(address, size) <= Base + declared_size
  BY <1>2 DEF WellPlaced
<1>4. address = Base + offset
  <2>1. CASE Base + offset < Modulus
    BY <1>1, <2>1, LayoutFacts, SmallSum DEF Plus, Word
  <2>2. CASE Base + offset >= Modulus
    <3>1. Base \in Word
      BY LayoutFacts DEF Word
    <3>2. address = (Base + offset) - Modulus
      BY <1>1, <2>2, <3>1, WrappedSum
    <3> QED
      BY <1>1, <1>2, <1>3, <3>2, LayoutFacts DEF Word
  <2> QED
    BY <1>1, <2>1, <2>2, LayoutFacts DEF Word
<1>5. Plus(address, size) = Base + offset + size
  <2>0. address \in Nat /\ address < Modulus /\ size \in Nat /\ size < Modulus
    BY <1>1, <1>2, <1>3, <1>4, LayoutFacts DEF Word
  <2>1. CASE address + size < Modulus
    BY <1>4, <2>0, <2>1, SmallSum DEF Plus
  <2>2. CASE address + size >= Modulus
    <3>1. Plus(address, size) = (address + size) - Modulus
      BY <2>0, <2>2, LayoutFacts, WrappedSum DEF Word
    <3> QED
      BY <1>3, <2>0, <3>1, LayoutFacts
  <2> QED
    BY <2>0, <2>1, <2>2, LayoutFacts
<1>6. Base + infos <= Base + offset /\ Base + offset + size <= Base + declared_size
  BY <1>3, <1>4, <1>5
<1> QED
  BY <1>1, <1>2, <1>6, LayoutFacts DEF Word

LEMMA VerifyStep == ASSUME Inv, VerifyParams \/ GetArgs PROVE Inv'
<1>0. /\ Checked /\ Indices = 0..(param_count - 1) /\ args = {}
      /\ UNCHANGED <<channel, sent, writes, param_count, declared_size, copied>>
  BY DEF VerifyParams, GetArgs, Inv, Checked, Indices
<1>1. args' \subseteq 0..(param_count - 1) /\ args' \subseteq 0..(MaxParams - 1)
  <2>1. args' \subseteq Indices
    BY <1>0 DEF VerifyParams, GetArgs
  <2> QED
    BY <1>0, <2>1, LayoutFacts DEF Checked
<1>2. TypeOK'
  <2>1. DOMAIN Nothing = {}
    BY DEF Nothing
  <2>2. pc' \in Steps /\ answer' \in Answers /\ (copy' = copy \/ copy' = Nothing)
    BY DEF VerifyParams, GetArgs, Refuse, Steps, Answers, Inv, TypeOK
  <2> QED
    BY <1>0, <1>1, <2>1, <2>2 DEF Inv, TypeOK
<1>3. CASE Refuse /\ copy' = Nothing
  <2>1. args' = {}
    BY <1>0, <1>3 DEF VerifyParams, GetArgs, Refuse
  <2> QED
    BY <1>2, <1>3, <2>1 DEF Refuse, Inv, SizesBounded
<1>4. CASE copy' = copy /\ Placed /\ args' = {} /\ pc' = "args"
  BY <1>0, <1>2, <1>4 DEF Inv, SizesBounded, Checked, Placed, OffsetOf, SizeOf
<1>5. CASE copy' = copy /\ Placed /\ pc' = "handle"
  BY <1>0, <1>1, <1>2, <1>5 DEF Inv, SizesBounded, Checked, Placed, OffsetOf, SizeOf
<1>6. CASE VerifyParams /\ ~Refuse
  <2>1. Placed
    BY <1>0, <1>6, WellPlacedBounds DEF VerifyParams, Placed
  <2> QED
    BY <1>0, <1>4, <1>6, <2>1 DEF VerifyParams
<1>7. CASE GetArgs /\ ~Refuse
  BY <1>5, <1>7 DEF GetArgs, Inv
<1> QED
  BY <1>3, <1>6, <1>7 DEF VerifyParams, GetArgs, Refuse

-----------------------------------------------------------------------------
(* A handler changes in/out buffers, which lie behind the ParamInfos.        *)
LEMMA HandlerKeepsLayout ==
  ASSUME Inv, Handle
  PROVE  /\ DOMAIN copy' = DOMAIN copy
         /\ \A a \in DOMAIN copy : copy'[a] = copy[a] \/ copy'[a] = Out
         /\ \A a \in 0..(Info(param_count + 1) - 1) : a \in DOMAIN copy /\ copy'[a] = copy[a]
<1>1. Checked /\ Placed /\ args \subseteq 0..(param_count - 1) /\ declared_size \in Nat
  BY DEF Handle, Inv, TypeOK, Word
<1>2. copy' = [a \in DOMAIN copy |->
         IF answer' # "invalid" /\ \E i \in args : TypeOf(copy, i) = INOUTPTR_TYPE /\ a \in Area(i)
         THEN Out ELSE copy[a]]
  BY DEF Handle
<1>3. Info(param_count + 1) \in Nat /\ Info(param_count + 1) <= declared_size
  BY <1>1, LayoutFacts DEF Checked
<1>4. ASSUME NEW a \in 0..(Info(param_count + 1) - 1), NEW i \in args PROVE a \notin Area(i)
  <2>1. Info(i) + 1 \in DOMAIN copy
    BY <1>1, <1>3 DEF Checked, Info, HeaderSize, InfoSize, Inv, TypeOK, Word
  <2>2. OffsetOf(copy, i) \in Nat
    BY <2>1 DEF OffsetOf, Inv, TypeOK, Word
  <2> QED
    BY <1>1, <1>3, <2>2 DEF Placed, Area
<1>5. \A a \in 0..(Info(param_count + 1) - 1) : a \in DOMAIN copy
  BY <1>1, <1>3 DEF Checked
<1> QED
  BY <1>2, <1>4, <1>5

LEMMA HandleStep == ASSUME Inv, Handle PROVE Inv'
<1>0. /\ Checked /\ Placed /\ args \subseteq 0..(param_count - 1) /\ pc' = "release"
      /\ answer' \in Answers
      /\ UNCHANGED <<channel, sent, writes, param_count, declared_size, copied, args>>
  BY DEF Handle, Inv, Answers
<1>1. \A i \in 0..(param_count - 1) :
        OffsetOf(copy, i)' = OffsetOf(copy, i) /\ SizeOf(copy, i)' = SizeOf(copy, i)
  <2>1. \A i \in 0..(param_count - 1) : /\ Info(i) + 1 \in 0..(Info(param_count + 1) - 1)
                                       /\ Info(i) + 2 \in 0..(Info(param_count + 1) - 1)
    BY <1>0 DEF Checked, Info, HeaderSize, InfoSize
  <2> QED
    BY <2>1, HandlerKeepsLayout DEF OffsetOf, SizeOf
<1>2. TypeOK'
  <2>1. \A a \in DOMAIN copy' : copy'[a] \in Word
    BY HandlerKeepsLayout, LayoutFacts DEF Inv, TypeOK
  <2> QED
    BY <1>0, <2>1, HandlerKeepsLayout DEF Inv, TypeOK, Steps
<1>3. Checked'
  <2>1. Count \in 0..(Info(param_count + 1) - 1)
    BY <1>0 DEF Checked, Count, Info, HeaderSize, InfoSize
  <2> QED
    BY <1>0, <2>1, HandlerKeepsLayout DEF Checked
<1>4. Placed'
  BY <1>0, <1>1 DEF Placed
<1> QED
  BY <1>0, <1>2, <1>3, <1>4 DEF Inv, SizesBounded

LEMMA ReleaseStep == ASSUME Inv, WriteBack, ChannelOfWords' PROVE Inv'
<1>1. /\ args' = {} /\ copy' = Nothing /\ pc' = "answered" /\ DOMAIN Nothing = {}
      /\ UNCHANGED <<sent, writes, param_count, declared_size, copied, answer>>
  BY DEF WriteBack, Nothing
<1> QED
  BY <1>1 DEF Inv, TypeOK, ChannelOfWords, Steps, SizesBounded

-----------------------------------------------------------------------------
(* A message that nobody disturbs.  The broker sees what the caller laid     *)
(* out, so every check passes.                                               *)
LEMMA LaidOutFacts ==
  ASSUME Inv, LaidOut(channel, sent, Len(sent))
  PROVE  /\ Len(sent) \in 1..MaxParams /\ Len(sent) \in Nat /\ channel[Count] = Len(sent)
         /\ OffsetOf(channel, Len(sent)) \in Nat
         /\ Info(Len(sent) + 1) \in Nat
         /\ Info(Len(sent) + 1) <= OffsetOf(channel, Len(sent))
         /\ OffsetOf(channel, Len(sent)) <= ChannelSize
         /\ \A i \in 1..Len(sent) :
              /\ sent[i].type \in {WCHAR_TYPE, UINT32_TYPE, INOUTPTR_TYPE}
              /\ sent[i].size \in Nat /\ sent[i].offset \in Nat
              /\ Info(Len(sent) + 1) <= sent[i].offset
              /\ sent[i].offset + sent[i].size <= OffsetOf(channel, Len(sent))
              /\ sent[i].type = UINT32_TYPE => sent[i].size = 1
              /\ sent[i].type = INOUTPTR_TYPE => channel[IsInOut] = 1
<1>1. Len(sent) \in 1..MaxParams /\ Len(sent) \in Nat
  BY LayoutFacts DEF LaidOut, Fields
<1>2. OffsetOf(channel, Len(sent)) \in Nat
  <2>1. Info(Len(sent)) + 1 \in Cells
    BY <1>1, LayoutFacts DEF Cells, Info, HeaderSize, InfoSize
  <2> QED
    BY <2>1, LayoutFacts DEF OffsetOf, Word, Inv, TypeOK
<1>3. ASSUME NEW i \in 1..Len(sent) PROVE sent[i] \in SentParams
  BY DEF Inv, TypeOK
<1> QED
  BY <1>1, <1>2, <1>3, LayoutFacts DEF LaidOut, Fields, Apart, SentParams

LEMMA BrokerView ==
  ASSUME Inv, CallInv, Undisturbed, pc \in {"recheck", "verify", "args", "handle"}
  PROVE  /\ LaidOut(channel, sent, Len(sent)) /\ param_count = Len(sent)
         /\ declared_size = OffsetOf(channel, Len(sent))
         /\ DOMAIN copy = 0..(declared_size - 1)
         /\ \A a \in 0..(declared_size - 1) : copy[a] = channel[a]
         /\ copy[Count] = Len(sent) /\ copy[IsInOut] = channel[IsInOut]
         /\ OffsetOf(copy, Len(sent)) = declared_size
         /\ \A i \in 1..Len(sent) : /\ TypeOf(copy, i - 1) = sent[i].type
                                    /\ OffsetOf(copy, i - 1) = sent[i].offset
                                    /\ SizeOf(copy, i - 1) = sent[i].size
<1>1. /\ LaidOut(channel, sent, Len(sent)) /\ param_count = Len(sent)
      /\ declared_size = OffsetOf(channel, Len(sent))
      /\ \A a \in DOMAIN copy : copy[a] = channel[a]
  BY DEF CallInv, Counted, Sized, Copying
<1>2. DOMAIN copy = 0..(declared_size - 1)
  BY DEF Inv, SizesBounded, Checked
<1>3. \A a \in 0..(Info(Len(sent) + 1) - 1) : a \in DOMAIN copy
  BY <1>1, <1>2, LaidOutFacts
<1>4. /\ Count \in 0..(Info(Len(sent) + 1) - 1) /\ IsInOut \in 0..(Info(Len(sent) + 1) - 1)
      /\ \A i \in 0..Len(sent) : /\ Info(i) \in 0..(Info(Len(sent) + 1) - 1)
                                 /\ Info(i) + 1 \in 0..(Info(Len(sent) + 1) - 1)
                                 /\ Info(i) + 2 \in 0..(Info(Len(sent) + 1) - 1)
  BY <1>1, LaidOutFacts DEF Count, IsInOut, Info, HeaderSize, InfoSize
<1>5. \A i \in 0..Len(sent) : /\ TypeOf(copy, i) = TypeOf(channel, i)
                              /\ OffsetOf(copy, i) = OffsetOf(channel, i)
                              /\ SizeOf(copy, i) = SizeOf(channel, i)
  BY <1>1, <1>3, <1>4 DEF TypeOf, OffsetOf, SizeOf
<1>6. copy[Count] = Len(sent) /\ copy[IsInOut] = channel[IsInOut]
  BY <1>1, <1>3, <1>4, LaidOutFacts
<1>7. Len(sent) \in 0..Len(sent) /\ \A i \in 1..Len(sent) : i - 1 \in 0..Len(sent)
  BY <1>1, LaidOutFacts
<1>8. \A i \in 1..Len(sent) : /\ TypeOf(channel, i - 1) = sent[i].type
                              /\ OffsetOf(channel, i - 1) = sent[i].offset
                              /\ SizeOf(channel, i - 1) = sent[i].size
  BY <1>1 DEF LaidOut, Fields
<1> QED
  BY <1>1, <1>2, <1>5, <1>6, <1>7, <1>8

LEMMA RangeHolds ==
  ASSUME Inv, Undisturbed, LaidOut(channel, sent, Len(sent)), param_count = Len(sent),
         declared_size = OffsetOf(channel, Len(sent))
  PROVE  SizeWithinRange(MinDeclaredSize(param_count), declared_size)
<1>1. MinDeclaredSize(param_count) = Info(Len(sent) + 1)
  BY LaidOutFacts, SizeOfInfos
<1>2. 5 <= Info(Len(sent) + 1)
  BY LaidOutFacts DEF Info, HeaderSize, InfoSize
<1>3. ChannelSize >= Info(Len(sent) + 1)
  BY LaidOutFacts, LayoutFacts
<1> QED
  BY <1>1, <1>2, <1>3, LaidOutFacts, LayoutFacts DEF SizeWithinRange, HeaderSize, InfoSize

LEMMA CopyHolds ==
  ASSUME Inv, CallInv, Undisturbed, pc = "recheck" PROVE CopyConsistent
<1>1. Len(sent) \in 1..MaxParams
  BY BrokerView, LaidOutFacts
<1> QED
  BY <1>1, BrokerView, RangeHolds DEF CopyConsistent, ActualBufferSize

LEMMA PlacesHold ==
  ASSUME Inv, CallInv, Undisturbed, pc = "verify", NEW i \in Indices PROVE WellPlaced(i)
<1> DEFINE offset == OffsetOf(copy, i)
           size == SizeOf(copy, i)
<1>1. i \in Nat /\ i + 1 \in 1..Len(sent) /\ (i + 1) - 1 = i
  BY BrokerView, LaidOutFacts DEF Indices
<1>2. /\ offset \in Nat /\ size \in Nat /\ TypeOf(copy, i) \in {1, 2, 3}
      /\ Info(Len(sent) + 1) <= offset /\ offset + size <= declared_size
  BY <1>1, BrokerView, LaidOutFacts DEF WCHAR_TYPE, UINT32_TYPE, INOUTPTR_TYPE
<1>3. /\ declared_size \in Nat /\ Base + declared_size < Modulus
      /\ MinDeclaredSize(param_count) = Info(Len(sent) + 1) /\ Info(Len(sent) + 1) \in Nat
  BY BrokerView, LaidOutFacts, SizeOfInfos, LayoutFacts
<1> HIDE DEF offset, size
<1>4. Plus(Base, offset) = Base + offset /\ Plus(Base + offset, size) = Base + offset + size
  <2>1. /\ Base + offset \in Nat /\ Base + offset < Modulus
        /\ Base + offset + size \in Nat /\ Base + offset + size < Modulus
    BY <1>2, <1>3, LayoutFacts
  <2> QED
    BY <2>1, SmallSum DEF Plus
<1>5. /\ Base + offset # 0 /\ Base + offset >= Base
      /\ Base + offset >= Base + MinDeclaredSize(param_count)
      /\ Base + offset <= Base + declared_size
      /\ Base + offset + size >= Base + offset /\ Base + offset + size <= Base + declared_size
  BY <1>2, <1>3, LayoutFacts
<1>6. INVALID_TYPE < TypeOf(copy, i) /\ TypeOf(copy, i) < LAST_TYPE
  BY <1>2 DEF INVALID_TYPE, LAST_TYPE
<1> QED
  BY <1>4, <1>5, <1>6 DEF WellPlaced, offset, size

LEMMA ArgsFit ==
  ASSUME Inv, CallInv, Undisturbed, pc = "args", NEW i \in Indices PROVE ArgFits(i)
<1>1. i + 1 \in 1..Len(sent) /\ (i + 1) - 1 = i
  BY BrokerView, LaidOutFacts DEF Indices
<1> QED
  BY <1>1, BrokerView, LaidOutFacts DEF ArgFits

LEMMA Accepted ==
  ASSUME Inv, CallInv, [Next]_vars, Undisturbed, pc' = "answered", pc # "answered"
  PROVE  pc = "release"
<1>1. CASE CheckRange
  <2>1. SizeWithinRange(MinDeclaredSize(param_count), declared_size)
    BY <1>1, RangeHolds DEF CheckRange, CallInv, Counted, Sized
  <2> QED
    BY <1>1, <2>1 DEF CheckRange
<1>2. CASE RecheckCopy
  BY <1>2, CopyHolds DEF RecheckCopy
<1>3. CASE VerifyParams
  BY <1>3, PlacesHold DEF VerifyParams
<1>4. CASE GetArgs
  BY <1>4, ArgsFit DEF GetArgs
<1>5. CASE CrossCall \/ UNCHANGED vars \/ ReadCount \/ ReadDeclaredSize \/ CopyWord \/ Handle
  BY <1>5 DEF CrossCall, StartCall, PackParam, vars, ReadCount, ReadDeclaredSize, CopyWord, Handle
<1>6. CASE \E a \in Cells, v \in OtherValues : OtherThreadWrites(a, v)
  BY <1>6 DEF OtherThreadWrites
<1>7. CASE WriteBack
  BY <1>7 DEF WriteBack
<1> QED
  BY <1>1, <1>2, <1>3, <1>4, <1>5, <1>6, <1>7 DEF Next, InvokeCallback

LEMMA CallStart == Init => CallInv
  BY DEF Init, CallInv, Undisturbed, Counted, Sized, Copying

(* The steps up to the handler keep what the broker has of the message.      *)
LEMMA CallReads ==
  ASSUME Inv, CallInv, ReadCount \/ ReadDeclaredSize \/ CheckRange \/ CopyWord
  PROVE  CallInv'
<1>0. UNCHANGED <<channel, sent, writes>>
  BY DEF ReadCount, ReadDeclaredSize, CheckRange, CopyWord
<1>1. pc \in {"count", "size", "range", "copy"}
      /\ pc' \in {"size", "range", "copy", "recheck", "answered"}
  BY DEF ReadCount, ReadDeclaredSize, CheckRange, CopyWord, Refuse
<1>2. CASE ~Undisturbed
  BY <1>0, <1>1, <1>2 DEF CallInv, Undisturbed
<1>3. CASE Undisturbed
  <2>1. Undisturbed' /\ LaidOut(channel, sent, Len(sent)) /\ LaidOut(channel, sent, Len(sent))'
    BY <1>0, <1>1, <1>3
    DEF CallInv, Counted, Sized, Copying, Undisturbed, LaidOut, Fields, Apart, Filled, TypeOf,
        OffsetOf, SizeOf
  <2>2. pc' # "answered"
    BY <1>1, <1>3, Accepted DEF Next, InvokeCallback
  <2>3. /\ pc # "count" => param_count = Len(sent)
        /\ pc \in {"range", "copy"} => declared_size = OffsetOf(channel, Len(sent))
        /\ pc = "copy" => \A a \in DOMAIN copy : copy[a] = channel[a]
    BY <1>1, <1>3 DEF CallInv, Counted, Sized, Copying
  <2>4. param_count' = Len(sent)
    BY <2>1, <2>3, LaidOutFacts DEF ReadCount, ReadDeclaredSize, CheckRange, CopyWord, readVars
  <2>5. pc' # "size" => declared_size' = OffsetOf(channel, Len(sent))
    <3>1. CASE ReadDeclaredSize
      <4>1. param_count = Len(sent) /\ channel[Count] = Len(sent)
        BY <2>1, <2>3, <3>1, LaidOutFacts DEF ReadDeclaredSize
      <4> QED
        BY <2>1, <3>1, <4>1, LaidOutFacts DEF ReadDeclaredSize, ActualBufferSize
    <3>2. CASE ReadCount
      BY <3>2 DEF ReadCount
    <3>3. CASE CheckRange \/ CopyWord
      BY <2>3, <3>3 DEF CheckRange, CopyWord, readVars
    <3> QED
      BY <3>1, <3>2, <3>3
  <2>6. pc' \in {"copy", "recheck"} => \A a \in DOMAIN copy' : copy'[a] = channel[a]
    <3>1. CASE CheckRange
      <4>1. copy' = copy /\ copy = Nothing /\ DOMAIN Nothing = {}
        BY <3>1 DEF CheckRange, readVars, Inv, SizesBounded, Nothing
      <4> QED
        BY <4>1
    <3>2. CASE CopyWord
      <4>1. /\ copy' = [a \in 0..copied |-> IF a = copied THEN channel[a] ELSE copy[a]]
            /\ copied \in Nat /\ DOMAIN copy = 0..(copied - 1)
        BY <3>2, LayoutFacts DEF CopyWord, Inv, TypeOK, SizesBounded
      <4>2. \A a \in 0..copied : a = copied \/ a \in DOMAIN copy
        BY <4>1
      <4> QED
        BY <2>3, <3>2, <4>1, <4>2 DEF CopyWord
    <3>3. CASE ReadCount \/ ReadDeclaredSize
      BY <3>3 DEF ReadCount, ReadDeclaredSize
    <3> QED
      BY <3>1, <3>2, <3>3
  <2>7. (OffsetOf(channel, Len(sent)))' = OffsetOf(channel, Len(sent)) /\ Len(sent)' = Len(sent)
    BY <1>0 DEF OffsetOf
  <2> QED
    BY <1>0, <1>1, <2>1, <2>2, <2>4, <2>5, <2>6, <2>7 DEF CallInv, Counted, Sized, Copying
<1> QED
  BY <1>2, <1>3

LEMMA CallChecks == ASSUME Inv, CallInv, RecheckCopy \/ VerifyParams \/ GetArgs PROVE CallInv'
<1>0. UNCHANGED <<channel, sent, writes, param_count, declared_size>>
  BY DEF RecheckCopy, VerifyParams, GetArgs
<1>1. pc \in {"recheck", "verify", "args"} /\ pc' \in {"verify", "args", "handle", "answered"}
  BY DEF RecheckCopy, VerifyParams, GetArgs, Refuse
<1>2. CASE ~Undisturbed
  BY <1>0, <1>1, <1>2 DEF CallInv, Undisturbed
<1>3. CASE Undisturbed
  <2>1. Undisturbed' /\ LaidOut(channel, sent, Len(sent))'
    BY <1>0, <1>1, <1>3
    DEF CallInv, Counted, Sized, Copying, Undisturbed, LaidOut, Fields, Apart, Filled, TypeOf,
        OffsetOf, SizeOf
  <2>2. pc' # "answered"
    BY <1>1, <1>3, Accepted DEF Next, InvokeCallback
  <2>3. copy' = copy
    BY <2>2 DEF RecheckCopy, VerifyParams, GetArgs, Refuse
  <2>4. \A a \in DOMAIN copy' : copy'[a] = channel'[a]
    BY <1>0, <1>1, <1>3, <2>3 DEF CallInv, Copying
  <2>5. ASSUME pc' = "handle", NEW i \in 1..Len(sent), sent[i].type = INOUTPTR_TYPE
        PROVE  i - 1 \in args'
    <3>1. pc = "args" /\ args' = {j \in Indices : Allocates(j)}
      BY <2>5 DEF RecheckCopy, VerifyParams, GetArgs, Refuse
    <3>2. i - 1 \in Indices
      BY <1>3, <3>1, BrokerView, LaidOutFacts DEF Indices
    <3>3. TypeOf(copy, i - 1) = INOUTPTR_TYPE
      BY <1>3, <2>5, <3>1, BrokerView
    <3> QED
      BY <3>1, <3>2, <3>3 DEF Allocates
  <2>6. param_count' = Len(sent)' /\ declared_size' = OffsetOf(channel, Len(sent))'
    BY <1>0, <1>1, <1>3 DEF CallInv, Counted, Sized, Copying, OffsetOf
  <2> QED
    BY <1>0, <1>1, <2>1, <2>2, <2>4, <2>5, <2>6 DEF CallInv, Counted, Sized, Copying
<1> QED
  BY <1>2, <1>3

LEMMA CallHandled == ASSUME Inv, CallInv, Handle PROVE CallInv'
<1>0. /\ pc = "handle" /\ pc' = "release"
      /\ UNCHANGED <<channel, sent, writes, param_count, declared_size>>
  BY DEF Handle
<1>1. CASE ~Undisturbed
  BY <1>0, <1>1 DEF CallInv, Undisturbed
<1>2. CASE Undisturbed
  <2>1. Undisturbed' /\ LaidOut(channel, sent, Len(sent))'
    BY <1>0, <1>2
    DEF CallInv, Counted, Sized, Copying, Undisturbed, LaidOut, Fields, Apart, Filled, TypeOf,
        OffsetOf, SizeOf
  <2>2. param_count' = Len(sent)' /\ declared_size' = OffsetOf(channel, Len(sent))'
    BY <1>0, <1>2 DEF CallInv, Counted, Sized, Copying, OffsetOf
  <2>3. ASSUME answer' = "ok", NEW a \in 0..(declared_size - 1)
        PROVE  copy'[a] = IF \E i \in 1..Len(sent) :
                                sent[i].type = INOUTPTR_TYPE /\ a \in AreaOf(sent[i])
                          THEN Out ELSE channel[a]
    <3>1. copy' = [b \in DOMAIN copy |->
             IF answer' # "invalid" /\ \E i \in args : TypeOf(copy, i) = INOUTPTR_TYPE /\ b \in Area(i)
             THEN Out ELSE copy[b]]
      BY DEF Handle
    <3>2. a \in DOMAIN copy /\ copy[a] = channel[a]
      BY <1>0, <1>2, BrokerView
    <3>3. ASSUME NEW i \in args, TypeOf(copy, i) = INOUTPTR_TYPE, a \in Area(i)
          PROVE  \E j \in 1..Len(sent) : sent[j].type = INOUTPTR_TYPE /\ a \in AreaOf(sent[j])
      <4>1. i + 1 \in 1..Len(sent) /\ (i + 1) - 1 = i
        <5>1. LaidOut(channel, sent, Len(sent)) /\ param_count = Len(sent)
          BY <1>0, <1>2, BrokerView
        <5>2. Len(sent) \in Nat
          BY <5>1, LaidOutFacts
        <5>3. i \in 0..(param_count - 1)
          BY <1>0, <3>3 DEF Inv
        <5> QED
          BY <5>1, <5>2, <5>3
      <4>2. sent[i + 1].type = INOUTPTR_TYPE /\ Area(i) = AreaOf(sent[i + 1])
        BY <1>0, <1>2, <3>3, <4>1, BrokerView DEF Area, AreaOf
      <4> QED
        BY <3>3, <4>1, <4>2
    <3>4. ASSUME NEW j \in 1..Len(sent), sent[j].type = INOUTPTR_TYPE, a \in AreaOf(sent[j])
          PROVE  \E i \in args : TypeOf(copy, i) = INOUTPTR_TYPE /\ a \in Area(i)
      <4>1. j - 1 \in args
        BY <1>0, <1>2, <3>4 DEF CallInv
      <4>2. TypeOf(copy, j - 1) = INOUTPTR_TYPE /\ Area(j - 1) = AreaOf(sent[j])
        BY <1>0, <1>2, <3>4, BrokerView DEF Area, AreaOf
      <4> QED
        BY <3>4, <4>1, <4>2
    <3>5. copy'[a] = IF \E i \in args : TypeOf(copy, i) = INOUTPTR_TYPE /\ a \in Area(i)
                     THEN Out ELSE channel[a]
      BY <2>3, <3>1, <3>2
    <3> QED
      BY <3>3, <3>4, <3>5
  <2>4. Handled'
    BY <1>0, <2>3 DEF Handled
  <2> QED
    BY <1>0, <2>1, <2>2, <2>4 DEF CallInv, Counted, Sized, Copying
<1> QED
  BY <1>1, <1>2

(* The caller's parameters lie apart, so what the handler left in one is not *)
(* taken for another.                                                        *)
LEMMA CallDelivered == ASSUME Inv, CallInv, WriteBack PROVE CallInv'
<1>0. /\ pc = "release" /\ pc' = "answered" /\ UNCHANGED <<sent, writes, answer, declared_size>>
  BY DEF WriteBack
<1>1. ASSUME Undisturbed, answer = "ok", NEW i \in 1..Len(sent), NEW a \in AreaOf(sent[i])
      PROVE  channel'[a] = IF sent[i].type = INOUTPTR_TYPE THEN Out ELSE In
  <2>1. /\ LaidOut(channel, sent, Len(sent)) /\ Handled
        /\ declared_size = OffsetOf(channel, Len(sent)) /\ param_count = Len(sent)
    BY <1>0, <1>1 DEF CallInv, Counted, Sized
  <2>2. a \in Cells /\ a \in 0..(declared_size - 1) /\ a < declared_size
    <3>1. /\ sent[i].offset \in Nat /\ sent[i].size \in Nat
          /\ sent[i].offset + sent[i].size <= declared_size
          /\ declared_size \in Nat /\ declared_size <= ChannelSize
      BY <2>1, LaidOutFacts
    <3>2. a \in sent[i].offset..(sent[i].offset + sent[i].size - 1)
      BY DEF AreaOf
    <3> QED
      BY <3>1, <3>2, LayoutFacts DEF Cells
  <2>3. channel[a] = In
    BY <1>1, <2>1 DEF LaidOut, Filled
  <2>4. ASSUME NEW j \in 1..Len(sent), a \in AreaOf(sent[j]) PROVE j = i
    <3>1. \A b \in 1..Len(sent) : \A c \in 1..(b - 1) :
            sent[c].offset + sent[c].size <= sent[b].offset
      BY <2>1 DEF LaidOut, Apart
    <3>2. i \in 1..(j - 1) \/ j \in 1..(i - 1) \/ i = j
      BY <2>1, LaidOutFacts
    <3>3. sent[i].offset \in Nat /\ sent[i].size \in Nat /\ sent[j].offset \in Nat /\ sent[j].size \in Nat
      BY <2>1, LaidOutFacts
    <3>4. a \in Nat /\ sent[i].offset <= a /\ a < sent[i].offset + sent[i].size
          /\ sent[j].offset <= a /\ a < sent[j].offset + sent[j].size
      <4>1. /\ a \in sent[i].offset..(sent[i].offset + sent[i].size - 1)
            /\ a \in sent[j].offset..(sent[j].offset + sent[j].size - 1)
        BY <1>1, <2>4 DEF AreaOf
      <4> DEFINE first == sent[i].offset
                 length == sent[i].size
                 other == sent[j].offset
                 size == sent[j].size
      <4>2. /\ first \in Nat /\ length \in Nat /\ other \in Nat /\ size \in Nat
            /\ a \in first..(first + length - 1) /\ a \in other..(other + size - 1)
        BY <3>3, <4>1
      <4> HIDE DEF first, length, other, size
      <4>3. a \in Nat /\ first <= a /\ a < first + length /\ other <= a /\ a < other + size
        BY <4>2
      <4> QED
        BY <4>3 DEF first, length, other, size
    <3>5. CASE i \in 1..(j - 1)
      <4>1. sent[i].offset + sent[i].size <= sent[j].offset
        BY <3>1, <3>5
      <4> QED
        BY <3>3, <3>4, <4>1
    <3>6. CASE j \in 1..(i - 1)
      <4>1. sent[j].offset + sent[j].size <= sent[i].offset
        BY <3>1, <3>6
      <4> QED
        BY <3>3, <3>4, <4>1
    <3> QED
      BY <3>2, <3>5, <3>6
  <2>5. copy[a] = IF sent[i].type = INOUTPTR_TYPE THEN Out ELSE In
    BY <1>1, <2>1, <2>2, <2>3, <2>4 DEF Handled
  <2>6. CASE copy[IsInOut] = 1
    BY <1>1, <2>2, <2>5, <2>6 DEF WriteBack
  <2>7. CASE copy[IsInOut] # 1
    <3>1. IsInOut \in 0..(declared_size - 1) /\ IsInOut \in 0..(Info(Len(sent) + 1) - 1)
      BY <2>1, LaidOutFacts DEF IsInOut, Info, HeaderSize, InfoSize
    <3>2. ASSUME NEW j \in 1..Len(sent) PROVE IsInOut \notin AreaOf(sent[j])
      <4> DEFINE first == sent[j].offset
                 behind == Info(Len(sent) + 1)
      <4>1. first \in Nat /\ behind \in Nat /\ behind <= first
        BY <2>1, LaidOutFacts
      <4>2. IsInOut \in Nat /\ IsInOut < behind
        BY <3>1, <4>1 DEF IsInOut
      <4> HIDE DEF first, behind
      <4>3. IsInOut < first /\ IsInOut \in Nat
        BY <4>1, <4>2
      <4>4. \A b \in AreaOf(sent[j]) : b >= first
        BY DEF AreaOf, first
      <4> QED
        BY <4>1, <4>3, <4>4
    <3>3. copy[IsInOut] = channel[IsInOut]
      BY <1>1, <2>1, <3>1, <3>2 DEF Handled
    <3>4. sent[i].type # INOUTPTR_TYPE
      BY <2>1, <2>7, <3>3, LaidOutFacts
    <3>5. channel' = channel
      BY <2>7 DEF WriteBack
    <3> QED
      BY <2>3, <3>4, <3>5
  <2> QED
    BY <2>6, <2>7
<1>2. InOutDelivered'
  BY <1>0, <1>1 DEF InOutDelivered, Undisturbed, SentArea, AreaOf
<1> QED
  BY <1>0, <1>2 DEF CallInv, Counted, Sized, Copying

LEMMA CallStep == ASSUME Inv, CallInv, [Next]_vars PROVE CallInv'
<1>1. CASE CrossCall
  <2>1. pc' \in {"pack", "count", "unsent"} /\ writes' = writes
    BY <1>1 DEF CrossCall, StartCall, PackParam
  <2>2. CASE pc' = "pack"
    <3>1. Undisturbed
      BY <1>1, <2>2 DEF CrossCall, PackParam, StartCall, CallInv, Packing
    <3>2. LaidOut(channel', sent', channel'[Count]) /\ Len(sent') < channel'[Count]
      BY <1>1, <2>2, CallerStep
    <3>3. Packing'
      BY <2>1, <3>1, <3>2 DEF Packing, Undisturbed
    <3> QED
      BY <2>2, <3>3 DEF CallInv, Counted, Sized, Copying
  <2>3. CASE pc' = "count"
    BY <1>1, <2>3, CallerStep DEF CallInv, Counted, Sized, Copying
  <2>4. CASE pc' = "unsent"
    BY <2>4 DEF CallInv, Counted, Sized, Copying
  <2> QED
    BY <2>1, <2>2, <2>3, <2>4
<1>2. CASE \E a \in Cells, v \in OtherValues : OtherThreadWrites(a, v)
  <2>1. pc' = pc /\ pc \notin {"idle", "pack"} /\ writes' # 0
    BY <1>2 DEF OtherThreadWrites, Inv, TypeOK
  <2> QED
    BY <2>1 DEF CallInv, Undisturbed
<1>3. CASE UNCHANGED vars
  BY <1>3
  DEF vars, readVars, CallInv, Packing, Undisturbed, LaidOut, Fields, Apart, Filled, TypeOf,
      OffsetOf, SizeOf, Handled, InOutDelivered, SentArea
<1> QED
  BY <1>1, <1>2, <1>3, CallReads, CallChecks, CallHandled, CallDelivered DEF Next, InvokeCallback

LEMMA InvStep == ASSUME Inv, CallInv, [Next]_vars PROVE Inv'
<1>1. ChannelOfWords'
  BY ChannelStep
<1>2. CASE InvokeCallback
  BY <1>1, <1>2, SizeStep, CopyStep, RecheckStep, VerifyStep, HandleStep, ReleaseStep
  DEF InvokeCallback
<1>3. CASE UNCHANGED vars
  BY <1>3 DEF vars, readVars, Inv, TypeOK, SizesBounded, Checked, Placed, OffsetOf, SizeOf
<1> QED
  BY <1>1, <1>2, <1>3, TargetStep DEF Next

LEMMA Invariant == Spec => [](Inv /\ CallInv)
<1>1. Init => Inv /\ CallInv
  BY Start, CallStart
<1>2. Inv /\ CallInv /\ [Next]_vars => (Inv /\ CallInv)'
  BY InvStep, CallStep
<1> QED
  BY <1>1, <1>2, PTL DEF Spec

-----------------------------------------------------------------------------
(* Whatever another thread of the target writes, and however often, the      *)
(* parameters the broker works with lie in its copy, behind the ParamInfos   *)
(* and before the end (crosscall_server.cc:153).                             *)
THEOREM ParametersStayInBounds == Spec => []ParametersInBounds
<1>1. Inv => ParametersInBounds
  <2> SUFFICES ASSUME Inv, pc \in {"args", "handle", "release"} PROVE ParametersInBounds
    BY DEF ParametersInBounds
  <2>1. Checked /\ Placed
    BY DEF Inv
  <2> QED
    BY <2>1 DEF ParametersInBounds, Checked, Placed, Indices
<1> QED
  BY <1>1, Invariant, PTL

(* The checks read only ParamInfos that were copied, though sizes wrap, and  *)
(* nothing is left of a call that was answered (crosscall_server.cc:140,     *)
(* sharedmem_ipc_server.cc:221).                                             *)
THEOREM ChecksStayInTheCopy == Spec => []CopyInv
<1>1. Inv => CopyInv
  <2> SUFFICES ASSUME Inv PROVE ChecksReadTheCopy /\ NoArgumentLeft
    BY DEF Inv, CopyInv
  <2>1. ASSUME \/ pc = "verify"
               \/ pc = "recheck" /\ param_count \in 1..MaxParams,
               NEW i \in 0..param_count
        PROVE  Info(i) + 2 \in DOMAIN copy
    <3>1. /\ DOMAIN copy = 0..(declared_size - 1) /\ Info(param_count + 1) <= declared_size
          /\ param_count \in 1..MaxParams /\ declared_size \in Nat
      BY <2>1, SizeOfInfos, LayoutFacts
      DEF Inv, SizesBounded, Checked, SizeWithinRange, TypeOK, Word
    <3> QED
      BY <3>1 DEF Info, HeaderSize, InfoSize
  <2> QED
    BY <2>1 DEF ChecksReadTheCopy, NoArgumentLeft, Inv
<1> QED
  BY <1>1, Invariant, PTL

(* A handler never changes the count, the types, the offsets or the sizes it *)
(* was given (sharedmem_ipc_server.cc:292).                                  *)
THEOREM HandlersKeepTheLayout == Spec => LayoutStable
<1>1. Inv /\ [Next]_vars =>
        [pc = "handle" => \A a \in 0..(Info(copy[Count] + 1) - 1) : copy'[a] = copy[a]]_vars
  <2> SUFFICES ASSUME Inv, [Next]_vars, pc = "handle"
               PROVE  \A a \in 0..(Info(copy[Count] + 1) - 1) : copy'[a] = copy[a]
    OBVIOUS
  <2>1. CASE Handle
    BY <2>1, HandlerKeepsLayout DEF Inv, Checked
  <2>2. CASE copy' = copy
    BY <2>2
  <2>3. Handle \/ copy' = copy
    BY DEF Next, CrossCall, StartCall, PackParam, OtherThreadWrites, InvokeCallback, ReadCount,
           ReadDeclaredSize, CheckRange, CopyWord, RecheckCopy, VerifyParams, GetArgs,
           WriteBack, readVars, vars
  <2> QED
    BY <2>1, <2>2, <2>3
<1> QED
  BY <1>1, Invariant, PTL DEF Spec, LayoutStable

(* A message that nobody disturbs passes every check, its handler finds what *)
(* the caller laid out, and the caller what the handler left in the in/out   *)
(* parameters, whatever the sizes of its parameters, of the channel and of   *)
(* words (crosscall_params.h:213, crosscall_server.cc:120).                  *)
THEOREM UndisturbedIsServed == Spec => UndisturbedServed
<1>1. Inv /\ CallInv => UndisturbedCopied
  <2> SUFFICES ASSUME Inv, CallInv, Undisturbed, pc = "handle" PROVE UndisturbedCopied
    BY DEF UndisturbedCopied
  <2>1. ASSUME NEW i \in 1..Len(sent), NEW a \in SentArea(i) PROVE copy[a] = In
    <3>1. LaidOut(channel, sent, Len(sent)) /\ a \in AreaOf(sent[i])
      BY BrokerView DEF SentArea, AreaOf
    <3>2. a \in 0..(declared_size - 1)
      <4>1. /\ sent[i].offset \in Nat /\ sent[i].size \in Nat /\ declared_size \in Nat
            /\ sent[i].offset + sent[i].size <= declared_size
        BY <3>1, BrokerView, LaidOutFacts
      <4>2. a \in sent[i].offset..(sent[i].offset + sent[i].size - 1)
        BY <3>1 DEF AreaOf
      <4> QED
        BY <4>1, <4>2
    <3>3. channel[a] = In
      BY <3>1 DEF LaidOut, Filled
    <3> QED
      BY <3>2, <3>3, BrokerView
  <2> QED
    BY <2>1, BrokerView DEF UndisturbedCopied
<1>2. Inv /\ CallInv => InOutDelivered
  BY DEF CallInv, InOutDelivered
<1>3. Inv /\ CallInv /\ [Next]_vars => [Undisturbed /\ pc' = "answered" => pc = "release"]_vars
  <2> SUFFICES ASSUME Inv, CallInv, Next, Undisturbed, pc' = "answered" PROVE pc = "release"
    OBVIOUS
  <2>1. pc # "answered"
    BY DEF Next, CrossCall, StartCall, PackParam, OtherThreadWrites, InvokeCallback, ReadCount,
           ReadDeclaredSize, CheckRange, CopyWord, RecheckCopy, VerifyParams, GetArgs, Handle,
           WriteBack
  <2> QED
    BY <2>1, Accepted
<1> QED
  BY <1>1, <1>2, <1>3, Invariant, PTL DEF Spec, UndisturbedServed
================================================================================
