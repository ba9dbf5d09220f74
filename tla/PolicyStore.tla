------------------------------ MODULE PolicyStore ------------------------------
(***************************************************************************)
(* LowLevelPolicy::Done: the rules of all services are packed into one     *)
(* piece of memory that is then copied to the target.  The opcodes of a    *)
(* service follow each other in a PolicyBuffer of its own, these buffers   *)
(* grow from the low end of the memory, and the strings the opcodes refer  *)
(* to are written from the high end downwards.                             *)
(*                                                                         *)
(* A rule is the sequence of its opcodes, each given by the bytes of its   *)
(* string, 0 when it has none.  Addresses are offsets from                 *)
(* policy_store_->data; an area written has the number of the rule and of  *)
(* the opcode it was written for.                                          *)
(***************************************************************************)
EXTENDS Naturals, Sequences

CONSTANTS
  NumServices,    \* services 0..NumServices - 1 have rules
  RuleSizes,          \* rules a caller may add, sequences of string sizes
  DataSizes,      \* sizes of the memory
  MaxNodes,       \* bound: rules added
  OpcodeSize,     \* sizeof(PolicyOpcode)
  CountSize       \* sizeof(PolicyBuffer) without its first opcode

(* An opcode holds pointers, the count is a size_t: opcodes are aligned as   *)
(* the count is, and the one's size is a multiple of the other's.            *)
ASSUME SizesAssumption ==
  /\ OpcodeSize \in Nat \ {0} /\ CountSize \in Nat \ {0}
  /\ OpcodeSize % CountSize = 0
  /\ NumServices \in Nat /\ DataSizes \subseteq Nat /\ RuleSizes \subseteq Seq(Nat)

Services == 0..(NumServices - 1)
BufferSize == CountSize + OpcodeSize

VARIABLES
  nodes,           \* rules_ of the LowLevelPolicy
  data_size,       \* data_size of the PolicyGlobal
  status,          \* "adding" rules, "packing" (in Done), or what Done returned
  todo,            \* nodes Done has still to pack
  service,         \* service whose rules are packed
  current_buffer,  \* its PolicyBuffer
  svc_opcode_count,
  buffer_end,      \* strings are written below this address
  avail_size,
  entry,           \* the buffers of the services
  opcodes,         \* what Done has written, as intervals: buffers of opcodes
  strings          \* and strings

givenVars == <<nodes, data_size>>
packVars == <<todo, service, current_buffer, svc_opcode_count, buffer_end, avail_size,
              entry, opcodes, strings>>
storeVars == <<givenVars, status, packVars>>

RuleNodes == [service : Services, sizes : RuleSizes]
Area(id, low, size) == [id |-> id, low |-> low, high |-> low + size]
(* The bytes of the first i strings, and of all.                             *)
UpTo(sizes) ==
  LET sum[i \in 0..Len(sizes)] == IF i = 0 THEN 0 ELSE sum[i - 1] + sizes[i] IN sum
Total(sizes) == UpTo(sizes)[Len(sizes)]

StoreTypeOK ==
  /\ nodes \in Seq(RuleNodes) /\ todo \subseteq 1..Len(nodes)
  /\ data_size \in DataSizes
  /\ status \in {"adding", "packing", "true", "false"}
  /\ service \in Services \union {NumServices}
  /\ current_buffer \in Nat /\ svc_opcode_count \in Nat
  /\ buffer_end \in Nat /\ avail_size \in 0..data_size
  /\ \A s \in DOMAIN entry : s \in Services /\ entry[s] \in Nat
  /\ \A r \in opcodes \union strings : r.low \in Nat /\ r.high \in Nat /\ r.low <= r.high

StoreInit ==
  /\ nodes = <<>>
  /\ data_size \in DataSizes
  /\ status = "adding"
  /\ todo = {}
  /\ service = NumServices
  /\ current_buffer = 0
  /\ svc_opcode_count = 0
  /\ buffer_end = 0
  /\ avail_size = 0
  /\ entry = <<>>
  /\ opcodes = {}
  /\ strings = {}

AddNode(node) ==
  /\ status = "adding" /\ Len(nodes) < MaxNodes
  /\ nodes' = Append(nodes, node)
  /\ UNCHANGED <<data_size, status, packVars>>

(* The map Done sorts the rules into is walked by service, and the rules of  *)
(* a service in the order they were added.                                   *)
IsNext(i) ==
  /\ status = "packing" /\ i \in todo
  /\ \A j \in todo :
       \/ nodes[i].service < nodes[j].service
       \/ nodes[i].service = nodes[j].service /\ i <= j

BeginPacking ==
  /\ status = "adding"
  /\ status' = "packing"
  /\ todo' = DOMAIN nodes
  /\ buffer_end' = data_size
  /\ avail_size' = data_size
  /\ UNCHANGED <<givenVars, service, current_buffer, svc_opcode_count, entry, opcodes, strings>>

(* Mutant: the unit of the head is forgotten.                                *)
NextBufferHeadless(buffer, count) ==
  buffer + BufferSize * ((count * OpcodeSize) \div BufferSize)

(* The size of a PolicyBuffer in units of PolicyBuffer, rounded down, and    *)
(* one more.                                                                 *)
NextBuffer(buffer, count) ==
  buffer + BufferSize * ((count * OpcodeSize) \div BufferSize + 1)

(* The loop enters the rules of a service, leaving those of another one.     *)
EnterService(i) ==
  /\ IsNext(i) /\ nodes[i].service # service
  /\ current_buffer' = IF service = NumServices THEN current_buffer
                       ELSE NextBuffer(current_buffer, svc_opcode_count)
  /\ service' = nodes[i].service
  /\ entry' = [s \in DOMAIN entry \union {service'} |->
                 IF s = service' THEN current_buffer' ELSE entry[s]]
  /\ svc_opcode_count' = 0
  /\ UNCHANGED <<givenVars, status, todo, buffer_end, avail_size, opcodes, strings>>

(* RebindCopy: the opcodes of a rule behind those of the rules before it,    *)
(* the strings one below the other from buffer_end.                          *)
OpcodeArea(i) ==
  Area(<<i, 0>>, current_buffer + CountSize + svc_opcode_count * OpcodeSize,
       Len(nodes[i].sizes) * OpcodeSize)
StringAreas(i) ==
  LET sizes == nodes[i].sizes IN
  {Area(<<i, k>>, buffer_end - UpTo(sizes)[k], sizes[k]) : k \in DOMAIN sizes}

Used(i) == Len(nodes[i].sizes) * OpcodeSize + Total(nodes[i].sizes)
Fits(i) == Used(i) <= avail_size

(* What a rule used, opcodes and strings alike, is taken off the room that   *)
(* is left and off the end of the memory.                                    *)
PackRule(i) ==
  /\ IsNext(i) /\ nodes[i].service = service
  /\ Fits(i)
  /\ opcodes' = opcodes \union {OpcodeArea(i)}
  /\ strings' = strings \union {a \in StringAreas(i) : a.low < a.high}
  /\ buffer_end' = buffer_end - Used(i)
  /\ avail_size' = avail_size - Used(i)
  /\ svc_opcode_count' = svc_opcode_count + Len(nodes[i].sizes)
  /\ todo' = todo \ {i}
  /\ UNCHANGED <<givenVars, status, service, current_buffer, entry>>

(* No room: Done returns false, with the memory half written.                *)
RunOut(i) ==
  /\ IsNext(i) /\ nodes[i].service = service
  /\ ~Fits(i)
  /\ status' = "false"
  /\ UNCHANGED <<givenVars, packVars>>

Finish ==
  /\ status = "packing" /\ todo = {}
  /\ status' = "true"
  /\ UNCHANGED <<givenVars, packVars>>

StoreNext ==
  \/ \E n \in RuleNodes : AddNode(n)
  \/ BeginPacking
  \/ \E i \in todo : EnterService(i) \/ PackRule(i) \/ RunOut(i)
  \/ Finish

StoreSpec == StoreInit /\ [][StoreNext]_storeVars

-----------------------------------------------------------------------------
Disjoint(a, b) == a.high <= b.low \/ b.high <= a.low
Areas == opcodes \union strings

(* The opcodes, and the bytes of strings, of the rules in S.                 *)
OpcodesOf(S) ==
  Total([i \in DOMAIN nodes |-> IF i \in S THEN Len(nodes[i].sizes) ELSE 0])
StringsOf(S) ==
  Total([i \in DOMAIN nodes |-> IF i \in S THEN Total(nodes[i].sizes) ELSE 0])
TotalOpcodes == OpcodesOf(DOMAIN nodes)
TotalStrings == StringsOf(DOMAIN nodes)
Needed(factor) ==
  factor * TotalOpcodes * OpcodeSize + TotalStrings + NumServices * BufferSize

(* The opcodes of one service do not run into the buffer of the next, whose  *)
(* count of opcodes is its first field: rounding the size down and adding    *)
(* one unit is enough (policy_low_level.cc:116).                             *)
BuffersApart ==
  \A s, t \in DOMAIN entry :
    s < t => \A a \in opcodes : a.low >= entry[t] \/ a.high <= entry[t]

(* In a memory that holds the opcodes twice, the strings and the heads of    *)
(* the buffers, what Done writes stays inside and nothing overlaps.          *)
LayoutWithRoom ==
  data_size >= Needed(2) =>
    /\ status # "false"
    /\ \A a \in Areas : a.high <= data_size
    /\ \A a, b \in Areas : a = b \/ Disjoint(a, b)

(* Opcodes never overlap opcodes, nor strings strings, however little room   *)
(* there was.                                                                *)
SameKindApart ==
  /\ \A a, b \in opcodes : a = b \/ Disjoint(a, b)
  /\ \A a, b \in strings : a = b \/ Disjoint(a, b)

(* Every rule that was added is packed when Done returns true, with all its  *)
(* opcodes and strings, behind the head of the buffer of its service.        *)
Packed(i) ==
  LET node == nodes[i] IN
  /\ \E a \in opcodes : /\ a.id = <<i, 0>>
                        /\ a.low >= entry[node.service] + CountSize
                        /\ a.high = a.low + Len(node.sizes) * OpcodeSize
  /\ \A k \in DOMAIN node.sizes :
       node.sizes[k] > 0 =>
         \E a \in strings : a.id = <<i, k>> /\ a.high = a.low + node.sizes[k]

NothingDropped ==
  status = "true" =>
    /\ DOMAIN entry = {nodes[i].service : i \in DOMAIN nodes}
    /\ \A i \in DOMAIN nodes : Packed(i)

(* "they all end up nicely packed in the policy_store_"                      *)
(* (policy_low_level.cc:69): when Done returns true nothing overlaps.        *)
NicelyPacked == status = "true" => \A a, b \in Areas : a = b \/ Disjoint(a, b)

(* The packed policies: no buffer runs into the next one, opcodes keep off   *)
(* opcodes and strings off strings, with room for twice the opcodes nothing  *)
(* overlaps at all, and no rule is dropped (policy_low_level.cc:69).         *)
StoreInv ==
  /\ StoreTypeOK
  /\ BuffersApart /\ LayoutWithRoom /\ SameKindApart
  /\ NothingDropped
================================================================================
