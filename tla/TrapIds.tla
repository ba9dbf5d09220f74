-------------------------------- MODULE TrapIds --------------------------------
(***************************************************************************)
(* What a registry of traps promises the policies that are compiled        *)
(* against it (bpf_dsl::TrapRegistry): a handler, with its argument and    *)
(* whether it is safe, has one identifier from the first time it is added, *)
(* and the handler a filter names by an identifier is the one that runs.   *)
(***************************************************************************)
EXTENDS Naturals, Sequences

CONSTANT Keys    \* the handlers that are ever added

VARIABLES
  keys,     \* the handlers that were added, an identifier being a position
  answer,   \* the identifier given for the last one, 0 before
  ran       \* the identifier and the handler of the last trap, <<>> before

idVars == <<keys, answer, ran>>

Ids(ks) == 1..Len(ks)
WithKey(ks, key) == IF \E id \in Ids(ks) : ks[id] = key THEN ks ELSE Append(ks, key)
IdOf(ks, key) == CHOOSE id \in Ids(ks) : ks[id] = key

IdsInit == keys = <<>> /\ answer = 0 /\ ran = <<>>

Register(key) ==
  /\ keys' = WithKey(keys, key)
  /\ answer' \in Ids(keys') /\ keys'[answer'] = key
  /\ UNCHANGED ran

RunHandler(id) ==
  /\ ran' = <<id, keys[id]>>
  /\ UNCHANGED <<keys, answer>>

IdsNext == (\E key \in Keys : Register(key)) \/ (\E id \in Ids(keys) : RunHandler(id))

IdsSpec == IdsInit /\ [][IdsNext]_idVars
================================================================================
