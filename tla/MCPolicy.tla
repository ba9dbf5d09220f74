------------------------------- MODULE MCPolicy -------------------------------
(* Instances of PolicyEngine and PolicyStore for TLC.  They share no state:  *)
(* an execution is one of either, chosen at its start.                       *)
EXTENDS PolicyEngine, PolicyStore, TLC

CONSTANTS ask, fake

VARIABLE part

Words(chars, n) == UNION {[1..k -> chars] : k \in 1..n}
AnyAction == Permutations(Actions)

MCStrings == Words({"a", "b"}, 4) \union {<<>>, <<"?">>, <<"a", "?">>}
MCPatterns ==
  {<<>>, <<"a">>, <<"*">>, <<"a", "*">>, <<"*", "b">>, <<"a", "b">>, <<"*", "a", "*">>,
   <<"a", "*", "b">>, <<"*", "a", "*", "b">>, <<"a", "*", "b", "*", "a">>, <<"a", "*", "*">>, <<"?">>, <<"a", "?">>,
   <<"?", "?", "a">>, <<"?", "*">>, <<"*", "?">>, <<"a", "?", "b", "*">>,
   <<"*", "a", "?", "b">>, <<"a", "/", "?">>}

MCRuleSizes == {<<0>>, <<2, 0>>, <<4, 6, 0>>}
MCDataSizes == {20, 40, 60, 80, 100, 120, 160, 200}

MCInit ==
  /\ part \in {"engine", "store"}
  /\ Init /\ StoreInit
  /\ part = "engine" => data_size = 20
MCNext ==
  /\ UNCHANGED part
  /\ \/ part = "engine" /\ Next /\ UNCHANGED storeVars
     \/ part = "store" /\ StoreNext /\ UNCHANGED vars
MCSpec == MCInit /\ [][MCNext]_<<part, vars, storeVars>>
================================================================================
