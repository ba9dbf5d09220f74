-------------------------- MODULE MCBrokerServices --------------------------
(* Process ids and handle values are only compared, so they are symmetric.   *)
EXTENDS BrokerServices, TLC

Names == Permutations(Pids) \union Permutations(Handles)
=============================================================================
