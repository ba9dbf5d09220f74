--------------------------- MODULE MCSharedMemIPC ---------------------------
(* Model checking SharedMemIPC: client and pool threads are interchangeable. *)
EXTENDS SharedMemIPC, TLC

Threads == Permutations(Clients) \union Permutations(Workers)
=============================================================================
