---------------------------- MODULE MCSyscallBroker ----------------------------
(* Instances of SyscallBroker for TLC.                                       *)
EXTENDS SyscallBroker, TLC

CONSTANTS t1, t2

MCThreads == {t1, t2}
================================================================================
