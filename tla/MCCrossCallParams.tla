--------------------------- MODULE MCCrossCallParams ---------------------------
(* Instances of CrossCallParams for TLC.                                     *)
EXTENDS CrossCallParams
================================================================================
