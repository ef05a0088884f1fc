---------------------------- MODULE MCTargetScan ----------------------------
(* Small instances of TargetScan for TLC.                                  *)
EXTENDS TargetScan
=============================================================================
