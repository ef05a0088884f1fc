----------------------------- MODULE MCLogFollow -----------------------------
(* Small instances of LogFollow for TLC.                                   *)
EXTENDS LogFollow
=============================================================================
