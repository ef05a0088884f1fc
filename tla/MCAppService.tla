---------------------------- MODULE MCAppService ----------------------------
(* Small instances of AppService for TLC.                                  *)
EXTENDS AppService, TLC

CONSTANTS h1, h2

OneHost == {h1}
TwoHosts == {h1, h2}
HostSymmetry == Permutations(TwoHosts)
=============================================================================
