----------------------------- MODULE MCXrayLogs -----------------------------
(* Small instances of XrayLogs for TLC.                                    *)
EXTENDS XrayLogs

CONSTANTS access, journal

TwoKinds == {access, journal}
=============================================================================
