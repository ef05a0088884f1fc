---------------------------- MODULE ConfigStore ----------------------------
(***************************************************************************)
(* What changing a remote configuration file promises to its caller, with  *)
(* the backup, the temporary files and the remote calls left out.  A file  *)
(* that was there holds what it held, or what was asked for, or (an outage *)
(* the user is told of) nothing; one that is being created may be partly   *)
(* there; "ok" and "unchanged" are the truth.  Nothing is promised of a    *)
(* file that somebody else edits meanwhile.                                *)
(***************************************************************************)
CONSTANTS Values, Gone

VARIABLES cfg, was, want, busy, disturbed, result

store == <<cfg, was, want, busy, disturbed, result>>

Results == {"none", "ok", "unchanged", "unknown"}

Init ==
    /\ cfg \in Values /\ was = cfg /\ want \in Values
    /\ busy = FALSE /\ disturbed = FALSE /\ result = "none"

Honest ==
    /\ result = "ok" => cfg = want
    /\ result = "unchanged" => cfg = was

Possible == IF disturbed \/ was = Gone THEN Values ELSE {was, want, Gone}

Begin ==
    /\ ~busy /\ busy' = TRUE
    /\ UNCHANGED cfg /\ was' = cfg /\ want' \in Values
    /\ disturbed' = FALSE /\ result' = "none"

(* A rollback learns the wanted content while it runs.                     *)
Choose ==
    /\ busy /\ (disturbed \/ cfg = was) /\ want' \in Values
    /\ UNCHANGED <<cfg, was, busy, disturbed, result>>

Change ==
    /\ busy /\ cfg' \in Possible
    /\ UNCHANGED <<was, want, busy, disturbed, result>>

End ==
    /\ busy /\ busy' = FALSE
    /\ cfg' \in Possible
    /\ result' \in Results
    /\ disturbed \/ Honest'
    /\ UNCHANGED <<was, want, disturbed>>

(* The report is dropped when the application dies before showing it.      *)
Forget ==
    /\ ~busy /\ result' = "none"
    /\ UNCHANGED <<cfg, was, want, busy, disturbed>>

Disturb ==
    /\ cfg' \in Values /\ disturbed' = TRUE
    /\ UNCHANGED <<was, want, busy, result>>

Next == Begin \/ Choose \/ Change \/ End \/ Forget \/ Disturb

Spec == Init /\ [][Next]_store
=============================================================================
