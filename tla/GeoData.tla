------------------------------ MODULE GeoData ------------------------------
(***************************************************************************)
(* One update of the GeoData databases (GeoDataManager::update): all are   *)
(* downloaded next to the live files, the live files are copied, each is   *)
(* replaced, and a replacement that fails rolls the others back.  Every    *)
(* step is remote calls that can fail, with or without their effect, or    *)
(* with the connection; the application can die at any point.              *)
(***************************************************************************)
EXTENDS Naturals

CONSTANTS
    Count,     \* number of databases (DATABASE_NAMES)
    MaxFaults  \* bound: calls that fail, or fetch nothing, while the connection is up

ASSUME GeoDataAssumption == Count \in Nat \ {0} /\ MaxFaults \in Nat

VARIABLES
    live,     \* the databases Xray reads
    temp,     \* the downloads
    prev,     \* the rollback copies (.feldjaeger.prev)
    plan,     \* DatabasePlan of each database
    pc,       \* next remote call
    index,    \* the database it is about
    cleaning, \* downloads still to be removed
    failed,   \* run_update will return an error
    result,   \* what update returned
    lost,     \* the connection is gone
    faults,   \* counter: calls that failed, or fetched nothing, while it was up
    before    \* history: live when the update began

files  == <<live, temp, prev>>
update == <<plan, pc, index, cleaning, failed, result>>
net    == <<lost, faults>>
vars   == <<files, update, net, before>>

Databases == 1 .. Count
Contents  == {"none", "old", "new", "torn", "empty"}
Unusable  == {"none", "empty"}
Plan      == [had : BOOLEAN, backed_up : BOOLEAN, replaced : BOOLEAN,
              downloaded : Contents]

TypeOK ==
    /\ live \in [Databases -> Contents]
    /\ temp \in [Databases -> Contents]
    /\ prev \in [Databases -> Contents]
    /\ plan \in [Databases -> Plan]
    /\ pc \in {"download", "verify", "probe", "backup", "replace", "undo",
               "cleanup", "discover", "done"}
    /\ index \in Databases
    /\ cleaning \subseteq Databases
    /\ failed \in BOOLEAN
    /\ result \in {"none", "ok", "error"}
    /\ (result # "none" => pc = "done")
    /\ (pc = "discover" \/ result # "none" => cleaning = {})
    /\ lost \in BOOLEAN /\ faults \in 0 .. MaxFaults
    /\ before \in [Databases -> {"none", "old"}]

(* A rollback copy of an earlier update may lie around.                    *)
Init ==
    /\ live \in [Databases -> {"none", "old"}] /\ before = live
    /\ prev \in [Databases -> {"none", "torn"}]
    /\ temp = [d \in Databases |-> "none"]
    /\ plan = [d \in Databases |-> [had |-> FALSE, backed_up |-> FALSE,
                                    replaced |-> FALSE, downloaded |-> "none"]]
    /\ pc = "download" /\ index = 1 /\ cleaning = {}
    /\ failed = FALSE /\ result = "none"
    /\ lost = FALSE /\ faults = 0

-----------------------------------------------------------------------------
(* Remote calls.                                                           *)

Succeeds == ~lost /\ UNCHANGED net

Fails ==
    \/ lost /\ UNCHANGED net
    \/ ~lost /\ faults < MaxFaults /\ faults' = faults + 1 /\ lost' \in BOOLEAN

(* What a failed call leaves of a file: nothing happens once the           *)
(* connection is gone.                                                     *)
Left(file, outcomes) ==
    \E outcome \in IF lost THEN {file[index]} ELSE outcomes \union {file[index]} :
        file' = [file EXCEPT ![index] = outcome]

(* A failed write_file_atomic left the file as it was, or replaced it and  *)
(* the answer was lost, or it ended while the old file was out of the way: *)
(* the connection went, or moving it aside was done but answered too late. *)
AtomicallyLeft(content) == Left(live, {content, "none"})

Now(database) == plan' = [plan EXCEPT ![index] = database]

(* On to the next database, or after the last one to the given step.       *)
Onward(step, same) ==
    IF index < Count THEN index' = index + 1 /\ pc' = same
                     ELSE index' = 1 /\ pc' = step

Return(outcome) == pc' = "done" /\ result' = outcome

(* An error before anything was replaced: only downloads to remove.        *)
Abort(downloads) ==
    /\ failed' = TRUE /\ pc' = "cleanup" /\ cleaning' = downloads
    /\ UNCHANGED <<index, plan, result>>

-----------------------------------------------------------------------------
(* Downloading, verifying and planning, database by database.              *)

MutExitCodeIgnored ==
    /\ pc = "download"
    /\ \/ Succeeds /\ temp' = [temp EXCEPT ![index] = "new"]
       \/ Fails /\ Left(temp, {"torn", "new"})
    /\ pc' = "verify"
    /\ UNCHANGED <<plan, index, cleaning, failed, result, live, prev, before>>

(* A download that ends well may still have fetched nothing.               *)
FetchesNothing == ~lost /\ faults < MaxFaults /\ faults' = faults + 1 /\ UNCHANGED lost

Download ==
    /\ pc = "download"
    /\ \/ /\ \/ Succeeds /\ temp' = [temp EXCEPT ![index] = "new"]
             \/ /\ FetchesNothing
                /\ \E content \in Unusable : temp' = [temp EXCEPT ![index] = content]
          /\ pc' = "verify"
          /\ UNCHANGED <<plan, index, cleaning, failed, result>>
       \/ Fails /\ Left(temp, {"torn", "new"}) /\ Abort(1 .. index)
    /\ UNCHANGED <<live, prev, before>>

Verify ==
    /\ pc = "verify"
    /\ \/ /\ Succeeds /\ temp[index] \notin Unusable
          /\ Now([plan[index] EXCEPT !.downloaded = temp[index]])
          /\ pc' = "probe"
          /\ UNCHANGED <<index, cleaning, failed, result>>
       \/ (Fails \/ (temp[index] \in Unusable /\ Succeeds)) /\ Abort(1 .. index)
    /\ UNCHANGED <<files, before>>

Probe ==
    /\ pc = "probe"
    /\ \/ /\ Succeeds
          /\ Now([plan[index] EXCEPT !.had = live[index] # "none"])
          /\ Onward("backup", "download")
          /\ UNCHANGED <<cleaning, failed, result>>
       \/ Fails /\ Abort(1 .. index)
    /\ UNCHANGED <<files, before>>

-----------------------------------------------------------------------------
(* Copying the live files, all of them before any is replaced.             *)

NothingToBackUp ==
    /\ pc = "backup" /\ ~plan[index].had
    /\ Onward("replace", "backup")
    /\ UNCHANGED <<files, plan, cleaning, failed, result, net, before>>

MutBackupBestEffort ==
    /\ pc = "backup" /\ plan[index].had
    /\ \/ /\ Succeeds /\ prev' = [prev EXCEPT ![index] = live[index]]
          /\ Now([plan[index] EXCEPT !.backed_up = TRUE])
       \/ Fails /\ Left(prev, {"none", "torn", live[index]}) /\ UNCHANGED plan
    /\ Onward("replace", "backup")
    /\ UNCHANGED <<live, temp, before, cleaning, failed, result>>

(* backup_live_file reads and writes, not atomically.                      *)
Backup ==
    /\ pc = "backup" /\ plan[index].had
    /\ \/ /\ Succeeds /\ prev' = [prev EXCEPT ![index] = live[index]]
          /\ Now([plan[index] EXCEPT !.backed_up = TRUE])
          /\ Onward("replace", "backup")
          /\ UNCHANGED <<cleaning, failed, result>>
       \/ /\ Fails /\ Left(prev, {"none", "torn", live[index]})
          /\ Abort(Databases)
    /\ UNCHANGED <<live, temp, before>>

-----------------------------------------------------------------------------
(* Replacing, and rolling back.                                            *)

Replace ==
    /\ pc = "replace"
    /\ \/ /\ Succeeds
          /\ live' = [live EXCEPT ![index] = plan[index].downloaded]
          /\ Now([plan[index] EXCEPT !.replaced = TRUE])
          /\ Onward("cleanup", "replace")
          /\ cleaning' = IF index = Count THEN Databases ELSE cleaning
          /\ UNCHANGED <<failed, result>>
       \/ /\ Fails /\ AtomicallyLeft(plan[index].downloaded)
          /\ failed' = TRUE /\ pc' = "undo" /\ index' = 1
          /\ UNCHANGED <<plan, cleaning, result>>
    /\ UNCHANGED <<temp, prev, before>>

(* After the last plan, or the first that cannot be rolled back.           *)
EndUndo == pc' = "cleanup" /\ cleaning' = Databases /\ index' = 1

NextUndo ==
    IF index < Count THEN pc' = "undo" /\ index' = index + 1 /\ UNCHANGED cleaning
                     ELSE EndUndo

NothingToUndo ==
    /\ pc = "undo"
    /\ ~plan[index].replaced \/ (plan[index].had /\ ~plan[index].backed_up)
    /\ NextUndo
    /\ UNCHANGED <<files, plan, failed, result, net, before>>

UndoReplaced ==
    /\ pc = "undo" /\ plan[index].replaced /\ plan[index].had
    /\ plan[index].backed_up
    /\ \/ Succeeds /\ live' = [live EXCEPT ![index] = prev[index]] /\ NextUndo
       \/ Fails /\ AtomicallyLeft(prev[index]) /\ EndUndo
    /\ UNCHANGED <<plan, failed, result, temp, prev, before>>

MutKeepAdded ==
    /\ pc = "undo" /\ plan[index].replaced /\ ~plan[index].had
    /\ NextUndo
    /\ UNCHANGED <<files, plan, failed, result, net, before>>

UndoAdded ==
    /\ pc = "undo" /\ plan[index].replaced /\ ~plan[index].had
    /\ \/ Succeeds /\ live' = [live EXCEPT ![index] = "none"] /\ NextUndo
       \/ Fails /\ Left(live, {"none"}) /\ EndUndo
    /\ UNCHANGED <<plan, failed, result, temp, prev, before>>

-----------------------------------------------------------------------------
(* Removing the downloads, best effort, and looking again.                 *)

Cleanup ==
    /\ pc = "cleanup"
    /\ \E d \in cleaning :
          /\ cleaning' = cleaning \ {d}
          /\ \/ Succeeds /\ temp' = [temp EXCEPT ![d] = "none"]
             \/ Fails /\ temp' \in {temp, IF lost THEN temp
                                          ELSE [temp EXCEPT ![d] = "none"]}
    /\ UNCHANGED <<live, prev, plan, pc, index, failed, result, before>>

MutReportBeforeCleanup ==
    /\ pc = "cleanup"
    /\ IF failed THEN Return("error") ELSE pc' = "discover" /\ UNCHANGED result
    /\ UNCHANGED <<files, plan, index, cleaning, failed, net, before>>

Cleaned ==
    /\ pc = "cleanup" /\ cleaning = {}
    /\ IF failed THEN Return("error") ELSE pc' = "discover" /\ UNCHANGED result
    /\ UNCHANGED <<files, plan, index, cleaning, failed, net, before>>

Discover ==
    /\ pc = "discover"
    /\ \/ Succeeds /\ Return("ok")
       \/ Fails /\ Return("error")
    /\ UNCHANGED <<files, plan, index, cleaning, failed, before>>

(* The application dies, and the update with it.                           *)
Crash ==
    /\ pc # "done" /\ pc' = "done"
    /\ UNCHANGED <<files, plan, index, cleaning, failed, result, net, before>>

Next ==
    \/ Download \/ Verify \/ Probe
    \/ NothingToBackUp \/ Backup \/ Replace
    \/ NothingToUndo \/ UndoReplaced \/ UndoAdded
    \/ Cleanup \/ Cleaned \/ Discover
    \/ Crash

Spec == Init /\ [][Next]_vars

-----------------------------------------------------------------------------
(* Properties.                                                             *)

(* Whatever fails and wherever the application dies, a database that was   *)
(* there is still live or in its rollback copy (run_update copies all      *)
(* before it replaces any).                                                *)
OldRecoverable ==
    \A d \in Databases :
        before[d] = "old" => live[d] = "old" \/ prev[d] = "old"

(* Xray never finds half a download, an empty one or half a rollback copy  *)
(* (download_file, verify_download, backup_live_file).                     *)
NeverTorn == \A d \in Databases : live[d] \notin {"torn", "empty"}

(* After one failing call or empty download that made the update fail, no  *)
(* download stays on the server (cleanup_temp_files on every path); the    *)
(* temporary file of a failed write_file_atomic is not one of them.        *)
CleanAfterOneFault ==
    result = "error" /\ faults = 1 /\ ~lost => \A d \in Databases : temp[d] = "none"

(* An update that one failing call made fail has put every database it is  *)
(* known to have replaced back to what it was, so that the pair belongs    *)
(* together again (rollback); the one whose replacement failed may be      *)
(* live, if the call took effect and its answer was lost.                  *)
RolledBack ==
    result = "error" /\ failed /\ faults = 1 /\ ~lost =>
        \A d \in Databases : plan[d].replaced => live[d] = before[d]
=============================================================================
