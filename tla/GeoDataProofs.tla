--------------------------- MODULE GeoDataProofs ---------------------------
(***************************************************************************)
(* Proofs about GeoData for any number of databases and of failing calls.  *)
(* OldRecoverable is not inductive: a replacement is harmless because all  *)
(* rollback copies were taken by then, which "Copied" says phase by phase. *)
(***************************************************************************)
EXTENDS GeoData, TLAPS

USE GeoDataAssumption

Planning == {"download", "verify", "probe"}

(* How far the copying is: nothing is replaced before it is over.          *)
Copied ==
    /\ pc \in Planning \union {"backup"} => live = before
    /\ pc \in Planning =>
          \A d \in Databases : d < index => (plan[d].had <=> before[d] # "none")
    /\ pc \in {"backup", "replace", "undo"} =>
          \A d \in Databases : plan[d].had <=> before[d] # "none"
    /\ pc = "backup" =>
          \A d \in Databases : d < index /\ before[d] = "old" => prev[d] = "old"
    /\ pc \in {"replace", "undo"} =>
          \A d \in Databases : before[d] = "old" => prev[d] = "old"

(* Every index is a database.                                              *)
LEMMA Indices ==
    /\ 1 \in Databases
    /\ \A i \in Databases : i < Count => i + 1 \in Databases
    /\ \A i \in Databases : i \in Nat /\ (~(i < Count) => \A d \in Databases : d < i \/ d = i)
BY DEF Databases

-----------------------------------------------------------------------------
(* Types.                                                                  *)

(* Types at the start.                                                     *)
LEMMA InitType == Init => TypeOK
<1> SUFFICES ASSUME Init PROVE TypeOK
    OBVIOUS
<1>1. live \in [Databases -> Contents]
    BY DEF Init, Contents
<1>2. temp \in [Databases -> Contents] /\ prev \in [Databases -> Contents]
    BY DEF Init, Contents
<1>3. plan \in [Databases -> Plan]
    BY DEF Init, Plan, Contents
<1>4. failed \in BOOLEAN /\ lost \in BOOLEAN
    BY DEF Init
<1> QED
    BY <1>1, <1>2, <1>3, <1>4, Indices DEF Init, TypeOK

(* The calls keep the connection's state well typed.                       *)
LEMMA NetType ==
    ASSUME TypeOK, Succeeds \/ Fails \/ UNCHANGED net
    PROVE  lost' \in BOOLEAN /\ faults' \in 0 .. MaxFaults
<1>1. CASE UNCHANGED net
    <2>1. lost' = lost /\ faults' = faults
        BY <1>1 DEF net
    <2> QED
        BY <2>1 DEF TypeOK
<1>2. CASE Succeeds
    BY <1>1, <1>2 DEF Succeeds
<1>3. CASE Fails
    <2>1. CASE ~lost /\ faults < MaxFaults /\ faults' = faults + 1
               /\ lost' \in BOOLEAN
        BY <2>1 DEF TypeOK
    <2> QED
        BY <1>1, <1>3, <2>1 DEF Fails
<1> QED
    BY <1>1, <1>2, <1>3

(* A failed call leaves one of the outcomes named.                         *)
LEMMA LeftType ==
    ASSUME TypeOK, NEW file \in [Databases -> Contents],
           NEW outcomes \in SUBSET Contents,
           NEW outcome \in outcomes \union {file[index]}
    PROVE  [file EXCEPT ![index] = outcome] \in [Databases -> Contents]
<1>1. outcome \in Contents
    BY DEF TypeOK
<1> QED
    BY <1>1

(* A call on a download keeps the type of the downloads.                   *)
LEMMA TempLeft ==
    ASSUME TypeOK, NEW outcomes \in SUBSET Contents, Left(temp, outcomes)
    PROVE  temp' \in [Databases -> Contents]
BY LeftType DEF Left, TypeOK

(* A call on a rollback copy keeps the type of the copies.                 *)
LEMMA PrevLeft ==
    ASSUME TypeOK, NEW outcomes \in SUBSET Contents, Left(prev, outcomes)
    PROVE  prev' \in [Databases -> Contents]
BY LeftType DEF Left, TypeOK

(* A call on a live database leaves a content a file can have.             *)
LEMMA LiveLeft ==
    ASSUME TypeOK, NEW outcomes \in SUBSET Contents, Left(live, outcomes)
    PROVE  live' \in [Databases -> Contents]
BY LeftType DEF Left, TypeOK

(* An atomic write leaves the old content, the new or nothing.             *)
LEMMA LiveAtomicallyLeft ==
    ASSUME TypeOK, NEW content \in Contents, AtomicallyLeft(content)
    PROVE  live' \in [Databases -> Contents]
<1>1. {content, "none"} \in SUBSET Contents
    BY DEF Contents
<1> QED
    BY <1>1, LiveLeft DEF AtomicallyLeft

(* A database's plan stays a plan.                                         *)
LEMMA PlanType ==
    ASSUME TypeOK, NEW content \in Contents, NEW flag \in BOOLEAN
    PROVE  /\ [plan[index] EXCEPT !.downloaded = content] \in Plan
           /\ [plan[index] EXCEPT !.had = flag] \in Plan
           /\ [plan[index] EXCEPT !.backed_up = flag] \in Plan
           /\ [plan[index] EXCEPT !.replaced = flag] \in Plan
           /\ plan[index].downloaded \in Contents
<1>1. plan[index] \in Plan
    BY DEF TypeOK
<1> QED
    BY <1>1 DEF Plan

(* What is recorded for the current database keeps the plan a plan.        *)
LEMMA NowType ==
    ASSUME TypeOK, NEW database \in Plan, Now(database)
    PROVE  plan' \in [Databases -> Plan]
BY DEF Now, TypeOK

(* The part of the type every step keeps in the same way: the other        *)
(* conjuncts are shown step by step.                                       *)
LEMMA FilesType ==
    ASSUME TypeOK, [Next]_vars
    PROVE  live' \in [Databases -> Contents] /\ temp' \in [Databases -> Contents]
           /\ prev' \in [Databases -> Contents] /\ plan' \in [Databases -> Plan]
<1>1. {"torn", "new"} \in SUBSET Contents /\ {"none"} \in SUBSET Contents
      /\ "new" \in Contents /\ "none" \in Contents
    BY DEF Contents
<1>2. live[index] \in Contents /\ temp[index] \in Contents
      /\ prev[index] \in Contents
    BY DEF TypeOK
<1>3. {"none", "torn", live[index]} \in SUBSET Contents
    BY <1>2 DEF Contents
<1>4. live \in [Databases -> Contents] /\ temp \in [Databases -> Contents]
      /\ prev \in [Databases -> Contents] /\ plan \in [Databases -> Plan]
    BY DEF TypeOK
<1>5. CASE Download
    <2>1. UNCHANGED <<live, prev, plan>>
        BY <1>5 DEF Download, Abort
    <2>2. temp' \in [Databases -> Contents]
        <3>1. ASSUME NEW content \in Contents,
                     temp' = [temp EXCEPT ![index] = content]
              PROVE  temp' \in [Databases -> Contents]
            BY <3>1, <1>4
        <3>2. CASE Left(temp, {"torn", "new"})
            BY <3>2, <1>1, TempLeft
        <3>3. Unusable \subseteq Contents
            BY DEF Unusable, Contents
        <3> QED
            BY <1>1, <1>5, <3>1, <3>2, <3>3 DEF Download
    <2> QED
        BY <2>1, <2>2, <1>4
<1>6. CASE Verify
    <2>1. UNCHANGED <<live, temp, prev>>
        BY <1>6 DEF Verify, files
    <2>2. plan' \in [Databases -> Plan]
        <3>1. CASE plan' = plan
            BY <3>1, <1>4
        <3>2. CASE Now([plan[index] EXCEPT !.downloaded = temp[index]])
            BY <3>2, <1>2, PlanType, NowType
        <3> QED
            BY <1>6, <3>1, <3>2 DEF Verify, Abort
    <2> QED
        BY <2>1, <2>2, <1>4
<1>7. CASE Probe
    <2>1. UNCHANGED <<live, temp, prev>>
        BY <1>7 DEF Probe, files
    <2>2. plan' \in [Databases -> Plan]
        <3>1. CASE plan' = plan
            BY <3>1, <1>4
        <3>2. CASE Now([plan[index] EXCEPT !.had = live[index] # "none"])
            BY <3>2, <1>2, PlanType, NowType
        <3> QED
            BY <1>7, <3>1, <3>2 DEF Probe, Abort
    <2> QED
        BY <2>1, <2>2, <1>4
<1>8. CASE Backup
    <2>1. UNCHANGED <<live, temp>>
        BY <1>8 DEF Backup
    <2>2. prev' \in [Databases -> Contents]
        <3>1. CASE prev' = [prev EXCEPT ![index] = live[index]]
            BY <3>1, <1>2, <1>4
        <3>2. CASE Left(prev, {"none", "torn", live[index]})
            BY <3>2, <1>3, PrevLeft
        <3> QED
            BY <1>8, <3>1, <3>2 DEF Backup
    <2>3. plan' \in [Databases -> Plan]
        <3>1. CASE plan' = plan
            BY <3>1, <1>4
        <3>2. CASE Now([plan[index] EXCEPT !.backed_up = TRUE])
            BY <3>2, <1>1, PlanType, NowType
        <3> QED
            BY <1>8, <3>1, <3>2 DEF Backup, Abort
    <2> QED
        BY <2>1, <2>2, <2>3, <1>4
<1>9. CASE Replace
    <2>1. UNCHANGED <<temp, prev>>
        BY <1>9 DEF Replace
    <2>2. plan[index].downloaded \in Contents
        BY <1>1, PlanType
    <2>3. live' \in [Databases -> Contents]
        <3>1. CASE live' = [live EXCEPT ![index] = plan[index].downloaded]
            BY <3>1, <2>2, <1>4
        <3>2. CASE AtomicallyLeft(plan[index].downloaded)
            BY <3>2, <2>2, LiveAtomicallyLeft
        <3> QED
            BY <1>9, <3>1, <3>2 DEF Replace
    <2>4. plan' \in [Databases -> Plan]
        <3>1. CASE plan' = plan
            BY <3>1, <1>4
        <3>2. CASE Now([plan[index] EXCEPT !.replaced = TRUE])
            BY <3>2, <1>1, PlanType, NowType
        <3> QED
            BY <1>9, <3>1, <3>2 DEF Replace
    <2> QED
        BY <2>1, <2>3, <2>4, <1>4
<1>10. CASE UndoReplaced
    <2>1. UNCHANGED <<temp, prev, plan>>
        BY <1>10 DEF UndoReplaced
    <2>2. live' \in [Databases -> Contents]
        <3>1. CASE live' = [live EXCEPT ![index] = prev[index]]
            BY <3>1, <1>2, <1>4
        <3>2. CASE AtomicallyLeft(prev[index])
            BY <3>2, <1>2, LiveAtomicallyLeft
        <3> QED
            BY <1>10, <3>1, <3>2 DEF UndoReplaced
    <2> QED
        BY <2>1, <2>2, <1>4
<1>11. CASE UndoAdded
    <2>1. UNCHANGED <<temp, prev, plan>>
        BY <1>11 DEF UndoAdded
    <2>2. live' \in [Databases -> Contents]
        <3>1. CASE live' = [live EXCEPT ![index] = "none"]
            BY <3>1, <1>1, <1>4
        <3>2. CASE Left(live, {"none"})
            BY <3>2, <1>1, LiveLeft
        <3> QED
            BY <1>11, <3>1, <3>2 DEF UndoAdded
    <2> QED
        BY <2>1, <2>2, <1>4
<1>12. CASE Cleanup
    <2>1. UNCHANGED <<live, prev, plan>>
        BY <1>12 DEF Cleanup
    <2>2. PICK d \in cleaning :
             temp' = temp \/ temp' = [temp EXCEPT ![d] = "none"]
        BY <1>12 DEF Cleanup
    <2>3. temp' \in [Databases -> Contents]
        BY <2>2, <1>1, <1>4
    <2> QED
        BY <2>1, <2>3, <1>4
<1>13. CASE UNCHANGED <<files, plan>>
    BY <1>13, <1>4 DEF files
<1> QED
    BY <1>5, <1>6, <1>7, <1>8, <1>9, <1>10, <1>11, <1>12, <1>13
    DEF Next, vars, update, NothingToBackUp, NothingToUndo, Cleaned, Discover,
        Crash

(* Where the worker goes.                                                  *)
LEMMA ControlType ==
    ASSUME TypeOK, [Next]_vars
    PROVE  /\ pc' \in {"download", "verify", "probe", "backup", "replace", "undo",
                       "cleanup", "discover", "done"}
           /\ index' \in Databases
           /\ result' \in {"none", "ok", "error"}
           /\ before' \in [Databases -> {"none", "old"}]
<1>1. before' \in [Databases -> {"none", "old"}]
    <2>1. before' = before
        BY DEF Next, vars, Download, Verify, Probe, NothingToBackUp, Backup,
               Replace, NothingToUndo, UndoReplaced, UndoAdded, Cleanup, Cleaned,
               Discover, Crash
    <2> QED
        BY <2>1 DEF TypeOK
<1>2. index' \in Databases
    BY Indices
    DEF TypeOK, Next, vars, update, Download, Verify, Probe, NothingToBackUp,
        Backup, Replace, NothingToUndo, UndoReplaced, UndoAdded, Cleanup,
        Cleaned, Discover, Crash, Abort, Onward, NextUndo, EndUndo
<1>3. pc' \in {"download", "verify", "probe", "backup", "replace", "undo",
               "cleanup", "discover", "done"}
    BY DEF TypeOK, Next, vars, update, Download, Verify, Probe, NothingToBackUp,
           Backup, Replace, NothingToUndo, UndoReplaced, UndoAdded, Cleanup,
           Cleaned, Discover, Crash, Abort, Onward, NextUndo, EndUndo, Return
<1>4. result' \in {"none", "ok", "error"}
    BY DEF TypeOK, Next, vars, update, Download, Verify, Probe, NothingToBackUp,
           Backup, Replace, NothingToUndo, UndoReplaced, UndoAdded, Cleanup,
           Cleaned, Discover, Crash, Abort, Return
<1> QED
    BY <1>1, <1>2, <1>3, <1>4

(* The flags, and what they say together.                                  *)
LEMMA FlagsType ==
    ASSUME TypeOK, [Next]_vars
    PROVE  /\ failed' \in BOOLEAN /\ cleaning' \subseteq Databases
           /\ (result' # "none" => pc' = "done")
           /\ (pc' = "discover" \/ result' # "none" => cleaning' = {})
<1>1. failed' \in BOOLEAN
    <2>1. failed' = failed \/ failed' = TRUE
        BY DEF Next, vars, update, Download, Verify, Probe, NothingToBackUp,
               Backup, Replace, NothingToUndo, UndoReplaced, UndoAdded, Cleanup,
               Cleaned, Discover, Crash, Abort
    <2> QED
        BY <2>1 DEF TypeOK
<1>2. cleaning' \subseteq Databases
    <2>1. 1 .. index \subseteq Databases
        BY DEF Databases, TypeOK
    <2> QED
        BY <2>1
        DEF TypeOK, Next, vars, update, Download, Verify, Probe, NothingToBackUp,
            Backup, Replace, NothingToUndo, UndoReplaced, UndoAdded, Cleanup,
            Cleaned, Discover, Crash, Abort, NextUndo, EndUndo
<1>3. /\ (result' # "none" => pc' = "done")
      /\ (pc' = "discover" \/ result' # "none" => cleaning' = {})
    BY DEF TypeOK, Next, vars, update, Download, Verify, Probe, NothingToBackUp,
           Backup, Replace, NothingToUndo, UndoReplaced, UndoAdded, Cleanup,
           Cleaned, Discover, Crash, Abort, Onward, NextUndo, EndUndo, Return
<1> QED
    BY <1>1, <1>2, <1>3

(* Every step is one call, or none.                                        *)
LEMMA Calls == TypeOK /\ [Next]_vars => Succeeds \/ Fails \/ UNCHANGED net
<1>1. TypeOK /\ FetchesNothing => Fails
    BY DEF FetchesNothing, Fails, TypeOK
<1> QED
    BY <1>1
    DEF Next, vars, Download, Verify, Probe, NothingToBackUp, Backup, Replace,
        NothingToUndo, UndoReplaced, UndoAdded, Cleanup, Cleaned, Discover, Crash

(* Every step keeps the types.                                             *)
LEMMA NextType == TypeOK /\ [Next]_vars => TypeOK'
<1> SUFFICES ASSUME TypeOK, [Next]_vars PROVE TypeOK'
    OBVIOUS
<1>1. lost' \in BOOLEAN /\ faults' \in 0 .. MaxFaults
    BY Calls, NetType
<1>2. failed' \in BOOLEAN
    BY FlagsType
<1>3. (result' # "none" => pc' = "done")
      /\ (pc' = "discover" \/ result' # "none" => cleaning' = {})
    BY FlagsType
<1> QED
    BY <1>1, <1>2, <1>3, FilesType, ControlType, FlagsType DEF TypeOK

(* Every variable of a GeoData update keeps its type, and an update that   *)
(* has returned has nothing left to clean up (run_update, update).         *)
THEOREM TypeCorrect == Spec => []TypeOK
BY InitType, NextType, PTL DEF Spec

-----------------------------------------------------------------------------
(* The rollback copies.                                                    *)

Inv == TypeOK /\ Copied /\ OldRecoverable

(* The invariant at the start.                                             *)
LEMMA InitInv == Init => Inv
<1> SUFFICES ASSUME Init PROVE Inv
    OBVIOUS
<1>1. Copied
    BY DEF Init, Copied, Planning, Databases
<1>2. OldRecoverable
    BY DEF Init, OldRecoverable
<1> QED
    BY <1>1, <1>2, InitType DEF Inv

(* Before anything is replaced, what was there is live.                    *)
LEMMA Untouched ==
    ASSUME live' = before'
    PROVE  OldRecoverable'
BY DEF OldRecoverable

(* Once everything is copied, what was there is in the copy.               *)
LEMMA CopiesKeep ==
    ASSUME \A d \in Databases : before[d] = "old" => prev[d] = "old",
           UNCHANGED <<prev, before>>
    PROVE  /\ \A d \in Databases : before'[d] = "old" => prev'[d] = "old"
           /\ OldRecoverable'
BY DEF OldRecoverable

(* Every step keeps the invariant: one step per action.                    *)
LEMMA NextInv == Inv /\ [Next]_vars => Inv'
<1> SUFFICES ASSUME Inv, [Next]_vars PROVE Copied' /\ OldRecoverable'
    BY NextType DEF Inv
<1> USE DEF Inv
<1>1. CASE Download
    <2>1. UNCHANGED <<live, prev, before>> /\ pc = "download" /\ live = before
        BY <1>1 DEF Download, Copied, Planning
    <2>2. CASE pc' = "verify" /\ UNCHANGED <<plan, index>>
        BY <2>1, <2>2, Untouched DEF Copied, Planning
    <2>3. CASE pc' = "cleanup"
        BY <2>1, <2>3, Untouched DEF Copied, Planning
    <2> QED
        BY <1>1, <2>2, <2>3 DEF Download, Abort
<1>2. CASE Verify
    <2>1. UNCHANGED <<live, prev, before>> /\ pc = "verify" /\ live = before
        BY <1>2 DEF Verify, Copied, Planning, files
    <2>2. CASE pc' = "probe" /\ UNCHANGED index
               /\ Now([plan[index] EXCEPT !.downloaded = temp[index]])
        <3>1. \A d \in Databases : plan'[d].had = plan[d].had
            <4>1. plan[index] \in Plan /\ plan \in [Databases -> Plan]
                BY DEF TypeOK
            <4> QED
                BY <4>1, <2>2 DEF Now, Plan
        <3> QED
            BY <2>1, <2>2, <3>1, Untouched DEF Copied, Planning
    <2>3. CASE pc' = "cleanup"
        BY <2>1, <2>3, Untouched DEF Copied, Planning
    <2> QED
        BY <1>2, <2>2, <2>3 DEF Verify, Abort
<1>3. CASE Probe
    <2>1. UNCHANGED <<live, prev, before>> /\ pc = "probe" /\ live = before
        BY <1>3 DEF Probe, Copied, Planning, files
    <2>2. CASE Now([plan[index] EXCEPT !.had = live[index] # "none"])
               /\ Onward("backup", "download")
        <3>1. \A d \in Databases :
                 plan'[d].had = IF d = index THEN before[d] # "none" ELSE plan[d].had
            <4>1. plan[index] \in Plan /\ plan \in [Databases -> Plan]
                BY DEF TypeOK
            <4> QED
                BY <4>1, <2>1, <2>2 DEF Now, Plan
        <3>2. \A d \in Databases : d < index \/ d = index
                  => (plan'[d].had <=> before[d] # "none")
            BY <2>1, <3>1 DEF Copied, Planning
        <3>3. CASE index < Count
            <4>1. pc' = "download" /\ index' = index + 1
                BY <2>2, <3>3 DEF Onward
            <4>2. \A d \in Databases : d < index' => d < index \/ d = index
                BY <4>1 DEF TypeOK, Databases
            <4> QED
                BY <2>1, <3>2, <4>1, <4>2, Untouched DEF Copied, Planning
        <3>4. CASE ~(index < Count)
            <4>1. pc' = "backup" /\ index' = 1
                BY <2>2, <3>4 DEF Onward
            <4>2. \A d \in Databases : d < index \/ d = index
                BY <3>4, Indices DEF TypeOK
            <4>3. \A d \in Databases : ~(d < index')
                BY <4>1 DEF Databases
            <4> QED
                BY <2>1, <3>2, <4>1, <4>2, <4>3, Untouched DEF Copied, Planning
        <3> QED
            BY <3>3, <3>4
    <2>3. CASE pc' = "cleanup"
        BY <2>1, <2>3, Untouched DEF Copied, Planning
    <2> QED
        BY <1>3, <2>2, <2>3 DEF Probe, Abort
<1>4. ASSUME pc = "backup", UNCHANGED <<live, before>>,
             \A d \in Databases : plan'[d].had = plan[d].had,
             \A d \in Databases : d < index \/ d = index =>
                 (before[d] = "old" => prev'[d] = "old"),
             Onward("replace", "backup")
      PROVE  Copied' /\ OldRecoverable'
    <2>1. live' = before'
        BY <1>4 DEF Copied, Planning
    <2>2. \A d \in Databases : plan'[d].had <=> before'[d] # "none"
        BY <1>4 DEF Copied
    <2>3. CASE index < Count
        <3>1. pc' = "backup" /\ index' = index + 1
            BY <1>4, <2>3 DEF Onward
        <3>2. \A d \in Databases : d < index' => d < index \/ d = index
            BY <3>1 DEF TypeOK, Databases
        <3> QED
            BY <1>4, <2>1, <2>2, <3>1, <3>2, Untouched DEF Copied, Planning
    <2>4. CASE ~(index < Count)
        <3>1. pc' = "replace"
            BY <1>4, <2>4 DEF Onward
        <3>2. \A d \in Databases : d < index \/ d = index
            BY <2>4, Indices DEF TypeOK
        <3> QED
            BY <1>4, <2>1, <2>2, <3>1, <3>2, Untouched DEF Copied, Planning
    <2> QED
        BY <2>3, <2>4
<1>5. CASE NothingToBackUp
    <2>1. pc = "backup" /\ UNCHANGED <<live, prev, before, plan>>
          /\ Onward("replace", "backup") /\ ~plan[index].had
        BY <1>5 DEF NothingToBackUp, files
    <2>2. before[index] # "old"
        BY <2>1 DEF Copied, TypeOK
    <2>3. \A d \in Databases : d < index \/ d = index =>
              (before[d] = "old" => prev'[d] = "old")
        BY <2>1, <2>2 DEF Copied
    <2> QED
        BY <1>4, <2>1, <2>3
<1>6. CASE Backup
    <2>1. pc = "backup" /\ UNCHANGED <<live, before>> /\ live = before
        BY <1>6 DEF Backup, Copied, Planning
    <2>2. CASE prev' = [prev EXCEPT ![index] = live[index]]
               /\ Now([plan[index] EXCEPT !.backed_up = TRUE])
               /\ Onward("replace", "backup")
        <3>1. \A d \in Databases : plan'[d].had = plan[d].had
            <4>1. plan[index] \in Plan /\ plan \in [Databases -> Plan]
                BY DEF TypeOK
            <4> QED
                BY <4>1, <2>2 DEF Now, Plan
        <3>2. \A d \in Databases : d < index \/ d = index =>
                  (before[d] = "old" => prev'[d] = "old")
            BY <2>1, <2>2 DEF Copied, TypeOK
        <3> QED
            BY <1>4, <2>1, <2>2, <3>1, <3>2
    <2>3. CASE pc' = "cleanup"
        BY <2>1, <2>3, Untouched DEF Copied, Planning
    <2> QED
        BY <1>6, <2>2, <2>3 DEF Backup, Abort
<1>7. ASSUME pc \in {"replace", "undo"}, UNCHANGED <<prev, before>>,
             pc' \in {"replace", "undo", "cleanup"},
             \A d \in Databases : plan'[d].had = plan[d].had
      PROVE  Copied' /\ OldRecoverable'
    <2>1. \A d \in Databases : before[d] = "old" => prev[d] = "old"
        BY <1>7 DEF Copied
    <2>2. \A d \in Databases : plan'[d].had <=> before'[d] # "none"
        BY <1>7 DEF Copied
    <2> QED
        BY <1>7, <2>1, <2>2, CopiesKeep DEF Copied, Planning
<1>8. CASE Replace
    <2>1. UNCHANGED <<prev, before>> /\ pc = "replace"
          /\ pc' \in {"replace", "undo", "cleanup"}
        BY <1>8 DEF Replace, Onward
    <2>2. \A d \in Databases : plan'[d].had = plan[d].had
        <3>1. plan[index] \in Plan /\ plan \in [Databases -> Plan]
            BY DEF TypeOK
        <3>2. CASE plan' = plan
            BY <3>2
        <3>3. CASE Now([plan[index] EXCEPT !.replaced = TRUE])
            BY <3>1, <3>3 DEF Now, Plan
        <3> QED
            BY <1>8, <3>2, <3>3 DEF Replace
    <2> QED
        BY <1>7, <2>1, <2>2
<1>9. CASE NothingToUndo \/ UndoReplaced \/ UndoAdded
    <2>1. UNCHANGED <<prev, before, plan>> /\ pc = "undo"
          /\ pc' \in {"replace", "undo", "cleanup"}
        BY <1>9 DEF NothingToUndo, UndoReplaced, UndoAdded, NextUndo, EndUndo, files
    <2> QED
        BY <1>7, <2>1
<1>10. CASE Cleanup \/ Cleaned \/ Discover \/ Crash
    <2>1. UNCHANGED <<live, prev, before>> /\ pc' \in {"cleanup", "discover", "done"}
        BY <1>10 DEF Cleanup, Cleaned, Discover, Crash, Return, files
    <2> QED
        BY <2>1 DEF Copied, Planning, OldRecoverable
<1>11. CASE UNCHANGED vars
    BY <1>11 DEF vars, files, update, Copied, Planning, OldRecoverable
<1> QED
    BY <1>1, <1>2, <1>3, <1>5, <1>6, <1>8, <1>9, <1>10, <1>11 DEF Next

(* Whatever fails and wherever the application dies, every database that   *)
(* was there is still live or in its rollback copy, for any number of      *)
(* databases and failures (run_update).                                    *)
THEOREM NothingLost == Spec => []OldRecoverable
<1>1. Inv => OldRecoverable
    BY DEF Inv
<1> QED
    BY <1>1, InitInv, NextInv, PTL DEF Spec

-----------------------------------------------------------------------------
(* No half file goes live.                                                 *)

Broken == {"torn", "empty"}

(* What is verified was downloaded completely, what is planned is what was *)
(* verified, and a copy that was recorded is a copy of a live file.        *)
Whole ==
    /\ pc = "verify" => temp[index] # "torn"
    /\ \A d \in Databases : plan[d].downloaded \notin Broken
    /\ pc \in Planning \union {"backup", "replace", "undo"} =>
          \A d \in Databases : plan[d].backed_up => prev[d] \notin Broken
    /\ NeverTorn

(* What recording something about the current database keeps.              *)
LEMMA NowKeeps ==
    ASSUME TypeOK, NEW value, NEW d \in Databases
    PROVE  /\ Now([plan[index] EXCEPT !.downloaded = value]) =>
                /\ plan'[d].downloaded \in {plan[d].downloaded, value}
                /\ plan'[d].backed_up = plan[d].backed_up
           /\ Now([plan[index] EXCEPT !.had = value]) \/
              Now([plan[index] EXCEPT !.replaced = value]) =>
                /\ plan'[d].downloaded = plan[d].downloaded
                /\ plan'[d].backed_up = plan[d].backed_up
           /\ Now([plan[index] EXCEPT !.backed_up = value]) =>
                /\ plan'[d].downloaded = plan[d].downloaded
                /\ d # index => plan'[d].backed_up = plan[d].backed_up
<1>1. plan[index] \in Plan /\ plan \in [Databases -> Plan] /\ index \in Databases
    BY DEF TypeOK
<1>2. ASSUME NEW database, Now(database)
      PROVE  plan'[d] = IF d = index THEN database ELSE plan[d]
    BY <1>1, <1>2 DEF Now
<1>3. /\ [plan[index] EXCEPT !.downloaded = value].downloaded = value
      /\ [plan[index] EXCEPT !.downloaded = value].backed_up = plan[index].backed_up
      /\ [plan[index] EXCEPT !.had = value].downloaded = plan[index].downloaded
      /\ [plan[index] EXCEPT !.had = value].backed_up = plan[index].backed_up
      /\ [plan[index] EXCEPT !.replaced = value].downloaded = plan[index].downloaded
      /\ [plan[index] EXCEPT !.replaced = value].backed_up = plan[index].backed_up
      /\ [plan[index] EXCEPT !.backed_up = value].downloaded = plan[index].downloaded
    BY <1>1 DEF Plan
<1> QED
    BY <1>2, <1>3

(* A live file that changes gets a whole content.                          *)
LEMMA LiveWhole ==
    ASSUME TypeOK, NeverTorn, NEW content, content \notin Broken,
           \/ live' = [live EXCEPT ![index] = content]
           \/ AtomicallyLeft(content)
    PROVE  NeverTorn'
<1>1. PICK outcome \in {content, "none", live[index]} :
          live' = [live EXCEPT ![index] = outcome]
    BY DEF AtomicallyLeft, Left
<1>2. outcome \notin Broken /\ live \in [Databases -> Contents]
    BY DEF TypeOK, NeverTorn, Broken
<1> QED
    BY <1>1, <1>2 DEF NeverTorn, Broken

(* Every step keeps the files whole.                                       *)
LEMMA WholeStep ==
    ASSUME TypeOK, Copied, Whole, [Next]_vars
    PROVE  Whole'
<1>0. NeverTorn /\ index \in Databases /\ Databases = 1 .. Count
    BY DEF Whole, TypeOK, Databases
<1>1. ASSUME UNCHANGED <<live, prev, plan>>, pc' # "verify",
             pc \in Planning \union {"backup", "replace", "undo"}
               \/ pc' \notin Planning \union {"backup", "replace", "undo"}
      PROVE  Whole'
    BY <1>1 DEF Whole, NeverTorn
<1>2. CASE Download
    <2>1. UNCHANGED <<live, prev, plan>> /\ pc = "download"
        BY <1>2 DEF Download, Abort
    <2>2. CASE /\ pc' = "verify" /\ index' = index
               /\ \E content \in {"new"} \union Unusable :
                     temp' = [temp EXCEPT ![index] = content]
        <3>1. temp'[index'] # "torn"
            BY <1>0, <2>2 DEF TypeOK, Unusable
        <3> QED
            BY <2>1, <2>2, <3>1 DEF Whole, NeverTorn, Planning
    <2>3. CASE pc' = "cleanup"
        BY <1>1, <2>1, <2>3 DEF Planning
    <2> QED
        BY <1>2, <2>2, <2>3 DEF Download, Abort
<1>3. CASE Verify
    <2>1. UNCHANGED <<live, prev>> /\ pc = "verify" /\ temp[index] # "torn"
        BY <1>3 DEF Verify, files, Whole
    <2>2. CASE /\ pc' = "probe" /\ temp[index] \notin Unusable
               /\ Now([plan[index] EXCEPT !.downloaded = temp[index]])
        <3>1. \A d \in Databases :
                 /\ plan'[d].downloaded \in {plan[d].downloaded, temp[index]}
                 /\ plan'[d].backed_up = plan[d].backed_up
            BY <2>2, NowKeeps
        <3>2. temp[index] \notin Broken
            BY <2>1, <2>2 DEF Unusable, Broken
        <3> QED
            BY <2>1, <2>2, <3>1, <3>2 DEF Whole, NeverTorn, Planning
    <2>3. CASE pc' = "cleanup" /\ plan' = plan
        BY <1>1, <2>1, <2>3 DEF Planning
    <2> QED
        BY <1>3, <2>2, <2>3 DEF Verify, Abort
<1>4. CASE Probe
    <2>1. UNCHANGED <<live, prev>> /\ pc = "probe"
        BY <1>4 DEF Probe, files
    <2>2. CASE Now([plan[index] EXCEPT !.had = live[index] # "none"])
               /\ pc' \in {"backup", "download"}
        <3>1. \A d \in Databases :
                 /\ plan'[d].downloaded = plan[d].downloaded
                 /\ plan'[d].backed_up = plan[d].backed_up
            BY <2>2, NowKeeps
        <3> QED
            BY <2>1, <2>2, <3>1 DEF Whole, NeverTorn, Planning
    <2>3. CASE pc' = "cleanup" /\ plan' = plan
        BY <1>1, <2>1, <2>3 DEF Planning
    <2> QED
        BY <1>4, <2>2, <2>3 DEF Probe, Abort, Onward
<1>5. CASE NothingToBackUp
    BY <1>1, <1>5 DEF NothingToBackUp, Onward, files
<1>6. CASE Backup
    <2>1. live' = live /\ pc = "backup" /\ live[index] \notin Broken
        BY <1>0, <1>6 DEF Backup, NeverTorn, Broken
    <2>2. CASE /\ prev' = [prev EXCEPT ![index] = live[index]]
               /\ Now([plan[index] EXCEPT !.backed_up = TRUE])
               /\ pc' \in {"replace", "backup"}
        <3>1. \A d \in Databases :
                 /\ plan'[d].downloaded = plan[d].downloaded
                 /\ d # index => plan'[d].backed_up = plan[d].backed_up
            BY <2>2, NowKeeps
        <3>2. prev \in [Databases -> Contents]
            BY DEF TypeOK
        <3>3. \A d \in Databases : plan'[d].backed_up => prev'[d] \notin Broken
            BY <1>0, <2>1, <2>2, <3>1, <3>2 DEF Whole
        <3> QED
            BY <2>1, <2>2, <3>1, <3>3 DEF Whole, NeverTorn
    <2>3. CASE pc' = "cleanup" /\ plan' = plan
        BY <2>1, <2>3 DEF Whole, NeverTorn, Planning
    <2> QED
        BY <1>6, <2>2, <2>3 DEF Backup, Abort, Onward
<1>7. CASE Replace
    <2>1. prev' = prev /\ pc = "replace" /\ pc' \in {"replace", "undo", "cleanup"}
        BY <1>7 DEF Replace, Onward
    <2>2. plan[index].downloaded \notin Broken
        BY <1>0 DEF Whole
    <2>3. NeverTorn'
        BY <1>0, <1>7, <2>2, LiveWhole DEF Replace
    <2>4. \A d \in Databases :
             /\ plan'[d].downloaded = plan[d].downloaded
             /\ plan'[d].backed_up = plan[d].backed_up
        BY <1>7, NowKeeps DEF Replace
    <2> QED
        BY <2>1, <2>3, <2>4 DEF Whole
<1>8. CASE NothingToUndo
    BY <1>1, <1>8 DEF NothingToUndo, NextUndo, EndUndo, files
<1>9. CASE UndoReplaced
    <2>1. UNCHANGED <<prev, plan>> /\ pc = "undo" /\ pc' \in {"undo", "cleanup"}
        BY <1>9 DEF UndoReplaced, NextUndo, EndUndo
    <2>2. prev[index] \notin Broken
        BY <1>0, <1>9, <2>1 DEF UndoReplaced, Whole
    <2>3. NeverTorn'
        BY <1>0, <1>9, <2>2, LiveWhole DEF UndoReplaced
    <2> QED
        BY <2>1, <2>3 DEF Whole
<1>10. CASE UndoAdded
    <2>1. UNCHANGED <<prev, plan>> /\ pc = "undo" /\ pc' \in {"undo", "cleanup"}
        BY <1>10 DEF UndoAdded, NextUndo, EndUndo
    <2>2. PICK outcome \in {"none", live[index]} :
              live' = [live EXCEPT ![index] = outcome]
        BY <1>10 DEF UndoAdded, Left
    <2>3. NeverTorn'
        BY <1>0, <2>2, LiveWhole DEF NeverTorn, Broken
    <2> QED
        BY <2>1, <2>3 DEF Whole
<1>11. CASE Cleanup \/ Cleaned \/ Discover \/ Crash
    <2>1. UNCHANGED <<live, prev, plan>> /\ pc' \in {"cleanup", "discover", "done"}
        BY <1>11 DEF Cleanup, Cleaned, Discover, Crash, Return, files
    <2> QED
        BY <1>1, <2>1 DEF Planning
<1>12. CASE UNCHANGED vars
    BY <1>12 DEF vars, files, update, Whole, NeverTorn
<1> QED
    BY <1>2, <1>3, <1>4, <1>5, <1>6, <1>7, <1>8, <1>9, <1>10, <1>11, <1>12
    DEF Next

(* No torn or empty download and no torn rollback copy is ever put where   *)
(* Xray reads it (download_file, verify_download, backup_live_file,        *)
(* rollback).                                                              *)
THEOREM NothingTorn == Spec => []NeverTorn
<1>1. Init => Whole
    <2> SUFFICES ASSUME Init PROVE Whole
        OBVIOUS
    <2>1. \A d \in Databases : plan[d].downloaded = "none" /\ ~plan[d].backed_up
        BY DEF Init
    <2>2. NeverTorn
        BY DEF Init, NeverTorn
    <2> QED
        BY <2>1, <2>2 DEF Init, Whole, Broken
<1>2. Inv /\ Whole /\ [Next]_vars => Whole'
    BY WholeStep DEF Inv
<1>3. Whole => NeverTorn
    BY DEF Whole
<1> QED
    BY <1>1, <1>2, <1>3, InitInv, NextInv, PTL DEF Spec

-----------------------------------------------------------------------------
(* A single failure leaves no download behind.                             *)

Clean(d) == temp[d] = "none"

(* Nothing has failed while the update is moving forward, an empty         *)
(* download still to be refused aside, and only the databases up to the    *)
(* current one have a download; an update that fails   *)
(* has seen a failing call; a clean-up that has seen no failure of its own *)
(* has removed what it no longer lists.                                    *)
Tidy ==
    /\ pc \in Planning \union {"backup", "replace"} => ~lost /\ ~failed
    /\ pc \in {"download", "probe", "backup", "replace"} => faults = 0
    /\ pc = "verify" => faults \in {0, 1} /\ (faults = 1 <=> temp[index] \in Unusable)
    /\ pc \in Planning => \A d \in Databases : d > index => Clean(d)
    /\ pc \in {"undo", "cleanup"} => (failed => faults > 0)
    /\ pc = "undo" => failed
    /\ pc = "discover" => ~failed
    /\ pc = "cleanup" /\ ~lost /\ faults <= (IF failed THEN 1 ELSE 0) =>
          \A d \in Databases \ cleaning : Clean(d)
    /\ pc = "discover" /\ ~lost /\ faults = 0 =>
          \A d \in Databases : Clean(d)
    /\ CleanAfterOneFault

(* What a call that failed says about the faults counted.                  *)
LEMMA FaultCounted ==
    ASSUME TypeOK, Fails
    PROVE  /\ faults \in Nat /\ faults' \in Nat /\ faults' >= faults
           /\ lost => lost'
           /\ ~lost => faults' = faults + 1
<1>1. faults \in Nat
    BY DEF TypeOK
<1> QED
    BY <1>1 DEF Fails, net

(* An update that gives up before it replaced anything lists every         *)
(* database that may have a download.                                      *)
LEMMA TidyAbort ==
    ASSUME TypeOK, Tidy, NEW last \in Databases, Abort(1 .. last),
           faults' \in Nat, faults' > 0, pc \in Planning \union {"backup"},
           \A d \in Databases : d > last => temp'[d] = "none"
    PROVE  Tidy'
<1>1. result = "none"
    BY DEF TypeOK, Planning
<1>3. pc' = "cleanup" /\ failed' /\ cleaning' = 1 .. last /\ result' = "none"
    BY <1>1 DEF Abort
<1>4. \A d \in Databases \ cleaning' : temp'[d] = "none"
    BY <1>3, Indices DEF Databases
<1> QED
    BY <1>3, <1>4 DEF Tidy, Clean, CleanAfterOneFault, Planning

(* A step of the rollback goes on with it, or lists every download.        *)
LEMMA TidyUndo ==
    ASSUME TypeOK, Tidy, pc = "undo", Succeeds \/ Fails \/ UNCHANGED net,
           NextUndo \/ EndUndo, UNCHANGED <<failed, result, temp>>
    PROVE  Tidy'
<1>1. failed /\ faults > 0 /\ result = "none" /\ faults \in Nat
    BY DEF Tidy, TypeOK
<1>2. faults' > 0
    BY <1>1, FaultCounted DEF Succeeds, net
<1>3. pc' = "undo" \/ (pc' = "cleanup" /\ cleaning' = Databases)
    BY DEF NextUndo, EndUndo
<1> QED
    BY <1>1, <1>2, <1>3 DEF Tidy, Clean, CleanAfterOneFault, Planning

(* Every step keeps the update tidy.                                       *)
LEMMA TidyStep ==
    ASSUME TypeOK, Whole, Tidy, [Next]_vars
    PROVE  Tidy'
<1>0. /\ result # "none" => pc = "done"
      /\ index \in Databases /\ index \in Nat /\ faults \in Nat
      /\ temp \in [Databases -> Contents]
    BY Indices DEF TypeOK
<1>1. CASE Download
    <2>1. pc = "download" /\ faults = 0 /\ ~lost /\ ~failed
        BY <1>1 DEF Download, Tidy, Planning
    <2>2. PICK left : temp' = [temp EXCEPT ![index] = left]
        BY <1>1 DEF Download, Left
    <2>3. \A d \in Databases : d > index => temp'[d] = "none"
        <3>1. \A d \in Databases : d > index => temp[d] = "none" /\ d # index
            BY <1>0, <2>1, Indices DEF Tidy, Planning, Clean
        <3> QED
            BY <1>0, <2>2, <3>1
    <2>4. CASE /\ Succeeds /\ pc' = "verify" /\ UNCHANGED <<index, failed, result>>
               /\ temp' = [temp EXCEPT ![index] = "new"]
        <3>1. temp'[index'] \notin Unusable
            BY <1>0, <2>4 DEF Unusable
        <3>2. faults' = 0 /\ ~lost'
            BY <2>1, <2>4 DEF Succeeds, net
        <3> QED
            BY <1>0, <2>1, <2>3, <2>4, <3>1, <3>2
            DEF Tidy, Clean, CleanAfterOneFault, Planning
    <2>5. CASE Fails /\ Abort(1 .. index)
        <3>1. faults' = 1
            BY <2>1, <2>5, FaultCounted
        <3> QED
            BY <1>0, <2>1, <2>3, <2>5, <3>1, TidyAbort DEF Planning
    <2>6. CASE /\ FetchesNothing /\ pc' = "verify" /\ UNCHANGED <<index, failed, result>>
               /\ \E content \in Unusable : temp' = [temp EXCEPT ![index] = content]
        <3>1. temp'[index'] \in Unusable /\ faults' = 1 /\ ~lost'
            BY <1>0, <2>1, <2>6 DEF FetchesNothing
        <3> QED
            BY <1>0, <2>1, <2>3, <2>6, <3>1
            DEF Tidy, Clean, CleanAfterOneFault, Planning
    <2> QED
        BY <1>1, <2>4, <2>5, <2>6 DEF Download
<1>2. CASE Verify
    <2>1. /\ pc = "verify" /\ ~lost /\ ~failed /\ temp' = temp
          /\ faults \in {0, 1} /\ (faults = 1 <=> temp[index] \in Unusable)
        BY <1>2 DEF Verify, Tidy, Planning, files
    <2>2. \A d \in Databases : d > index => temp'[d] = "none"
        BY <2>1 DEF Tidy, Planning, Clean
    <2>3. CASE /\ Succeeds /\ pc' = "probe" /\ UNCHANGED <<index, failed, result>>
               /\ temp[index] \notin Unusable
        BY <1>0, <2>1, <2>2, <2>3
        DEF Succeeds, net, Tidy, Clean, CleanAfterOneFault, Planning
    <2>4. CASE Fails /\ Abort(1 .. index)
        <3>1. faults' \in Nat /\ faults' > 0
            BY <2>1, <2>4, FaultCounted
        <3> QED
            BY <1>0, <2>1, <2>2, <2>4, <3>1, TidyAbort DEF Planning
    <2>5. CASE Succeeds /\ temp[index] \in Unusable /\ Abort(1 .. index)
        <3>1. faults' = 1
            BY <2>1, <2>5 DEF Succeeds, net
        <3> QED
            BY <1>0, <2>1, <2>2, <2>5, <3>1, TidyAbort DEF Planning
    <2> QED
        BY <1>2, <2>3, <2>4, <2>5 DEF Verify
<1>3. CASE Probe
    <2>1. pc = "probe" /\ faults = 0 /\ ~lost /\ ~failed /\ temp' = temp
        BY <1>3 DEF Probe, Tidy, Planning, files
    <2>2. \A d \in Databases : d > index => temp'[d] = "none"
        BY <2>1 DEF Tidy, Planning, Clean
    <2>3. CASE Succeeds /\ Onward("backup", "download") /\ UNCHANGED <<failed, result>>
        <3>1. (pc' = "download" /\ index' = index + 1) \/ pc' = "backup"
            BY <2>3 DEF Onward
        <3>2. pc' = "download" => \A d \in Databases : d > index' => temp'[d] = "none"
            BY <1>0, <2>2, <3>1, Indices
        <3> QED
            BY <1>0, <2>1, <2>3, <3>1, <3>2
            DEF Succeeds, net, Tidy, Clean, CleanAfterOneFault, Planning
    <2>4. CASE Fails /\ Abort(1 .. index)
        <3>1. faults' = 1
            BY <2>1, <2>4, FaultCounted
        <3> QED
            BY <1>0, <2>1, <2>2, <2>4, <3>1, TidyAbort DEF Planning
    <2> QED
        BY <1>3, <2>3, <2>4 DEF Probe
<1>4. CASE NothingToBackUp
    <2>1. pc = "backup" /\ faults = 0 /\ ~lost /\ ~failed
        BY <1>4 DEF NothingToBackUp, Tidy
    <2>2. pc' \in {"backup", "replace"} /\ UNCHANGED <<temp, failed, result, lost, faults>>
        BY <1>4 DEF NothingToBackUp, Onward, files, net
    <2> QED
        BY <1>0, <2>1, <2>2 DEF Tidy, CleanAfterOneFault, Planning
<1>5. CASE Backup
    <2>1. pc = "backup" /\ faults = 0 /\ ~lost /\ ~failed /\ temp' = temp
        BY <1>5 DEF Backup, Tidy
    <2>2. CASE Succeeds /\ Onward("replace", "backup") /\ UNCHANGED <<failed, result>>
        <3>1. pc' \in {"backup", "replace"}
            BY <2>2 DEF Onward
        <3> QED
            BY <1>0, <2>1, <2>2, <3>1
            DEF Succeeds, net, Tidy, CleanAfterOneFault, Planning
    <2>3. CASE Fails /\ Abort(Databases)
        <3>1. Count \in Databases /\ Databases = 1 .. Count
            BY GeoDataAssumption DEF Databases
        <3>2. \A d \in Databases : d > Count => temp'[d] = "none"
            BY <3>1, GeoDataAssumption
        <3>3. faults' = 1
            BY <2>1, <2>3, FaultCounted
        <3> QED
            BY <2>1, <2>3, <3>1, <3>2, <3>3, TidyAbort
    <2> QED
        BY <1>5, <2>2, <2>3 DEF Backup
<1>6. CASE Replace
    <2>1. pc = "replace" /\ faults = 0 /\ ~lost /\ ~failed /\ temp' = temp
        BY <1>6 DEF Replace, Tidy
    <2>2. CASE /\ Succeeds /\ Onward("cleanup", "replace")
               /\ cleaning' = IF index = Count THEN Databases ELSE cleaning
               /\ UNCHANGED <<failed, result>>
        <3>1. pc' = "replace" \/ (pc' = "cleanup" /\ cleaning' = Databases)
            BY <1>0, <2>2, Indices, GeoDataAssumption DEF Onward, Databases
        <3> QED
            BY <1>0, <2>1, <2>2, <3>1
            DEF Succeeds, net, Tidy, CleanAfterOneFault, Planning
    <2>3. CASE Fails /\ failed' = TRUE /\ pc' = "undo" /\ result' = result
        <3>1. faults' = 1
            BY <2>1, <2>3, FaultCounted
        <3> QED
            BY <1>0, <2>1, <2>3, <3>1 DEF Tidy, CleanAfterOneFault, Planning
    <2> QED
        BY <1>6, <2>2, <2>3 DEF Replace
<1>7. CASE NothingToUndo
    BY <1>7, TidyUndo DEF NothingToUndo, files
<1>8. CASE UndoReplaced
    BY <1>8, TidyUndo DEF UndoReplaced
<1>9. CASE UndoAdded
    BY <1>9, TidyUndo DEF UndoAdded
<1>10. CASE Cleanup
    <2>1. PICK d \in cleaning :
              /\ cleaning' = cleaning \ {d}
              /\ \/ Succeeds /\ temp' = [temp EXCEPT ![d] = "none"]
                 \/ Fails /\ temp' \in {temp, IF lost THEN temp
                                                ELSE [temp EXCEPT ![d] = "none"]}
        BY <1>10 DEF Cleanup
    <2>2. pc = "cleanup" /\ UNCHANGED <<pc, failed, result>>
        BY <1>10 DEF Cleanup
    <2>3. failed => faults > 0
        BY <2>2 DEF Tidy
    <2>4. CASE Succeeds /\ temp' = [temp EXCEPT ![d] = "none"]
        <3>1. UNCHANGED <<lost, faults>>
            BY <2>4 DEF Succeeds, net
        <3>2. ~lost /\ faults <= (IF failed THEN 1 ELSE 0) =>
                \A e \in Databases \ cleaning : temp[e] = "none"
            BY <2>2 DEF Tidy, Clean
        <3>3. ~lost /\ faults <= (IF failed THEN 1 ELSE 0) =>
                \A e \in Databases \ cleaning' : temp'[e] = "none"
            BY <1>0, <2>1, <2>4, <3>2
        <3> QED
            BY <1>0, <2>2, <2>3, <3>1, <3>3
            DEF Tidy, Clean, CleanAfterOneFault, Planning
    <2>5. CASE Fails
        <3>1. /\ lost \/ faults' > (IF failed THEN 1 ELSE 0)
              /\ lost => lost'
              /\ failed => faults' > 0
            BY <2>3, <2>5, FaultCounted
        <3> QED
            BY <1>0, <2>2, <3>1, FaultCounted, <2>5
            DEF Tidy, CleanAfterOneFault, Planning
    <2> QED
        BY <2>1, <2>4, <2>5
<1>11. CASE Cleaned
    <2>1. /\ pc = "cleanup" /\ cleaning = {}
          /\ UNCHANGED <<temp, lost, faults, failed>>
        BY <1>11 DEF Cleaned, files, net
    <2>2. ~lost /\ faults <= (IF failed THEN 1 ELSE 0) =>
            \A d \in Databases : temp[d] = "none"
        BY <2>1 DEF Tidy, Clean
    <2>3. CASE failed /\ pc' = "done"
        BY <1>0, <2>1, <2>2, <2>3 DEF Tidy, Clean, CleanAfterOneFault, Planning
    <2>4. CASE ~failed /\ pc' = "discover" /\ result' = result
        BY <1>0, <2>1, <2>2, <2>4 DEF Tidy, Clean, CleanAfterOneFault, Planning
    <2> QED
        BY <1>11, <2>3, <2>4 DEF Cleaned, Return
<1>12. CASE Discover
    <2>1. pc = "discover" /\ pc' = "done" /\ UNCHANGED <<temp, failed>>
        BY <1>12 DEF Discover, Return, files
    <2>2. ~lost /\ faults = 0 => \A d \in Databases : temp[d] = "none"
        BY <2>1 DEF Tidy, Clean
    <2>3. CASE result' = "ok"
        BY <2>1, <2>3 DEF Tidy, CleanAfterOneFault, Planning
    <2>4. CASE Fails
        <3>1. faults' = 1 /\ ~lost' => faults = 0 /\ ~lost
            BY <2>4, FaultCounted
        <3> QED
            BY <2>1, <2>2, <3>1 DEF Tidy, CleanAfterOneFault, Planning
    <2> QED
        BY <1>12, <2>3, <2>4 DEF Discover, Return
<1>13. CASE Crash
    BY <1>0, <1>13 DEF Crash, Tidy, CleanAfterOneFault, Planning
<1>14. CASE UNCHANGED vars
    BY <1>14 DEF vars, files, update, net, Tidy, Clean, CleanAfterOneFault
<1> QED
    BY <1>1, <1>2, <1>3, <1>4, <1>5, <1>6, <1>7, <1>8, <1>9, <1>10, <1>11,
       <1>12, <1>13, <1>14
    DEF Next

(* Whatever single call it was that failed and made the update fail, every *)
(* download was removed before the error was reported (run_update,         *)
(* cleanup_temp_files).                                                    *)
THEOREM CleanedUp == Spec => []CleanAfterOneFault
<1>1. Init => Whole /\ Tidy
    <2> SUFFICES ASSUME Init PROVE Whole /\ Tidy
        OBVIOUS
    <2>1. \A d \in Databases : /\ plan[d].downloaded = "none" /\ ~plan[d].backed_up
                               /\ temp[d] = "none"
        BY DEF Init
    <2>2. NeverTorn
        BY DEF Init, NeverTorn
    <2>3. Whole
        BY <2>1, <2>2 DEF Init, Whole, Broken
    <2>4. Tidy
        BY <2>1 DEF Init, Tidy, Clean, CleanAfterOneFault, Planning
    <2> QED
        BY <2>3, <2>4
<1>2. Inv /\ Whole /\ [Next]_vars => Whole'
    BY WholeStep DEF Inv
<1>3. Inv /\ Whole /\ Tidy /\ [Next]_vars => Tidy'
    BY TidyStep DEF Inv
<1>4. Tidy => CleanAfterOneFault
    BY DEF Tidy
<1> QED
    BY <1>1, <1>2, <1>3, <1>4, InitInv, NextInv, PTL DEF Spec

-----------------------------------------------------------------------------
(* A single failure is rolled back.                                        *)

AsBefore(d) == plan[d].replaced => live[d] = before[d]

(* Nothing is replaced before every copy is taken; then the databases in   *)
(* front of the current one are replaced, each with its copy, and while    *)
(* the rollback has seen no failure of its own, those it has passed are    *)
(* what they were.                                                         *)
Rolling ==
    /\ pc \in Planning \union {"backup"} => \A d \in Databases : ~plan[d].replaced
    /\ pc = "backup" =>
          \A d \in Databases : d < index /\ plan[d].had => plan[d].backed_up
    /\ pc \in {"replace", "undo"} =>
          \A d \in Databases : plan[d].had => plan[d].backed_up
    /\ pc = "undo" /\ faults = 1 /\ ~lost =>
          \A d \in Databases : d < index => AsBefore(d)
    /\ pc = "cleanup" /\ failed /\ faults = 1 /\ ~lost =>
          \A d \in Databases : AsBefore(d)
    /\ RolledBack

(* What the plan of a database keeps while something is recorded in it.    *)
LEMMA NowRolls ==
    ASSUME TypeOK, NEW value, NEW d \in Databases
    PROVE  /\ Now([plan[index] EXCEPT !.downloaded = value]) \/
              Now([plan[index] EXCEPT !.had = value]) =>
                plan'[d].replaced = plan[d].replaced
           /\ Now([plan[index] EXCEPT !.backed_up = value]) =>
                /\ plan'[d].replaced = plan[d].replaced
                /\ plan'[d].had = plan[d].had
                /\ plan'[d].backed_up = IF d = index THEN value ELSE plan[d].backed_up
           /\ Now([plan[index] EXCEPT !.replaced = value]) =>
                /\ plan'[d].had = plan[d].had
                /\ plan'[d].backed_up = plan[d].backed_up
<1>1. plan[index] \in Plan /\ plan \in [Databases -> Plan] /\ index \in Databases
    BY DEF TypeOK
<1>2. ASSUME NEW database, Now(database)
      PROVE  plan'[d] = IF d = index THEN database ELSE plan[d]
    BY <1>1, <1>2 DEF Now
<1>3. /\ [plan[index] EXCEPT !.downloaded = value].replaced = plan[index].replaced
      /\ [plan[index] EXCEPT !.had = value].replaced = plan[index].replaced
      /\ [plan[index] EXCEPT !.backed_up = value].replaced = plan[index].replaced
      /\ [plan[index] EXCEPT !.backed_up = value].had = plan[index].had
      /\ [plan[index] EXCEPT !.backed_up = value].backed_up = value
      /\ [plan[index] EXCEPT !.replaced = value].had = plan[index].had
      /\ [plan[index] EXCEPT !.replaced = value].backed_up = plan[index].backed_up
    BY <1>1 DEF Plan
<1> QED
    BY <1>2, <1>3

(* A step that goes on planning replaces nothing.                          *)
LEMMA RollsOn ==
    ASSUME TypeOK, Rolling, pc \in Planning \union {"backup"},
           pc' \in Planning \union {"cleanup"}, result' = result,
           \A d \in Databases : plan'[d].replaced = plan[d].replaced
    PROVE  Rolling'
<1>1. \A d \in Databases : ~plan'[d].replaced
    BY DEF Rolling
<1> QED
    BY <1>1 DEF Rolling, RolledBack, AsBefore, Planning

(* The next database to roll back, or the end of it, when this one is as   *)
(* it was or something failed.                                             *)
LEMMA RollsBack ==
    ASSUME TypeOK, Rolling, pc = "undo", NextUndo, UNCHANGED <<plan, result, before, net>>,
           \A d \in Databases : d # index => live'[d] = live[d],
           plan[index].replaced => live'[index] = before[index]
    PROVE  Rolling'
<1>1. result' = "none"
    BY DEF TypeOK
<1>2. faults = 1 /\ ~lost => \A d \in Databases : d < index \/ d = index => AsBefore(d)'
    BY DEF Rolling, AsBefore
<1>3. CASE index < Count
    <2>1. pc' = "undo" /\ index' = index + 1
        BY <1>3 DEF NextUndo
    <2>2. \A d \in Databases : d < index' => d < index \/ d = index
        BY <2>1 DEF TypeOK, Databases
    <2> QED
        BY <1>1, <1>2, <2>1, <2>2 DEF Rolling, RolledBack, Planning, net
<1>4. CASE ~(index < Count)
    <2>1. pc' = "cleanup"
        BY <1>4 DEF NextUndo, EndUndo
    <2>2. \A d \in Databases : d < index \/ d = index
        BY <1>4, Indices DEF TypeOK
    <2> QED
        BY <1>1, <1>2, <2>1, <2>2 DEF Rolling, RolledBack, Planning, net
<1> QED
    BY <1>3, <1>4

(* The rollback ends with a failure of its own.                            *)
LEMMA RollEnds ==
    ASSUME TypeOK, Tidy, Rolling, pc = "undo", Fails, EndUndo, result' = result
    PROVE  Rolling'
<1>1. result' = "none" /\ faults > 0 /\ pc' = "cleanup"
    BY DEF TypeOK, Tidy, EndUndo
<1>2. ~(faults' = 1 /\ ~lost')
    BY <1>1, FaultCounted
<1> QED
    BY <1>1, <1>2 DEF Rolling, RolledBack, Planning

(* Every step keeps the rollback going.                                    *)
LEMMA RollingStep ==
    ASSUME Inv, Whole, Tidy, Rolling, [Next]_vars
    PROVE  Rolling'
<1> USE DEF Inv
<1>0. /\ result # "none" => pc = "done"
      /\ index \in Databases /\ index \in Nat /\ faults \in Nat
      /\ live \in [Databases -> Contents]
    BY Indices DEF TypeOK
<1>1. CASE Download \/ Verify
    <2>1. /\ pc \in Planning /\ pc' \in Planning \union {"cleanup"}
          /\ result' = result
        BY <1>1 DEF Download, Verify, Abort, Planning
    <2>2. \A d \in Databases : plan'[d].replaced = plan[d].replaced
        BY <1>1, NowRolls DEF Download, Verify, Abort
    <2> QED
        BY <2>1, <2>2, RollsOn
<1>2. CASE Probe
    <2>1. \A d \in Databases : plan'[d].replaced = plan[d].replaced
        BY <1>2, NowRolls DEF Probe, Abort
    <2>2. pc \in Planning /\ result' = result /\ result = "none"
        BY <1>0, <1>2 DEF Probe, Abort, Planning
    <2>3. CASE pc' \in Planning \union {"cleanup"}
        BY <2>1, <2>2, <2>3, RollsOn
    <2>4. CASE pc' = "backup" /\ index' = 1
        <3>1. \A d \in Databases : ~(d < index')
            BY <2>4 DEF Databases
        <3> QED
            BY <2>1, <2>2, <2>4, <3>1 DEF Rolling, RolledBack, Planning
    <2> QED
        BY <1>2, <2>3, <2>4 DEF Probe, Abort, Onward, Planning
<1>3. ASSUME pc = "backup", Onward("replace", "backup"), result' = result,
             \A d \in Databases : plan'[d].replaced = plan[d].replaced,
             \A d \in Databases : d < index \/ d = index =>
                 (plan'[d].had => plan'[d].backed_up)
      PROVE  Rolling'
    <2>1. result' = "none" /\ \A d \in Databases : ~plan'[d].replaced
        BY <1>0, <1>3 DEF Rolling
    <2>2. CASE index < Count
        <3>1. pc' = "backup" /\ index' = index + 1
            BY <1>3, <2>2 DEF Onward
        <3>2. \A d \in Databases : d < index' => d < index \/ d = index
            BY <3>1 DEF TypeOK, Databases
        <3> QED
            BY <1>3, <2>1, <3>1, <3>2 DEF Rolling, RolledBack, Planning
    <2>3. CASE ~(index < Count)
        <3>1. pc' = "replace"
            BY <1>3, <2>3 DEF Onward
        <3>2. \A d \in Databases : d < index \/ d = index
            BY <2>3, Indices DEF TypeOK
        <3> QED
            BY <1>3, <2>1, <3>1, <3>2 DEF Rolling, RolledBack, Planning
    <2> QED
        BY <2>2, <2>3
<1>4. CASE NothingToBackUp
    <2>1. /\ pc = "backup" /\ Onward("replace", "backup") /\ ~plan[index].had
          /\ UNCHANGED <<plan, result>>
        BY <1>4 DEF NothingToBackUp
    <2>2. \A d \in Databases : d < index \/ d = index =>
              (plan'[d].had => plan'[d].backed_up)
        BY <2>1 DEF Rolling
    <2> QED
        BY <1>3, <2>1, <2>2
<1>5. CASE Backup
    <2>1. pc = "backup" /\ result' = result
        BY <1>5 DEF Backup, Abort
    <2>2. CASE Now([plan[index] EXCEPT !.backed_up = TRUE]) /\ Onward("replace", "backup")
        <3>1. \A d \in Databases :
                 /\ plan'[d].replaced = plan[d].replaced
                 /\ plan'[d].had = plan[d].had
                 /\ plan'[d].backed_up = IF d = index THEN TRUE ELSE plan[d].backed_up
            BY <2>2, NowRolls
        <3>2. \A d \in Databases : d < index \/ d = index =>
                  (plan'[d].had => plan'[d].backed_up)
            BY <2>1, <3>1 DEF Rolling
        <3> QED
            BY <1>3, <2>1, <2>2, <3>1, <3>2
    <2>3. CASE pc' = "cleanup" /\ plan' = plan
        BY <2>1, <2>3, RollsOn
    <2> QED
        BY <1>5, <2>2, <2>3 DEF Backup, Abort
<1>6. CASE Replace
    <2>1. pc = "replace" /\ result' = "none"
        BY <1>0, <1>6 DEF Replace
    <2>2. CASE Now([plan[index] EXCEPT !.replaced = TRUE])
               /\ pc' \in {"replace", "cleanup"} /\ failed' = failed
        <3>1. \A d \in Databases : plan'[d].had = plan[d].had
                                   /\ plan'[d].backed_up = plan[d].backed_up
            BY <2>2, NowRolls
        <3>2. ~failed'
            BY <2>1, <2>2 DEF Tidy
        <3> QED
            BY <2>1, <2>2, <3>1, <3>2 DEF Rolling, RolledBack, Planning
    <2>3. CASE pc' = "undo" /\ index' = 1 /\ plan' = plan
        <3>1. \A d \in Databases : ~(d < index')
            BY <2>3 DEF Databases
        <3> QED
            BY <2>1, <2>3, <3>1 DEF Rolling, RolledBack, Planning
    <2> QED
        BY <1>6, <2>2, <2>3 DEF Replace, Onward
<1>7. CASE NothingToUndo
    <2>1. pc = "undo" /\ NextUndo /\ UNCHANGED <<live, plan, result, before, net>>
        BY <1>7 DEF NothingToUndo, files
    <2>2. ~plan[index].replaced
        BY <1>0, <1>7, <2>1 DEF NothingToUndo, Rolling
    <2> QED
        BY <2>1, <2>2, RollsBack
<1>8. CASE UndoReplaced
    <2>1. /\ pc = "undo" /\ UNCHANGED <<plan, result, before, prev>>
          /\ plan[index].had
        BY <1>8 DEF UndoReplaced
    <2>2. CASE Succeeds /\ live' = [live EXCEPT ![index] = prev[index]] /\ NextUndo
        <3>1. before[index] = "old"
            BY <1>0, <2>1 DEF Copied, TypeOK
        <3>2. prev[index] = before[index]
            BY <1>0, <2>1, <3>1 DEF Copied
        <3>3. /\ \A d \in Databases : d # index => live'[d] = live[d]
              /\ live'[index] = before[index]
            BY <1>0, <2>2, <3>2
        <3> QED
            BY <2>1, <2>2, <3>3, RollsBack DEF Succeeds
    <2>3. CASE Fails /\ EndUndo
        BY <2>1, <2>3, RollEnds
    <2> QED
        BY <1>8, <2>2, <2>3 DEF UndoReplaced
<1>9. CASE UndoAdded
    <2>1. /\ pc = "undo" /\ UNCHANGED <<plan, result, before, prev>>
          /\ ~plan[index].had
        BY <1>9 DEF UndoAdded
    <2>2. CASE Succeeds /\ live' = [live EXCEPT ![index] = "none"] /\ NextUndo
        <3>1. before[index] = "none"
            BY <1>0, <2>1 DEF Copied
        <3>2. /\ \A d \in Databases : d # index => live'[d] = live[d]
              /\ live'[index] = before[index]
            BY <1>0, <2>2, <3>1
        <3> QED
            BY <2>1, <2>2, <3>2, RollsBack DEF Succeeds
    <2>3. CASE Fails /\ EndUndo
        BY <2>1, <2>3, RollEnds
    <2> QED
        BY <1>9, <2>2, <2>3 DEF UndoAdded
<1>10. CASE Cleanup
    <2>1. /\ pc = "cleanup" /\ UNCHANGED <<pc, live, plan, before, failed, result>>
          /\ result = "none"
        BY <1>0, <1>10 DEF Cleanup
    <2>2. CASE Succeeds
        BY <2>1, <2>2 DEF Succeeds, net, Rolling, RolledBack, AsBefore, Planning
    <2>3. CASE Fails
        <3>1. failed => ~(faults' = 1 /\ ~lost')
            BY <1>0, <2>1, <2>3, FaultCounted DEF Tidy
        <3> QED
            BY <2>1, <3>1 DEF Rolling, RolledBack, Planning
    <2> QED
        BY <1>10, <2>2, <2>3 DEF Cleanup
<1>11. CASE Cleaned
    <2>1. /\ pc = "cleanup" /\ pc' \in {"discover", "done"}
          /\ UNCHANGED <<live, plan, before, failed, lost, faults>>
        BY <1>11 DEF Cleaned, Return, files, net
    <2>2. failed /\ faults = 1 /\ ~lost => \A d \in Databases : AsBefore(d)'
        BY <2>1 DEF Rolling, AsBefore
    <2> QED
        BY <2>1, <2>2 DEF Rolling, RolledBack, AsBefore, Planning
<1>12. CASE Discover
    <2>1. pc' = "done" /\ ~failed'
        BY <1>12 DEF Discover, Return, Tidy
    <2> QED
        BY <2>1 DEF Rolling, RolledBack, Planning
<1>13. CASE Crash
    <2>1. pc' = "done" /\ result' = "none"
        BY <1>0, <1>13 DEF Crash
    <2> QED
        BY <2>1 DEF Rolling, RolledBack, Planning
<1>14. CASE UNCHANGED vars
    BY <1>14 DEF vars, files, update, net, Rolling, RolledBack, AsBefore
<1> QED
    BY <1>1, <1>2, <1>4, <1>5, <1>6, <1>7, <1>8, <1>9, <1>10, <1>11, <1>12,
       <1>13, <1>14
    DEF Next

(* Whatever single call it was that failed and made the update fail, every *)
(* database it is known to have replaced is what it was before, for any    *)
(* number of databases (rollback).                                         *)
THEOREM FailedUpdateRolledBack == Spec => []RolledBack
<1>1. Init => Whole /\ Tidy /\ Rolling
    <2> SUFFICES ASSUME Init PROVE Whole /\ Tidy /\ Rolling
        OBVIOUS
    <2>1. \A d \in Databases : /\ plan[d].downloaded = "none" /\ ~plan[d].backed_up
                               /\ ~plan[d].replaced /\ temp[d] = "none"
        BY DEF Init
    <2>2. NeverTorn
        BY DEF Init, NeverTorn
    <2>3. Whole
        BY <2>1, <2>2 DEF Init, Whole, Broken
    <2>4. Tidy
        BY <2>1 DEF Init, Tidy, Clean, CleanAfterOneFault, Planning
    <2>5. Rolling
        BY <2>1 DEF Init, Rolling, RolledBack, Planning
    <2> QED
        BY <2>3, <2>4, <2>5
<1>2. Inv /\ Whole /\ [Next]_vars => Whole'
    BY WholeStep DEF Inv
<1>3. Inv /\ Whole /\ Tidy /\ [Next]_vars => Tidy'
    BY TidyStep DEF Inv
<1>4. Inv /\ Whole /\ Tidy /\ Rolling /\ [Next]_vars => Rolling'
    BY RollingStep
<1>5. Rolling => RolledBack
    BY DEF Rolling
<1> QED
    BY <1>1, <1>2, <1>3, <1>4, <1>5, InitInv, NextInv, PTL DEF Spec
=============================================================================
