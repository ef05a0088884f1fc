------------------------- MODULE ConfigWriteProofs -------------------------
(***************************************************************************)
(* Proofs about ConfigWrite for every set of contents, every number of     *)
(* jobs, faults and edits, and both kinds of server.  Neither CrashAtomic  *)
(* nor OutcomeTruthful is inductive: each step relies on where the file    *)
(* was left by the previous remote call, which "Places" says for every     *)
(* value of pc, and on what the worker holds, which "Shape" says.          *)
(***************************************************************************)
EXTENDS ConfigWrite, TLAPS

Putting == {"write_temp", "drop_temp", "rename", "displace", "fill_gap",
            "drop_aside", "undo_displace"}
Untouched == {"connect", "compare", "read_pick", "read_original",
              "write_backup", "probe", "create", "unlink"}
Changed == {"test", "read_backup", "uncreate"}

(* Which kind of job is where, and what is in the temporary file: true     *)
(* whoever else edits the file.                                            *)
Shape ==
    /\ job.kind = "remove" => job.new = NoFile
    /\ pc \in {"create", "uncreate", "probe"} => job.kind = "add"
    /\ pc = "unlink" => job.kind = "remove"
    /\ pc = "read_pick" => job.kind = "rollback"
    /\ pc = "write_backup" => origin # NoFile
    /\ pc \in Putting \union {"read_backup", "read_original", "write_backup"}
          => job.kind # "add"
    /\ pc \in Putting /\ stage = "write" => job.kind \in Replacing
    /\ pc \in Untouched \union Changed => stage = "write"
    /\ pc = "rename" => file["temp"] = payload
    /\ pc \in {"displace", "fill_gap"} => file["temp"] \in {payload, NoFile}

(* The content the live path held when write_file_atomic was called.       *)
Old == IF stage = "write" THEN before ELSE job.new

(* No call of the job has been left without an answer.                     *)
Certain == session = "up" /\ ~lost

(* Where the content is at each step, as long as nobody else edits it.     *)
Places ==
    /\ pc \in Untouched => live = before
    /\ pc = "write_backup" => origin = before
    /\ pc \in Changed => live = job.new
    /\ pc \in {"create", "test", "uncreate"} /\ job.kind = "add"
          => before = NoFile
    /\ pc \in Putting \union {"unlink", "test", "read_backup"}
       /\ job.kind # "add" => backups[rec.sec] = before
    /\ pc \in Putting
          => payload = IF stage = "write" THEN job.new ELSE before
    /\ pc \in {"write_temp", "drop_temp", "rename"} => live = Old
    /\ pc = "displace" =>
          /\ live \in {Old, payload}
          /\ Certain => live = Old
    /\ pc = "fill_gap" =>
          /\ live = NoFile /\ file["aside"] \in {Old, payload}
          /\ Certain => file["aside"] = Old
    /\ pc = "drop_aside" => live = payload
    /\ pc = "undo_displace" =>
          /\ live \in {NoFile, payload} /\ file["aside"] \in {Old, payload}
          /\ Certain => live = NoFile /\ file["aside"] = Old

IInv ==
    /\ TypeOK
    /\ Shape
    /\ ~edited => Places
    /\ CrashAtomic
    /\ OutcomeTruthful

-----------------------------------------------------------------------------
(* Initially the invariant holds.                                          *)
LEMMA InitIInv == Init => IInv
<1> SUFFICES ASSUME Init PROVE IInv
  OBVIOUS
<1> USE ConfigWriteAssumption DEF live, Files, Stored, Parsed, Seconds
<1>1. live \in Parsed /\ file \in [Paths -> Files]
  BY DEF Init, Paths
<1>2. job \in Job /\ rec \in Record
  BY DEF Init, Job, NoJob, NoRecord, Record, AllKinds
<1>3. job.kind # "rollback" => job.new \in Parsed
  BY DEF Init, NoJob
<1>4. pc \in Steps /\ outcome \in Outcomes
  BY DEF Init, Steps, Outcomes
<1>5. /\ strays \in SUBSET Stored /\ backups \in [Seconds -> Files]
      /\ clock \in Seconds /\ session \in {"up", "down"}
      /\ stage \in {"write", "restore"}
      /\ origin \in Files /\ payload \in Files
      /\ loaded \in Parsed \union {Unloaded} /\ before \in Files
      /\ faults \in Nat /\ edits \in Nat /\ jobs \in Nat
  BY <1>1 DEF Init
<1>6. edited \in BOOLEAN
  BY DEF Init
<1>11. lost \in BOOLEAN /\ server \in AllServers
  BY DEF Init
<1> HIDE DEF live, Files, Stored, Parsed, Seconds
<1>7. TypeOK
  BY <1>1, <1>2, <1>3, <1>4, <1>5, <1>6, <1>11 DEF TypeOK
<1>8. Shape
  BY DEF Init, Shape, NoJob, Putting, Untouched, Changed
<1>9. Places
  BY ConfigWriteAssumption DEF Init, live, Certain, Places, Putting, Untouched, Changed
<1>10. CrashAtomic /\ OutcomeTruthful
  BY DEF Init, live, CrashAtomic, OutcomeTruthful
<1> QED
  BY <1>7, <1>8, <1>9, <1>10 DEF IInv

USE DEF disk, link, ghosts, env, put

(* However a call ends, the session and the counters keep their types.     *)
LEMMA LinkType ==
  ASSUME TypeOK, Answered \/ Fails
  PROVE  session' \in {"up", "down"} /\ faults' \in Nat /\ lost' \in BOOLEAN
<1> USE DEF Answered, Fails, Broken, Refused, Dropped, Fault, TimedOut, Silent, Dead
<1>1. session' \in {"up", "down"} /\ faults' \in Nat
  BY DEF TypeOK
<1>2. lost' = lost \/ lost' = TRUE
  OBVIOUS
<1>3. lost \in BOOLEAN
  BY DEF TypeOK
<1> QED
  BY <1>1, <1>2, <1>3

(* Every step keeps every variable in its type.                            *)
LEMMA TypeStep == TypeOK /\ Shape /\ [Next]_vars => TypeOK'
<1> SUFFICES ASSUME TypeOK, Shape, [Next]_vars PROVE TypeOK'
  OBVIOUS
<1> USE ConfigWriteAssumption DEF TypeOK, Steps, Outcomes, Files, Stored,
        Parsed, Paths, Seconds, Record
<1>0. /\ job.kind \in AllKinds /\ job.base \in Parsed /\ job.new \in Files
      /\ job.pick \in Seconds /\ job.tested \in BOOLEAN
  BY DEF Job
<1>1. CASE UNCHANGED vars
  BY <1>1 DEF vars
<1>2. ASSUME NEW kind \in Kinds, NEW new \in Contents \union {NoFile},
             NEW pick \in Seconds, NEW tested \in BOOLEAN,
             Start(kind, new, pick, tested)
      PROVE  TypeOK'
  <2>1. job' \in Job
    BY <1>2 DEF Start, Job
  <2>2. job'.kind # "rollback" => job'.new \in Parsed
    BY <1>2 DEF Start
  <2>3. rec' \in Record
    BY <1>2 DEF Start, NoRecord
  <2>4. pc' \in Steps /\ outcome' \in Outcomes
    BY <1>2 DEF Start
  <2>5. before' \in Files /\ faults' \in Nat /\ jobs' \in Nat
    BY <1>2 DEF Start, live
  <2>6. edited' \in BOOLEAN /\ lost' \in BOOLEAN
    BY <1>2 DEF Start
  <2>7. UNCHANGED <<disk, origin, payload, server, clock, loaded, edits>>
        /\ stage' \in {"write", "restore"} /\ session' \in {"up", "down"}
    BY <1>2 DEF Start
  <2> HIDE DEF Steps, Outcomes, Files, Stored, Parsed, Paths, Seconds, Record
  <2> QED
    BY <2>1, <2>2, <2>3, <2>4, <2>5, <2>6, <2>7
<1>3. CASE Connect
  <2>1. pc' \in Steps /\ outcome' \in Outcomes
    BY <1>3 DEF Connect, Goto, Finish, FirstCall
  <2>2. session' \in {"up", "down"} /\ faults' \in Nat /\ lost' \in BOOLEAN
    BY <1>3 DEF Connect
  <2> QED
    BY <1>3, <2>1, <2>2 DEF Connect
<1>4. CASE Compare
  <2>1. pc' \in Steps /\ outcome' \in Outcomes
    BY <1>4 DEF Compare, Goto, Finish
  <2>2. session' \in {"up", "down"} /\ faults' \in Nat /\ lost' \in BOOLEAN
    <3>1. Answered \/ Fails
      BY <1>4 DEF Compare, Fails, Broken, Silent
    <3> QED
      BY <3>1, LinkType
  <2> QED
    BY <1>4, <2>1, <2>2 DEF Compare
<1>5. CASE ReadPick
  <2>1. backups[job.pick] \in Files
    BY <1>0
  <2>2. job' \in Job
    <3>1. job' = job \/ job' = [job EXCEPT !.new = backups[job.pick]]
      BY <1>5 DEF ReadPick
    <3>2. job \in Job
      OBVIOUS
    <3> HIDE DEF TypeOK, Files, Parsed, Seconds
    <3> QED
      BY <2>1, <3>1, <3>2 DEF Job
  <2>3. job'.kind # "rollback" => job'.new \in Parsed
    BY <1>5, <2>1 DEF ReadPick, Job, Shape
  <2>4. pc' \in Steps /\ outcome' \in Outcomes
    BY <1>5 DEF ReadPick, Goto, Finish
  <2>5. session' \in {"up", "down"} /\ faults' \in Nat /\ lost' \in BOOLEAN
    <3>1. Answered \/ Fails
      BY <1>5 DEF ReadPick, Fails, Broken, Silent
    <3> QED
      BY <3>1, LinkType
  <2>6. UNCHANGED <<disk, stage, origin, payload, rec, ghosts, env>>
    BY <1>5 DEF ReadPick
  <2> HIDE DEF Steps, Outcomes, Files, Stored, Parsed, Paths, Seconds, Record
  <2> QED
    BY <2>2, <2>3, <2>4, <2>5, <2>6
<1>6. CASE ReadOriginal
  <2>1. origin' \in Files
    BY <1>6 DEF ReadOriginal, live
  <2>2. pc' \in Steps /\ outcome' \in Outcomes
    BY <1>6 DEF ReadOriginal, Goto, Finish
  <2>3. session' \in {"up", "down"} /\ faults' \in Nat /\ lost' \in BOOLEAN
    <3>1. Answered \/ Fails
      BY <1>6 DEF ReadOriginal, Fails, Broken, Silent
    <3> QED
      BY <3>1, LinkType
  <2> QED
    BY <1>6, <2>1, <2>2, <2>3 DEF ReadOriginal
<1>7. CASE WriteBackup
  <2>1. rec' \in Record
    BY <1>7 DEF WriteBackup, Shape
  <2>2. backups' \in [Seconds -> Files]
    BY <1>7 DEF WriteBackup
  <2>3. payload' \in Files
    BY <1>7, <1>0 DEF WriteBackup
  <2>4. pc' \in Steps /\ outcome' \in Outcomes
    BY <1>7 DEF WriteBackup, Goto, Finish
  <2>5. session' \in {"up", "down"} /\ faults' \in Nat /\ lost' \in BOOLEAN
    <3>1. Answered \/ Fails
      BY <1>7 DEF WriteBackup, Fails, Broken, Silent
    <3> QED
      BY <3>1, LinkType
  <2> QED
    BY <1>7, <2>1, <2>2, <2>3, <2>4, <2>5 DEF WriteBackup
<1>8. CASE WriteTemp
  <2>1. file' \in [Paths -> Files] /\ strays' \in SUBSET Stored
    <3>1. PICK c \in {NoFile, Torn, payload} :
              file' = [file EXCEPT !["aside"] = NoFile, !["temp"] = c]
      BY <1>8 DEF WriteTemp
    <3>2. c \in Files
      OBVIOUS
    <3>3. file' \in [Paths -> Files]
      BY <3>1, <3>2
    <3>4. strays' = strays \union ({file["temp"], file["aside"]} \ {NoFile})
      BY <1>8 DEF WriteTemp
    <3>5. strays' \in SUBSET Stored
      BY <3>4
    <3> QED
      BY <3>3, <3>5
  <2>2. pc' \in Steps /\ outcome' \in Outcomes
    BY <1>8 DEF WriteTemp, Goto
  <2>3. session' \in {"up", "down"} /\ faults' \in Nat /\ lost' \in BOOLEAN
    <3>1. Answered \/ Fails
      BY <1>8 DEF WriteTemp, Fails, Broken, Silent
    <3> QED
      BY <3>1, LinkType
  <2> QED
    BY <1>8, <2>1, <2>2, <2>3 DEF WriteTemp
<1>9. CASE DropTemp
  <2>1. file' \in [Paths -> Files]
    BY <1>9 DEF DropTemp, Remove
  <2>2. pc' \in Steps /\ outcome' \in Outcomes
    BY <1>9 DEF DropTemp, Remove, PutFailed, Finish
  <2>3. session' \in {"up", "down"} /\ faults' \in Nat /\ lost' \in BOOLEAN
    <3>1. Answered \/ Fails
      BY <1>9 DEF DropTemp, Remove, Fails, Broken, Silent
    <3> QED
      BY <3>1, LinkType
  <2> QED
    BY <1>9, <2>1, <2>2, <2>3 DEF DropTemp
<1>10. CASE RenameOver
  <2>1. file' \in [Paths -> Files]
    BY <1>10 DEF RenameOver, Rename, Move
  <2>2. pc' \in Steps /\ outcome' \in Outcomes
    BY <1>10 DEF RenameOver, Rename, PutSucceeded, Goto, Finish
  <2>3. session' \in {"up", "down"} /\ faults' \in Nat /\ lost' \in BOOLEAN
    <3>1. Answered \/ Fails
      BY <1>10 DEF RenameOver, Rename, Fails, Broken, Silent
    <3> QED
      BY <3>1, LinkType
  <2>4. UNCHANGED <<strays, put>>
    BY <1>10 DEF RenameOver
  <2> HIDE DEF Steps, Outcomes, Files, Stored, Parsed, Paths, Seconds, Record
  <2> QED
    BY <2>1, <2>2, <2>3, <2>4
<1>11. CASE Displace
  <2>1. file' \in [Paths -> Files]
    BY <1>11 DEF Displace, Rename, Move
  <2>2. pc' \in Steps /\ outcome' \in Outcomes
    BY <1>11 DEF Displace, Rename, PutFailed, Goto, Finish
  <2>3. session' \in {"up", "down"} /\ faults' \in Nat /\ lost' \in BOOLEAN
    <3>1. Answered \/ Fails
      BY <1>11 DEF Displace, Rename, Fails, Broken, Silent
    <3> QED
      BY <3>1, LinkType
  <2> QED
    BY <1>11, <2>1, <2>2, <2>3 DEF Displace
<1>12. CASE FillGap
  <2>1. file' \in [Paths -> Files]
    BY <1>12 DEF FillGap, Rename, Move
  <2>2. pc' \in Steps /\ outcome' \in Outcomes
    BY <1>12 DEF FillGap, Rename, Goto
  <2>3. session' \in {"up", "down"} /\ faults' \in Nat /\ lost' \in BOOLEAN
    <3>1. Answered \/ Fails
      BY <1>12 DEF FillGap, Rename, Fails, Broken, Silent
    <3> QED
      BY <3>1, LinkType
  <2> QED
    BY <1>12, <2>1, <2>2, <2>3 DEF FillGap
<1>13. CASE DropAside
  <2>1. file' \in [Paths -> Files]
    BY <1>13 DEF DropAside, Remove
  <2>2. pc' \in Steps /\ outcome' \in Outcomes
    BY <1>13 DEF DropAside, Remove, PutSucceeded, Goto, Finish
  <2>3. session' \in {"up", "down"} /\ faults' \in Nat /\ lost' \in BOOLEAN
    <3>1. Answered \/ Fails
      BY <1>13 DEF DropAside, Remove, Fails, Broken, Silent
    <3> QED
      BY <3>1, LinkType
  <2> QED
    BY <1>13, <2>1, <2>2, <2>3 DEF DropAside
<1>14. CASE UndoDisplace
  <2>1. file' \in [Paths -> Files]
    BY <1>14 DEF UndoDisplace, Rename, Move
  <2>2. pc' \in Steps /\ outcome' \in Outcomes
    BY <1>14 DEF UndoDisplace, Rename, PutFailed, Finish
  <2>3. session' \in {"up", "down"} /\ faults' \in Nat /\ lost' \in BOOLEAN
    <3>1. Answered \/ Fails
      BY <1>14 DEF UndoDisplace, Rename, Fails, Broken, Silent
    <3> QED
      BY <3>1, LinkType
  <2> QED
    BY <1>14, <2>1, <2>2, <2>3 DEF UndoDisplace
<1>15. CASE Probe
  <2>1. pc' \in Steps /\ outcome' \in Outcomes
    BY <1>15 DEF Probe, Goto, Finish
  <2>2. session' \in {"up", "down"} /\ faults' \in Nat /\ lost' \in BOOLEAN
    <3>1. Answered \/ Fails
      BY <1>15 DEF Probe, Fails, Broken, Silent
    <3> QED
      BY <3>1, LinkType
  <2> QED
    BY <1>15, <2>1, <2>2 DEF Probe
<1>16. CASE Create
  <2>1. file' \in [Paths -> Files]
    BY <1>16, <1>0 DEF Create, Upload
  <2>2. pc' \in Steps /\ outcome' \in Outcomes
    BY <1>16 DEF Create, Upload, Tested, Goto, Finish
  <2>3. session' \in {"up", "down"} /\ faults' \in Nat /\ lost' \in BOOLEAN
    <3>1. Answered \/ Fails
      BY <1>16 DEF Create, Upload, Fails, Broken, Silent
    <3> QED
      BY <3>1, LinkType
  <2> QED
    BY <1>16, <2>1, <2>2, <2>3 DEF Create
<1>17. CASE Unlink
  <2>1. file' \in [Paths -> Files]
    BY <1>17 DEF Unlink, Remove
  <2>2. pc' \in Steps /\ outcome' \in Outcomes
    BY <1>17 DEF Unlink, Remove, Tested, Goto, Finish
  <2>3. session' \in {"up", "down"} /\ faults' \in Nat /\ lost' \in BOOLEAN
    <3>1. Answered \/ Fails
      BY <1>17 DEF Unlink, Remove, Fails, Broken, Silent
    <3> QED
      BY <3>1, LinkType
  <2> QED
    BY <1>17, <2>1, <2>2, <2>3 DEF Unlink
<1>18. CASE RunTest
  <2>1. pc' \in Steps /\ outcome' \in Outcomes
    BY <1>18 DEF RunTest, Undo, Goto, Finish
  <2>2. session' \in {"up", "down"} /\ faults' \in Nat /\ lost' \in BOOLEAN
    <3>1. Answered \/ Fails
      BY <1>18 DEF RunTest, Fails, Broken, Silent
    <3> QED
      BY <3>1, LinkType
  <2> QED
    BY <1>18, <2>1, <2>2 DEF RunTest
<1>19. CASE ReadBackup
  <2>1. pc' \in Steps /\ outcome' \in Outcomes
    BY <1>19 DEF ReadBackup, Goto, Finish
  <2>2. session' \in {"up", "down"} /\ faults' \in Nat /\ lost' \in BOOLEAN
    <3>1. Answered \/ Fails
      BY <1>19 DEF ReadBackup, Fails, Broken, Silent
    <3> QED
      BY <3>1, LinkType
  <2>3. payload' \in Files /\ stage' \in {"write", "restore"}
    <3>1. rec.sec \in Seconds /\ backups[rec.sec] \in Files
      OBVIOUS
    <3> QED
      BY <1>19, <3>1 DEF ReadBackup
  <2>4. UNCHANGED <<disk, origin, job, rec, ghosts, env>>
    BY <1>19 DEF ReadBackup
  <2> HIDE DEF Steps, Outcomes, Files, Stored, Parsed, Paths, Seconds, Record
  <2> QED
    BY <2>1, <2>2, <2>3, <2>4
<1>20. CASE Uncreate
  <2>1. file' \in [Paths -> Files]
    BY <1>20 DEF Uncreate, Remove
  <2>2. pc' \in Steps /\ outcome' \in Outcomes
    BY <1>20 DEF Uncreate, Remove, Finish
  <2>3. session' \in {"up", "down"} /\ faults' \in Nat /\ lost' \in BOOLEAN
    <3>1. Answered \/ Fails
      BY <1>20 DEF Uncreate, Remove, Fails, Broken, Silent
    <3> QED
      BY <3>1, LinkType
  <2> QED
    BY <1>20, <2>1, <2>2, <2>3 DEF Uncreate
<1>21. CASE Poll
  BY <1>21 DEF Poll
<1>22. CASE Discover
  BY <1>22 DEF Discover, live
<1>23. CASE Crash
  BY <1>23 DEF Crash
<1>24. CASE Edit
  BY <1>24 DEF Edit
<1>25. CASE Tick
  BY <1>25 DEF Tick
<1> HIDE DEF TypeOK, Steps, Outcomes, Files, Stored, Parsed, Paths, Seconds,
             Record, disk, link, ghosts, env, put
<1> QED
  BY <1>1, <1>2, <1>3, <1>4, <1>5, <1>6, <1>7, <1>8, <1>9, <1>10, <1>11,
     <1>12, <1>13, <1>14, <1>15, <1>16, <1>17, <1>18, <1>19, <1>20, <1>21,
     <1>22, <1>23, <1>24, <1>25
  DEF Next, StartSome, Worker, Put

(* Shape is kept: no step needs to know who else edits the file.           *)
LEMMA ShapeStep == TypeOK /\ Shape /\ [Next]_vars => Shape'
<1> SUFFICES ASSUME TypeOK, Shape, [Next]_vars PROVE Shape'
  OBVIOUS
<1> USE ConfigWriteAssumption DEF Shape, Putting, Untouched, Changed,
        Replacing, Paths, TypeOK
<1>1. CASE UNCHANGED vars
  BY <1>1 DEF vars
<1>2. ASSUME NEW kind \in Kinds, NEW new \in Contents \union {NoFile},
             NEW pick \in Seconds, NEW tested \in BOOLEAN,
             Start(kind, new, pick, tested)
      PROVE  Shape'
  BY <1>2 DEF Start
<1>3. CASE Connect
  BY <1>3 DEF Connect, Goto, Finish, FirstCall
<1>4. CASE Compare
  BY <1>4 DEF Compare, Goto, Finish, Answered, Fails, Broken, Refused,
              Dropped, Fault, TimedOut, Silent, Dead
<1>5. CASE ReadPick
  <2>1. job'.kind = job.kind /\ job.kind = "rollback"
    BY <1>5 DEF ReadPick, Job
  <2> QED
    BY <1>5, <2>1 DEF ReadPick, Goto, Finish
<1>6. CASE ReadOriginal
  BY <1>6 DEF ReadOriginal, Goto, Finish, Answered, Fails, Broken, Refused,
              Dropped, Fault, TimedOut, Silent, Dead
<1>7. CASE WriteBackup
  <2>1. job.kind \in AllKinds
    BY DEF Job
  <2> QED
    BY <1>7, <2>1 DEF WriteBackup, Goto, Finish, AllKinds
<1>8. CASE WriteTemp
  BY <1>8 DEF WriteTemp, Goto, Answered, Fails, Broken, Refused,
              Dropped, Fault, TimedOut, Silent, Dead
<1>9. CASE DropTemp
  BY <1>9 DEF DropTemp, Remove, PutFailed, Finish, Answered, Fails, Broken,
     Refused,
              Dropped, Fault, TimedOut, Silent, Dead
<1>10. CASE RenameOver
  BY <1>10 DEF RenameOver, Rename, Move, Movable, PutSucceeded, Goto, Finish,
              Answered, Fails, Broken, Refused,
              Dropped, Fault, TimedOut, Silent, Dead
<1>11. CASE Displace
  BY <1>11 DEF Displace, Rename, Move, Movable, PutFailed, Goto, Finish,
              Answered, Fails, Broken, Refused,
              Dropped, Fault, TimedOut, Silent, Dead
<1>12. CASE FillGap
  BY <1>12 DEF FillGap, Rename, Move, Movable, Goto, Finish,
              Answered, Fails, Broken, Refused,
              Dropped, Fault, TimedOut, Silent, Dead
<1>13. CASE DropAside
  BY <1>13 DEF DropAside, Remove, PutSucceeded, Goto, Finish,
              Answered, Fails, Broken, Refused,
              Dropped, Fault, TimedOut, Silent, Dead
<1>14. CASE UndoDisplace
  BY <1>14 DEF UndoDisplace, Rename, Move, Movable, PutFailed, Finish,
              Answered, Fails, Broken, Refused,
              Dropped, Fault, TimedOut, Silent, Dead
<1>15. CASE Probe
  BY <1>15 DEF Probe, Goto, Finish, Answered, Fails, Broken, Refused,
              Dropped, Fault, TimedOut, Silent, Dead
<1>16. CASE Create
  BY <1>16 DEF Create, Upload, Tested, Goto, Finish, Answered, Fails, Broken,
     Refused,
              Dropped, Fault, TimedOut, Silent, Dead
<1>17. CASE Unlink
  BY <1>17 DEF Unlink, Remove, Tested, Goto, Finish, Answered, Fails, Broken,
     Refused,
              Dropped, Fault, TimedOut, Silent, Dead
<1>18. CASE RunTest
  BY <1>18 DEF RunTest, Undo, MayPass, MayFail, Goto, Finish, Answered, Fails,
     Broken, Refused,
              Dropped, Fault, TimedOut, Silent, Dead
<1>19. CASE ReadBackup
  BY <1>19 DEF ReadBackup, Goto, Finish, Answered, Fails, Broken, Refused,
              Dropped, Fault, TimedOut, Silent, Dead
<1>20. CASE Uncreate
  BY <1>20 DEF Uncreate, Remove, Finish, Answered, Fails, Broken, Refused,
              Dropped, Fault, TimedOut, Silent, Dead
<1>21. CASE Poll
  BY <1>21 DEF Poll
<1>22. CASE Discover
  BY <1>22 DEF Discover
<1>23. CASE Crash
  BY <1>23 DEF Crash
<1>24. CASE Edit
  BY <1>24 DEF Edit
<1>25. CASE Tick
  BY <1>25 DEF Tick
<1> HIDE DEF Shape, Putting, Untouched, Changed, disk, link, ghosts, env, put
<1> QED
  BY <1>1, <1>2, <1>3, <1>4, <1>5, <1>6, <1>7, <1>8, <1>9, <1>10, <1>11,
     <1>12, <1>13, <1>14, <1>15, <1>16, <1>17, <1>18, <1>19, <1>20, <1>21,
     <1>22, <1>23, <1>24, <1>25
  DEF Next, StartSome, Worker, Put

(* Where the content is: this is the argument, call by call.                *)
LEMMA PlacesStep == TypeOK /\ Shape /\ (~edited => Places) /\ [Next]_vars
                     => (~edited' => Places')
<1> SUFFICES ASSUME TypeOK, Shape, ~edited => Places, [Next]_vars, ~edited'
             PROVE  Places'
  OBVIOUS
<1> USE ConfigWriteAssumption DEF Certain, Places, Shape, Putting, Untouched, Changed,
        Old, live, Paths, TypeOK
<1>1. CASE UNCHANGED vars
  BY <1>1 DEF vars
<1>2. ASSUME NEW kind \in Kinds, NEW new \in Contents \union {NoFile},
             NEW pick \in Seconds, NEW tested \in BOOLEAN,
             Start(kind, new, pick, tested)
      PROVE  Places'
  BY <1>2 DEF Start
<1>3. CASE Connect
  BY <1>3 DEF Connect, Goto, Finish, FirstCall
<1>4. CASE Compare
  BY <1>4 DEF Compare, Goto, Finish, Answered, Fails, Broken, Refused,
              Dropped, Fault, TimedOut, Silent, Dead
<1>5. CASE ReadPick
  <2>1. job'.kind = job.kind
    BY <1>5 DEF ReadPick, Job
  <2> QED
    BY <1>5, <2>1 DEF ReadPick, Goto, Finish
<1>6. CASE ReadOriginal
  BY <1>6 DEF ReadOriginal, Goto, Finish, Answered, Fails, Broken, Refused,
              Dropped, Fault, TimedOut, Silent, Dead
<1>7. CASE WriteBackup
  <2>1. job.kind \in AllKinds
    BY DEF Job
  <2> QED
    BY <1>7, <2>1 DEF WriteBackup, Goto, Finish, AllKinds
<1>8. CASE WriteTemp
  BY <1>8 DEF WriteTemp, Goto, Answered, Fails, Broken, Refused,
              Dropped, Fault, TimedOut, Silent, Dead
<1>9. CASE DropTemp
  BY <1>9 DEF DropTemp, Remove, PutFailed, Finish, Answered, Fails, Broken,
     Refused,
              Dropped, Fault, TimedOut, Silent, Dead
<1>10. CASE RenameOver
  BY <1>10 DEF RenameOver, Rename, Move, Movable, PutSucceeded, Goto, Finish,
              Answered, Fails, Broken, Refused,
              Dropped, Fault, TimedOut, Silent, Dead
<1>11. CASE Displace
  BY <1>11 DEF Displace, Rename, Move, Movable, PutFailed, Goto, Finish,
              Answered, Fails, Broken, Refused,
              Dropped, Fault, TimedOut, Silent, Dead
<1>12. CASE FillGap
  BY <1>12 DEF FillGap, Rename, Move, Movable, Goto, Finish,
              Answered, Fails, Broken, Refused,
              Dropped, Fault, TimedOut, Silent, Dead
<1>13. CASE DropAside
  BY <1>13 DEF DropAside, Remove, PutSucceeded, Goto, Finish,
              Answered, Fails, Broken, Refused,
              Dropped, Fault, TimedOut, Silent, Dead
<1>14. CASE UndoDisplace
  BY <1>14 DEF UndoDisplace, Rename, Move, Movable, PutFailed, Finish,
              Answered, Fails, Broken, Refused,
              Dropped, Fault, TimedOut, Silent, Dead
<1>15. CASE Probe
  BY <1>15 DEF Probe, Goto, Finish, Answered, Fails, Broken, Refused,
              Dropped, Fault, TimedOut, Silent, Dead
<1>16. CASE Create
  BY <1>16 DEF Create, Upload, Tested, Goto, Finish, Answered, Fails, Broken,
     Refused,
              Dropped, Fault, TimedOut, Silent, Dead
<1>17. CASE Unlink
  BY <1>17 DEF Unlink, Remove, Tested, Goto, Finish, Answered, Fails, Broken,
     Refused,
              Dropped, Fault, TimedOut, Silent, Dead
<1>18. CASE RunTest
  BY <1>18 DEF RunTest, Undo, MayPass, MayFail, Goto, Finish, Answered, Fails,
     Broken, Refused,
              Dropped, Fault, TimedOut, Silent, Dead
<1>19. CASE ReadBackup
  BY <1>19 DEF ReadBackup, Goto, Finish, Answered, Fails, Broken, Refused,
              Dropped, Fault, TimedOut, Silent, Dead
<1>20. CASE Uncreate
  BY <1>20 DEF Uncreate, Remove, Finish, Answered, Fails, Broken, Refused,
              Dropped, Fault, TimedOut, Silent, Dead
<1>21. CASE Poll
  BY <1>21 DEF Poll
<1>22. CASE Discover
  BY <1>22 DEF Discover
<1>23. CASE Crash
  BY <1>23 DEF Crash
<1>24. CASE Edit
  BY <1>24 DEF Edit
<1>25. CASE Tick
  BY <1>25 DEF Tick
<1> HIDE DEF Certain, Places, Shape, Putting, Untouched, Changed, Old, live, Paths, TypeOK,
             disk, link, ghosts, env, put
<1> QED
  BY <1>1, <1>2, <1>3, <1>4, <1>5, <1>6, <1>7, <1>8, <1>9, <1>10, <1>11,
     <1>12, <1>13, <1>14, <1>15, <1>16, <1>17, <1>18, <1>19, <1>20, <1>21,
     <1>22, <1>23, <1>24, <1>25
  DEF Next, StartSome, Worker, Put

(* The file is old or new, or gone with its backup kept.                   *)
LEMMA CrashAtomicStep == IInv /\ [Next]_vars => CrashAtomic'
<1> SUFFICES ASSUME IInv, [Next]_vars PROVE CrashAtomic'
  OBVIOUS
<1> USE ConfigWriteAssumption DEF IInv, CrashAtomic, Certain, Places, Shape, Putting,
        Untouched, Changed, Replacing, Old, live, Paths, TypeOK
<1>1. CASE UNCHANGED vars
  BY <1>1 DEF vars
<1>2. ASSUME NEW kind \in Kinds, NEW new \in Contents \union {NoFile},
             NEW pick \in Seconds, NEW tested \in BOOLEAN,
             Start(kind, new, pick, tested)
      PROVE  CrashAtomic'
  BY <1>2 DEF Start
<1>3. CASE Connect
  BY <1>3 DEF Connect, Goto, Finish, FirstCall
<1>4. CASE Compare
  BY <1>4 DEF Compare, Goto, Finish, Answered, Fails, Broken, Refused,
              Dropped, Fault, TimedOut, Silent, Dead
<1>5. CASE ReadPick
  <2>1. job'.kind = job.kind
    BY <1>5 DEF ReadPick, Job
  <2> QED
    BY <1>5, <2>1 DEF ReadPick, Goto, Finish, Untouched
<1>6. CASE ReadOriginal
  BY <1>6 DEF ReadOriginal, Goto, Finish, Answered, Fails, Broken, Refused,
              Dropped, Fault, TimedOut, Silent, Dead
<1>7. CASE WriteBackup
  BY <1>7 DEF WriteBackup, Goto, Finish, Answered, Fails, Broken, Refused,
              Dropped, Fault, TimedOut, Silent, Dead
<1>8. CASE WriteTemp
  BY <1>8 DEF WriteTemp, Goto, Answered, Fails, Broken, Refused,
              Dropped, Fault, TimedOut, Silent, Dead
<1>9. CASE DropTemp
  BY <1>9 DEF DropTemp, Remove, PutFailed, Finish, Answered, Fails, Broken,
     Refused,
              Dropped, Fault, TimedOut, Silent, Dead
<1>10. CASE RenameOver
  BY <1>10 DEF RenameOver, Rename, Move, Movable, PutSucceeded, Goto, Finish,
              Answered, Fails, Broken, Refused,
              Dropped, Fault, TimedOut, Silent, Dead
<1>11. CASE Displace
  BY <1>11 DEF Displace, Rename, Move, Movable, PutFailed, Goto, Finish,
              Answered, Fails, Broken, Refused,
              Dropped, Fault, TimedOut, Silent, Dead
<1>12. CASE FillGap
  BY <1>12 DEF FillGap, Rename, Move, Movable, Goto, Finish,
              Answered, Fails, Broken, Refused,
              Dropped, Fault, TimedOut, Silent, Dead
<1>13. CASE DropAside
  BY <1>13 DEF DropAside, Remove, PutSucceeded, Goto, Finish,
              Answered, Fails, Broken, Refused,
              Dropped, Fault, TimedOut, Silent, Dead
<1>14. CASE UndoDisplace
  BY <1>14 DEF UndoDisplace, Rename, Move, Movable, PutFailed, Finish,
              Answered, Fails, Broken, Refused,
              Dropped, Fault, TimedOut, Silent, Dead
<1>15. CASE Probe
  BY <1>15 DEF Probe, Goto, Finish, Answered, Fails, Broken, Refused,
              Dropped, Fault, TimedOut, Silent, Dead
<1>16. CASE Create
  BY <1>16 DEF Create, Upload, Tested, Goto, Finish, Answered, Fails, Broken,
     Refused,
              Dropped, Fault, TimedOut, Silent, Dead
<1>17. CASE Unlink
  BY <1>17 DEF Unlink, Remove, Tested, Goto, Finish, Answered, Fails, Broken,
     Refused,
              Dropped, Fault, TimedOut, Silent, Dead
<1>18. CASE RunTest
  BY <1>18 DEF RunTest, Undo, MayPass, MayFail, Goto, Finish, Answered, Fails,
     Broken, Refused,
              Dropped, Fault, TimedOut, Silent, Dead
<1>19. CASE ReadBackup
  BY <1>19 DEF ReadBackup, Goto, Finish, Answered, Fails, Broken, Refused,
              Dropped, Fault, TimedOut, Silent, Dead
<1>20. CASE Uncreate
  BY <1>20 DEF Uncreate, Remove, Finish, Answered, Fails, Broken, Refused,
              Dropped, Fault, TimedOut, Silent, Dead
<1>21. CASE Poll
  BY <1>21 DEF Poll
<1>22. CASE Discover
  BY <1>22 DEF Discover
<1>23. CASE Crash
  BY <1>23 DEF Crash
<1>24. CASE Edit
  BY <1>24 DEF Edit
<1>25. CASE Tick
  BY <1>25 DEF Tick
<1> HIDE DEF IInv, CrashAtomic, Certain, Places, Shape, Putting, Untouched,
             Changed, Replacing, Old, live, Paths, TypeOK,
             disk, link, ghosts, env, put
<1> QED
  BY <1>1, <1>2, <1>3, <1>4, <1>5, <1>6, <1>7, <1>8, <1>9, <1>10, <1>11,
     <1>12, <1>13, <1>14, <1>15, <1>16, <1>17, <1>18, <1>19, <1>20, <1>21,
     <1>22, <1>23, <1>24, <1>25
  DEF Next, StartSome, Worker, Put

(* The worker reports what is on disk.                                     *)
LEMMA OutcomeStep == IInv /\ [Next]_vars => OutcomeTruthful'
<1> SUFFICES ASSUME IInv, [Next]_vars PROVE OutcomeTruthful'
  OBVIOUS
<1> USE ConfigWriteAssumption DEF IInv, OutcomeTruthful, Certain, Places, Shape,
        Putting, Untouched, Changed, Replacing, Old, live, Paths, TypeOK
<1>1. CASE UNCHANGED vars
  BY <1>1 DEF vars
<1>2. ASSUME NEW kind \in Kinds, NEW new \in Contents \union {NoFile},
             NEW pick \in Seconds, NEW tested \in BOOLEAN,
             Start(kind, new, pick, tested)
      PROVE  OutcomeTruthful'
  BY <1>2 DEF Start
<1>3. CASE Connect
  BY <1>3 DEF Connect, Goto, Finish, FirstCall
<1>4. CASE Compare
  BY <1>4 DEF Compare, Goto, Finish, Answered, Fails, Broken, Refused,
              Dropped, Fault, TimedOut, Silent, Dead
<1>5. CASE ReadPick
  <2>1. job'.kind = job.kind
    BY <1>5 DEF ReadPick, Job
  <2> QED
    BY <1>5, <2>1 DEF ReadPick, Goto, Finish, Untouched
<1>6. CASE ReadOriginal
  BY <1>6 DEF ReadOriginal, Goto, Finish, Answered, Fails, Broken, Refused,
              Dropped, Fault, TimedOut, Silent, Dead
<1>7. CASE WriteBackup
  BY <1>7 DEF WriteBackup, Goto, Finish, Answered, Fails, Broken, Refused,
              Dropped, Fault, TimedOut, Silent, Dead
<1>8. CASE WriteTemp
  BY <1>8 DEF WriteTemp, Goto, Answered, Fails, Broken, Refused,
              Dropped, Fault, TimedOut, Silent, Dead
<1>9. CASE DropTemp
  BY <1>9 DEF DropTemp, Remove, PutFailed, Finish, Answered, Fails, Broken,
     Refused,
              Dropped, Fault, TimedOut, Silent, Dead
<1>10. CASE RenameOver
  BY <1>10 DEF RenameOver, Rename, Move, Movable, PutSucceeded, Goto, Finish,
              Answered, Fails, Broken, Refused,
              Dropped, Fault, TimedOut, Silent, Dead
<1>11. CASE Displace
  BY <1>11 DEF Displace, Rename, Move, Movable, PutFailed, Goto, Finish,
              Answered, Fails, Broken, Refused,
              Dropped, Fault, TimedOut, Silent, Dead
<1>12. CASE FillGap
  BY <1>12 DEF FillGap, Rename, Move, Movable, Goto, Finish,
              Answered, Fails, Broken, Refused,
              Dropped, Fault, TimedOut, Silent, Dead
<1>13. CASE DropAside
  BY <1>13 DEF DropAside, Remove, PutSucceeded, Goto, Finish,
              Answered, Fails, Broken, Refused,
              Dropped, Fault, TimedOut, Silent, Dead
<1>14. CASE UndoDisplace
  BY <1>14 DEF UndoDisplace, Rename, Move, Movable, PutFailed, Finish,
              Answered, Fails, Broken, Refused,
              Dropped, Fault, TimedOut, Silent, Dead
<1>15. CASE Probe
  BY <1>15 DEF Probe, Goto, Finish, Answered, Fails, Broken, Refused,
              Dropped, Fault, TimedOut, Silent, Dead
<1>16. CASE Create
  BY <1>16 DEF Create, Upload, Tested, Goto, Finish, Answered, Fails, Broken,
     Refused,
              Dropped, Fault, TimedOut, Silent, Dead
<1>17. CASE Unlink
  BY <1>17 DEF Unlink, Remove, Tested, Goto, Finish, Answered, Fails, Broken,
     Refused,
              Dropped, Fault, TimedOut, Silent, Dead
<1>18. CASE RunTest
  BY <1>18 DEF RunTest, Undo, MayPass, MayFail, Goto, Finish, Answered, Fails,
     Broken, Refused,
              Dropped, Fault, TimedOut, Silent, Dead
<1>19. CASE ReadBackup
  BY <1>19 DEF ReadBackup, Goto, Finish, Answered, Fails, Broken, Refused,
              Dropped, Fault, TimedOut, Silent, Dead
<1>20. CASE Uncreate
  BY <1>20 DEF Uncreate, Remove, Finish, Answered, Fails, Broken, Refused,
              Dropped, Fault, TimedOut, Silent, Dead
<1>21. CASE Poll
  BY <1>21 DEF Poll
<1>22. CASE Discover
  BY <1>22 DEF Discover
<1>23. CASE Crash
  BY <1>23 DEF Crash
<1>24. CASE Edit
  BY <1>24 DEF Edit
<1>25. CASE Tick
  BY <1>25 DEF Tick
<1> HIDE DEF IInv, OutcomeTruthful, Certain, Places, Shape, Putting, Untouched,
             Changed, Replacing, Old, live, Paths, TypeOK,
             disk, link, ghosts, env, put
<1> QED
  BY <1>1, <1>2, <1>3, <1>4, <1>5, <1>6, <1>7, <1>8, <1>9, <1>10, <1>11,
     <1>12, <1>13, <1>14, <1>15, <1>16, <1>17, <1>18, <1>19, <1>20, <1>21,
     <1>22, <1>23, <1>24, <1>25
  DEF Next, StartSome, Worker, Put

(* IInv is inductive.                                                      *)
LEMMA NextIInv == IInv /\ [Next]_vars => IInv'
  BY TypeStep, ShapeStep, PlacesStep, CrashAtomicStep, OutcomeStep DEF IInv

(* The inductive invariant holds throughout.                               *)
LEMMA IInvHolds == Spec => []IInv
  BY InitIInv, NextIInv, PTL DEF Spec

(* Type correctness, for every instance.                                   *)
THEOREM TypeCorrect == Spec => []TypeOK
<1>1. IInv => TypeOK
  BY DEF IInv
<1> QED
  BY <1>1, IInvHolds, PTL

(* A job that replaces a file is atomic against every failure and every    *)
(* crash of the application (write_config_safe over                        *)
(* write_remote_file_atomic).                                              *)
THEOREM CrashAtomicity == Spec => []CrashAtomic
<1>1. IInv => CrashAtomic
  BY DEF IInv
<1> QED
  BY <1>1, IInvHolds, PTL

(* What a worker reports is what is on disk (write_config_validated,       *)
(* create_confdir_file_validated, remove_confdir_file_validated).          *)
THEOREM TruthfulOutcomes == Spec => []OutcomeTruthful
<1>1. IInv => OutcomeTruthful
  BY DEF IInv
<1> QED
  BY <1>1, IInvHolds, PTL

-----------------------------------------------------------------------------
(* A step of the worker other than ReadPick leaves the request alone and   *)
(* either goes on or reports.                                              *)
Proceeds ==
    /\ UNCHANGED <<job, before, edited>>
    /\ pc \notin {"idle", "done"}
    /\ \/ pc' \notin {"idle", "done"} /\ outcome' = outcome
       \/ pc' = "done" /\ outcome' \in Outcomes

(* A call of the worker either reads the picked backup or proceeds.        *)
LEMMA WorkerProceeds == Worker => ReadPick \/ Proceeds
<1> SUFFICES ASSUME Worker PROVE ReadPick \/ Proceeds
  OBVIOUS
<1> USE DEF Proceeds, Outcomes
<1>1. CASE Connect
  BY <1>1 DEF Connect, Goto, Finish, FirstCall
<1>2. CASE Compare
  BY <1>2 DEF Compare, Goto, Finish, Answered, Fails, Broken, Refused,
              Dropped, Fault, TimedOut, Silent, Dead
<1>3. CASE ReadOriginal
  BY <1>3 DEF ReadOriginal, Goto, Finish, Answered, Fails, Broken, Refused,
              Dropped, Fault, TimedOut, Silent, Dead
<1>4. CASE WriteBackup
  BY <1>4 DEF WriteBackup, Goto, Finish, Answered, Fails, Broken, Refused,
              Dropped, Fault, TimedOut, Silent, Dead
<1>5. CASE WriteTemp
  BY <1>5 DEF WriteTemp, Goto, Answered, Fails, Broken, Refused,
              Dropped, Fault, TimedOut, Silent, Dead
<1>6. CASE DropTemp
  BY <1>6 DEF DropTemp, Remove, PutFailed, Finish, Answered, Fails, Broken, Refused,
              Dropped, Fault, TimedOut, Silent, Dead
<1>7. CASE RenameOver
  BY <1>7 DEF RenameOver, Rename, PutSucceeded, Goto, Finish,
              Answered, Fails, Broken, Refused,
              Dropped, Fault, TimedOut, Silent, Dead
<1>8. CASE Displace
  BY <1>8 DEF Displace, Rename, PutFailed, Goto, Finish,
              Answered, Fails, Broken, Refused,
              Dropped, Fault, TimedOut, Silent, Dead
<1>9. CASE FillGap
  BY <1>9 DEF FillGap, Rename, Goto, Finish,
              Answered, Fails, Broken, Refused,
              Dropped, Fault, TimedOut, Silent, Dead
<1>10. CASE DropAside
  BY <1>10 DEF DropAside, Remove, PutSucceeded, Goto, Finish,
              Answered, Fails, Broken, Refused,
              Dropped, Fault, TimedOut, Silent, Dead
<1>11. CASE UndoDisplace
  BY <1>11 DEF UndoDisplace, Rename, PutFailed, Finish,
              Answered, Fails, Broken, Refused,
              Dropped, Fault, TimedOut, Silent, Dead
<1>12. CASE Probe
  BY <1>12 DEF Probe, Goto, Finish, Answered, Fails, Broken, Refused,
              Dropped, Fault, TimedOut, Silent, Dead
<1>13. CASE Create
  BY <1>13 DEF Create, Upload, Tested, Goto, Finish, Answered, Fails, Broken, Refused,
              Dropped, Fault, TimedOut, Silent, Dead
<1>14. CASE Unlink
  BY <1>14 DEF Unlink, Remove, Tested, Goto, Finish, Answered, Fails, Broken, Refused,
              Dropped, Fault, TimedOut, Silent, Dead
<1>15. CASE RunTest
  BY <1>15 DEF RunTest, Undo, Goto, Finish, Answered, Fails, Broken, Refused,
              Dropped, Fault, TimedOut, Silent, Dead
<1>16. CASE ReadBackup
  BY <1>16 DEF ReadBackup, Goto, Finish, Answered, Fails, Broken, Refused,
              Dropped, Fault, TimedOut, Silent, Dead
<1>17. CASE Uncreate
  BY <1>17 DEF Uncreate, Remove, Finish, Answered, Fails, Broken, Refused,
              Dropped, Fault, TimedOut, Silent, Dead
<1> QED
  BY <1>1, <1>2, <1>3, <1>4, <1>5, <1>6, <1>7, <1>8, <1>9,
     <1>10, <1>11, <1>12, <1>13, <1>14, <1>15, <1>16, <1>17
  DEF Worker, Put

(* For every kind of job: a file that was there is what it was, what was    *)
(* asked for, or gone.                                                     *)
Held == ~edited => live \in {before, job.new, NoFile} \/ before = NoFile

(* No step loses hold of a file that was there.                             *)
LEMMA HeldStep == IInv /\ Held /\ [Next]_vars => Held'
<1> SUFFICES ASSUME IInv, Held, [Next]_vars PROVE Held'
  OBVIOUS
<1> USE ConfigWriteAssumption DEF IInv, Held, Certain, Places, Shape, Putting,
        Untouched, Changed, Replacing, Old, live, Paths, TypeOK
<1>1. CASE UNCHANGED vars
  BY <1>1 DEF vars
<1>2. ASSUME NEW kind \in Kinds, NEW new \in Contents \union {NoFile},
             NEW pick \in Seconds, NEW tested \in BOOLEAN,
             Start(kind, new, pick, tested)
      PROVE  Held'
  BY <1>2 DEF Start
<1>3. CASE Connect
  BY <1>3 DEF Connect, Goto, Finish, FirstCall
<1>4. CASE Compare
  BY <1>4 DEF Compare, Goto, Finish, Answered, Fails, Broken, Refused,
              Dropped, Fault, TimedOut, Silent, Dead
<1>5. CASE ReadPick
  <2>1. job'.kind = job.kind
    BY <1>5 DEF ReadPick, Job
  <2> QED
    BY <1>5, <2>1 DEF ReadPick, Goto, Finish, Untouched
<1>6. CASE ReadOriginal
  BY <1>6 DEF ReadOriginal, Goto, Finish, Answered, Fails, Broken, Refused,
              Dropped, Fault, TimedOut, Silent, Dead
<1>7. CASE WriteBackup
  BY <1>7 DEF WriteBackup, Goto, Finish, Answered, Fails, Broken, Refused,
              Dropped, Fault, TimedOut, Silent, Dead
<1>8. CASE WriteTemp
  BY <1>8 DEF WriteTemp, Goto, Answered, Fails, Broken, Refused,
              Dropped, Fault, TimedOut, Silent, Dead
<1>9. CASE DropTemp
  BY <1>9 DEF DropTemp, Remove, PutFailed, Finish, Answered, Fails, Broken,
     Refused,
              Dropped, Fault, TimedOut, Silent, Dead
<1>10. CASE RenameOver
  BY <1>10 DEF RenameOver, Rename, Move, Movable, PutSucceeded, Goto, Finish,
              Answered, Fails, Broken, Refused,
              Dropped, Fault, TimedOut, Silent, Dead
<1>11. CASE Displace
  BY <1>11 DEF Displace, Rename, Move, Movable, PutFailed, Goto, Finish,
              Answered, Fails, Broken, Refused,
              Dropped, Fault, TimedOut, Silent, Dead
<1>12. CASE FillGap
  BY <1>12 DEF FillGap, Rename, Move, Movable, Goto, Finish,
              Answered, Fails, Broken, Refused,
              Dropped, Fault, TimedOut, Silent, Dead
<1>13. CASE DropAside
  BY <1>13 DEF DropAside, Remove, PutSucceeded, Goto, Finish,
              Answered, Fails, Broken, Refused,
              Dropped, Fault, TimedOut, Silent, Dead
<1>14. CASE UndoDisplace
  BY <1>14 DEF UndoDisplace, Rename, Move, Movable, PutFailed, Finish,
              Answered, Fails, Broken, Refused,
              Dropped, Fault, TimedOut, Silent, Dead
<1>15. CASE Probe
  BY <1>15 DEF Probe, Goto, Finish, Answered, Fails, Broken, Refused,
              Dropped, Fault, TimedOut, Silent, Dead
<1>16. CASE Create
  BY <1>16 DEF Create, Upload, Tested, Goto, Finish, Answered, Fails, Broken,
     Refused,
              Dropped, Fault, TimedOut, Silent, Dead
<1>17. CASE Unlink
  BY <1>17 DEF Unlink, Remove, Tested, Goto, Finish, Answered, Fails, Broken,
     Refused,
              Dropped, Fault, TimedOut, Silent, Dead
<1>18. CASE RunTest
  BY <1>18 DEF RunTest, Undo, MayPass, MayFail, Goto, Finish, Answered, Fails,
     Broken, Refused,
              Dropped, Fault, TimedOut, Silent, Dead
<1>19. CASE ReadBackup
  BY <1>19 DEF ReadBackup, Goto, Finish, Answered, Fails, Broken, Refused,
              Dropped, Fault, TimedOut, Silent, Dead
<1>20. CASE Uncreate
  BY <1>20 DEF Uncreate, Remove, Finish, Answered, Fails, Broken, Refused,
              Dropped, Fault, TimedOut, Silent, Dead
<1>21. CASE Poll
  BY <1>21 DEF Poll
<1>22. CASE Discover
  BY <1>22 DEF Discover
<1>23. CASE Crash
  BY <1>23 DEF Crash
<1>24. CASE Edit
  BY <1>24 DEF Edit
<1>25. CASE Tick
  BY <1>25 DEF Tick
<1> HIDE DEF IInv, Held, Certain, Places, Shape, Putting, Untouched,
             Changed, Replacing, Old, live, Paths, TypeOK,
             disk, link, ghosts, env, put
<1> QED
  BY <1>1, <1>2, <1>3, <1>4, <1>5, <1>6, <1>7, <1>8, <1>9, <1>10, <1>11,
     <1>12, <1>13, <1>14, <1>15, <1>16, <1>17, <1>18, <1>19, <1>20, <1>21,
     <1>22, <1>23, <1>24, <1>25
  DEF Next, StartSome, Worker, Put

(* Every step of the worker is a step of the store or leaves it alone.     *)
LEMMA StoreStep ==
  IInv /\ Held /\ IInv' /\ Held' /\ [Next]_vars
     => [Store!Next]_(Store!store)
<1> SUFFICES ASSUME IInv, Held, IInv', Held', [Next]_vars
             PROVE  [Store!Next]_(Store!store)
  OBVIOUS
<1> USE DEF Store!Next, Store!store, Store!Possible
<1>1. /\ live \in Files /\ live' \in Files /\ before' \in Files
      /\ job.new \in Files /\ job'.new \in Files
      /\ outcome \in Outcomes /\ outcome' \in Outcomes
  BY DEF IInv, TypeOK, Job, live, Paths
<1>2. CASE StartSome
  <2>1. Store!Begin
    BY <1>1, <1>2 DEF StartSome, Start, Store!Begin, Report, live
  <2> QED
    BY <2>1
<1>3. CASE ReadPick
  <2>1. CASE pc' = "done"
    <3>1. live' = live /\ before' = before /\ edited' = edited
          /\ job' = job /\ outcome' = "rejected" /\ pc = "read_pick"
      BY <1>3, <2>1 DEF ReadPick, Goto, Finish, live
    <3>2. edited \/ live = before
      BY <3>1 DEF IInv, Places, Untouched
    <3>3. Store!End
      BY <1>1, <2>1, <3>1, <3>2
      DEF Store!End, Store!Honest, Store!Results, Report
    <3> QED
      BY <3>3
  <2>2. CASE pc' # "done"
    <3>1. live' = live /\ before' = before /\ edited' = edited
          /\ outcome' = outcome /\ pc = "read_pick" /\ pc' = "read_original"
      BY <1>3, <2>2 DEF ReadPick, Goto, Finish, live
    <3>2. edited \/ live = before
      BY <3>1 DEF IInv, Places, Untouched
    <3>3. Store!Choose
      BY <1>1, <3>1, <3>2 DEF Store!Choose, Report
    <3> QED
      BY <3>3
  <2> QED
    BY <2>1, <2>2
<1>4. CASE Proceeds
  <2>1. ~edited => live' \in {before, job.new, NoFile} \/ before = NoFile
    BY <1>4 DEF Proceeds, Held
  <2>2. CASE pc' = "done"
    <3>1. edited' = edited
      BY <1>4 DEF Proceeds
    <3>2. ~edited' /\ outcome' = "ok" => live' = job'.new
      BY <2>2 DEF IInv, OutcomeTruthful
    <3>3. ~edited' /\ outcome' \in {"rejected", "reverted"} => live' = before'
      BY <2>2 DEF IInv, OutcomeTruthful
    <3>4. /\ Report' = "ok" => outcome' = "ok"
          /\ Report' = "unchanged" => outcome' \in {"rejected", "reverted"}
      BY <1>1 DEF Report, Outcomes
    <3>5. ~edited => Store!Honest'
      BY <3>1, <3>2, <3>3, <3>4 DEF Store!Honest
    <3>6. Report' \in Store!Results
      BY <1>1 DEF Report, Outcomes, Store!Results
    <3>7. Store!End
      BY <1>1, <1>4, <2>1, <2>2, <3>5, <3>6 DEF Proceeds, Store!End
    <3> QED
      BY <3>7
  <2>3. CASE pc' # "done"
    <3>1. Store!Change
      BY <1>1, <1>4, <2>1, <2>3 DEF Proceeds, Store!Change, Report
    <3> QED
      BY <3>1
  <2> QED
    BY <2>2, <2>3
<1>5. CASE Crash
  <2>1. live' = live /\ UNCHANGED <<before, job, edited>> /\ Report' = "none"
        /\ pc' = "idle"
    BY <1>5 DEF Crash, live, Report
  <2>2. CASE pc = "done"
    <3>1. Store!Forget
      BY <2>1, <2>2 DEF Store!Forget
    <3> QED
      BY <3>1
  <2>3. CASE pc # "done"
    <3>1. ~edited => live' \in {before, job.new, NoFile} \/ before = NoFile
      BY <2>1 DEF Held
    <3>2. Store!End
      BY <1>1, <1>5, <2>1, <2>3, <3>1
      DEF Crash, Store!End, Store!Honest, Store!Results
    <3> QED
      BY <3>2
  <2> QED
    BY <2>2, <2>3
<1>6. CASE Edit
  <2>1. Store!Disturb
    BY <1>1, <1>6 DEF Edit, Store!Disturb, Report
  <2> QED
    BY <2>1
<1>7. CASE Poll \/ Discover \/ Tick \/ UNCHANGED vars
  <2>1. UNCHANGED <<live, before, job, edited, outcome>>
        /\ (pc' \in {"idle", "done"}) = (pc \in {"idle", "done"})
    BY <1>7 DEF Poll, Discover, Tick, vars, live
  <2> QED
    BY <2>1 DEF Report
<1> QED
  BY <1>2, <1>3, <1>4, <1>5, <1>6, <1>7, WorkerProceeds DEF Next

(* The worker implements the store: all or nothing, and honest, whatever   *)
(* fails and whoever else edits the file.                                  *)
THEOREM WorkerImplementsStore == Spec => ImplementsStore
<1>1. Init => Store!Init
  <2> SUFFICES ASSUME Init PROVE Store!Init
    OBVIOUS
  <2>1. live \in Files /\ before = live /\ job.new \in Files
    BY InitIInv DEF Init, IInv, TypeOK, Job, live, Paths
  <2> QED
    BY <2>1 DEF Init, Store!Init, Report
<1>2. Init => Held
  BY DEF Init, Held
<1>3. Spec => [](IInv /\ Held)
  BY <1>2, InitIInv, NextIInv, HeldStep, PTL DEF Spec
<1> QED
  BY <1>1, <1>3, StoreStep, PTL DEF Spec, ImplementsStore, Store!Spec

-----------------------------------------------------------------------------
(* A job that compares goes on only with a copy that is not stale.          *)

(* Past the comparison the loaded copy is what was live at the start; a    *)
(* settings writer that found no file stops at the backup.                 *)
Fresh ==
    job.kind \in {"settings", "rollback"} /\ ~edited =>
      /\ pc \in {"read_pick", "write_backup", "test", "read_backup"}
               \union Putting => before = job.base
      /\ pc = "read_original" => before \in {job.base, NoFile}

(* The comparison is never skipped and its result never forgotten.         *)
LEMMA FreshStep ==
  ASSUME IInv, Fresh, StaleCopyNeverWritten, [Next]_vars
  PROVE  Fresh' /\ StaleCopyNeverWritten'
<1> USE ConfigWriteAssumption DEF IInv, Fresh,
        StaleCopyNeverWritten, Certain, Places, Shape, Putting, Untouched, Changed,
        Replacing, Old, live, Paths, TypeOK
<1>1. CASE UNCHANGED vars
  BY <1>1 DEF vars
<1>2. ASSUME NEW kind \in Kinds, NEW new \in Contents \union {NoFile},
             NEW pick \in Seconds, NEW tested \in BOOLEAN,
             Start(kind, new, pick, tested)
      PROVE  Fresh' /\ StaleCopyNeverWritten'
  BY <1>2 DEF Start
<1>3. CASE Connect
  BY <1>3 DEF Connect, Goto, Finish, FirstCall
<1>4. CASE Compare
  BY <1>4 DEF Compare, Goto, Finish, Answered, Fails, Broken, Refused,
              Dropped, Fault, TimedOut, Silent, Dead
<1>5. CASE ReadPick
  <2>1. /\ job'.kind = job.kind /\ job'.base = job.base
        /\ job' = job \/ job'.new = backups[job.pick]
    BY <1>5 DEF ReadPick, Job
  <2> QED
    BY <1>5, <2>1 DEF ReadPick, Goto, Finish, Answered, Fails, Broken, Refused,
              Dropped, Fault, TimedOut, Silent, Dead
<1>6. CASE ReadOriginal
  BY <1>6 DEF ReadOriginal, Goto, Finish, Answered, Fails, Broken, Refused,
              Dropped, Fault, TimedOut, Silent, Dead
<1>7. CASE WriteBackup
  BY <1>7 DEF WriteBackup, Goto, Finish, Answered, Fails, Broken, Refused,
              Dropped, Fault, TimedOut, Silent, Dead
<1>8. CASE WriteTemp
  BY <1>8 DEF WriteTemp, Goto, Answered, Fails, Broken, Refused,
              Dropped, Fault, TimedOut, Silent, Dead
<1>9. CASE DropTemp
  BY <1>9 DEF DropTemp, Remove, PutFailed, Finish,
              Answered, Fails, Broken, Refused,
              Dropped, Fault, TimedOut, Silent, Dead
<1>10. CASE RenameOver
  BY <1>10 DEF RenameOver, Rename, Move, Movable, PutSucceeded, Goto, Finish,
              Answered, Fails, Broken, Refused,
              Dropped, Fault, TimedOut, Silent, Dead
<1>11. CASE Displace
  BY <1>11 DEF Displace, Rename, Move, Movable, PutFailed, Goto, Finish,
              Answered, Fails, Broken, Refused,
              Dropped, Fault, TimedOut, Silent, Dead
<1>12. CASE FillGap
  BY <1>12 DEF FillGap, Rename, Move, Movable, Goto, Finish,
              Answered, Fails, Broken, Refused,
              Dropped, Fault, TimedOut, Silent, Dead
<1>13. CASE DropAside
  BY <1>13 DEF DropAside, Remove, PutSucceeded, Goto, Finish,
              Answered, Fails, Broken, Refused,
              Dropped, Fault, TimedOut, Silent, Dead
<1>14. CASE UndoDisplace
  BY <1>14 DEF UndoDisplace, Rename, Move, Movable, PutFailed, Finish,
              Answered, Fails, Broken, Refused,
              Dropped, Fault, TimedOut, Silent, Dead
<1>15. CASE Probe
  BY <1>15 DEF Probe, Goto, Finish, Answered, Fails, Broken, Refused,
              Dropped, Fault, TimedOut, Silent, Dead
<1>16. CASE Create
  BY <1>16 DEF Create, Upload, Tested, Goto, Finish,
              Answered, Fails, Broken, Refused,
              Dropped, Fault, TimedOut, Silent, Dead
<1>17. CASE Unlink
  BY <1>17 DEF Unlink, Remove, Tested, Goto, Finish,
              Answered, Fails, Broken, Refused,
              Dropped, Fault, TimedOut, Silent, Dead
<1>18. CASE RunTest
  BY <1>18 DEF RunTest, Undo, MayPass, MayFail, Goto, Finish,
              Answered, Fails, Broken, Refused,
              Dropped, Fault, TimedOut, Silent, Dead
<1>19. CASE ReadBackup
  BY <1>19 DEF ReadBackup, Goto, Finish,
              Answered, Fails, Broken, Refused,
              Dropped, Fault, TimedOut, Silent, Dead
<1>20. CASE Uncreate
  BY <1>20 DEF Uncreate, Remove, Finish,
              Answered, Fails, Broken, Refused,
              Dropped, Fault, TimedOut, Silent, Dead
<1>21. CASE Poll
  BY <1>21 DEF Poll
<1>22. CASE Discover
  BY <1>22 DEF Discover
<1>23. CASE Crash
  BY <1>23 DEF Crash
<1>24. CASE Edit
  BY <1>24 DEF Edit
<1>25. CASE Tick
  BY <1>25 DEF Tick
<1> HIDE DEF IInv, Fresh,
        StaleCopyNeverWritten, Certain, Places, Shape, Putting, Untouched, Changed,
        Replacing, Old, live, Paths, TypeOK, disk, link, ghosts, env, put
<1> QED
  BY <1>1, <1>2, <1>3, <1>4, <1>5, <1>6, <1>7, <1>8, <1>9, <1>10, <1>11,
     <1>12, <1>13, <1>14, <1>15, <1>16, <1>17, <1>18, <1>19, <1>20, <1>21,
     <1>22, <1>23, <1>24, <1>25
  DEF Next, StartSome, Worker, Put

(* A settings writer or a rollback that was started from a stale copy      *)
(* writes nothing, whatever fails (write_with_conflict_check).             *)
THEOREM StaleCopyStays == Spec => []StaleCopyNeverWritten
<1>1. Init => Fresh /\ StaleCopyNeverWritten
  BY DEF Init, Fresh, StaleCopyNeverWritten, NoJob, Putting
<1>2. IInv /\ Fresh /\ StaleCopyNeverWritten /\ [Next]_vars
         => Fresh' /\ StaleCopyNeverWritten'
  BY FreshStep
<1> QED
  BY <1>1, <1>2, IInvHolds, PTL DEF Spec

-----------------------------------------------------------------------------
(* One fault at a time.                                                     *)

(* What was asked for is content, and a worker that has met no fault finds *)
(* its temporary file where it put it: true whoever else edits the file.   *)
Requested ==
    /\ pc \notin {"idle", "done"} /\ job.kind \in {"settings", "client", "add"}
         => job.new # NoFile
    /\ pc \in {"connect", "compare", "read_pick"} /\ job.kind = "rollback"
         => backups[job.pick] # NoFile
    /\ pc \in {"read_original", "write_backup", "test", "read_backup"}
             \union Putting
       /\ job.kind = "rollback" => job.new # NoFile
    /\ session = "down" => pc \in {"idle", "connect", "done"} \/ faults > 0
    /\ lost => faults > 0
    /\ pc = "drop_temp" => faults > 0
    /\ pc \in {"displace", "fill_gap"} /\ Certain => file["temp"] = payload
    /\ pc = "rename" => file["aside"] = NoFile

(* As long as nobody else edits the file: the backup can be put back, and  *)
(* where a call that failed without a fault would lead is not reached.     *)
Prepared ==
    /\ pc \in Putting \union {"unlink", "test", "read_backup"}
       /\ job.kind # "add" => before # NoFile /\ rec.size = Size[before]
    /\ pc = "displace" =>
         faults > 0 \/ (live # NoFile /\ file["aside"] = NoFile)
    /\ pc = "undo_displace" => faults > 0

(* No step takes the request or the temporary file away.                   *)
LEMMA RequestedStep ==
  ASSUME IInv, Requested,
         [Next]_vars
  PROVE  Requested'
<1> USE ConfigWriteAssumption DEF IInv, Requested, Certain, Shape, Putting,
        Untouched, Changed, Replacing, live, Paths, TypeOK, Files, Stored
<1>1. CASE UNCHANGED vars
  BY <1>1 DEF vars
<1>2. ASSUME NEW kind \in Kinds, NEW new \in Contents \union {NoFile},
             NEW pick \in Seconds, NEW tested \in BOOLEAN,
             Start(kind, new, pick, tested)
      PROVE  Requested'
  BY <1>2 DEF Start
<1>3. CASE Connect
  BY <1>3 DEF Connect, Goto, Finish, FirstCall
<1>4. CASE Compare
  BY <1>4 DEF Compare, Goto, Finish, Answered, Fails, Broken, Refused,
              Dropped, Fault, TimedOut, Silent, Dead
<1>5. CASE ReadPick
  <2>1. /\ job'.kind = job.kind /\ job'.base = job.base
        /\ \/ pc' = "done" /\ job' = job
           \/ pc' = "read_original" /\ job'.new = backups[job.pick]
    BY <1>5 DEF ReadPick, Job, Goto, Finish
  <2> QED
    BY <1>5, <2>1 DEF ReadPick, Goto, Finish, Answered, Fails, Broken, Refused,
              Dropped, Fault, TimedOut, Silent, Dead
<1>6. CASE ReadOriginal
  BY <1>6 DEF ReadOriginal, Goto, Finish, Answered, Fails, Broken, Refused,
              Dropped, Fault, TimedOut, Silent, Dead
<1>7. CASE WriteBackup
  BY <1>7 DEF WriteBackup, Goto, Finish, Answered, Fails, Broken, Refused,
              Dropped, Fault, TimedOut, Silent, Dead
<1>8. CASE WriteTemp
  BY <1>8 DEF WriteTemp, Goto, Answered, Fails, Broken, Refused,
              Dropped, Fault, TimedOut, Silent, Dead
<1>9. CASE DropTemp
  BY <1>9 DEF DropTemp, Remove, PutFailed, Finish,
              Answered, Fails, Broken, Refused,
              Dropped, Fault, TimedOut, Silent, Dead
<1>10. CASE RenameOver
  BY <1>10 DEF RenameOver, Rename, Move, Movable, PutSucceeded, Goto, Finish,
              Answered, Fails, Broken, Refused,
              Dropped, Fault, TimedOut, Silent, Dead
<1>11. CASE Displace
  BY <1>11 DEF Displace, Rename, Move, Movable, PutFailed, Goto, Finish,
              Answered, Fails, Broken, Refused,
              Dropped, Fault, TimedOut, Silent, Dead
<1>12. CASE FillGap
  BY <1>12 DEF FillGap, Rename, Move, Movable, Goto, Finish,
              Answered, Fails, Broken, Refused,
              Dropped, Fault, TimedOut, Silent, Dead
<1>13. CASE DropAside
  BY <1>13 DEF DropAside, Remove, PutSucceeded, Goto, Finish,
              Answered, Fails, Broken, Refused,
              Dropped, Fault, TimedOut, Silent, Dead
<1>14. CASE UndoDisplace
  BY <1>14 DEF UndoDisplace, Rename, Move, Movable, PutFailed, Finish,
              Answered, Fails, Broken, Refused,
              Dropped, Fault, TimedOut, Silent, Dead
<1>15. CASE Probe
  BY <1>15 DEF Probe, Goto, Finish, Answered, Fails, Broken, Refused,
              Dropped, Fault, TimedOut, Silent, Dead
<1>16. CASE Create
  BY <1>16 DEF Create, Upload, Tested, Goto, Finish,
              Answered, Fails, Broken, Refused,
              Dropped, Fault, TimedOut, Silent, Dead
<1>17. CASE Unlink
  BY <1>17 DEF Unlink, Remove, Tested, Goto, Finish,
              Answered, Fails, Broken, Refused,
              Dropped, Fault, TimedOut, Silent, Dead
<1>18. CASE RunTest
  BY <1>18 DEF RunTest, Undo, MayPass, MayFail, Goto, Finish,
              Answered, Fails, Broken, Refused,
              Dropped, Fault, TimedOut, Silent, Dead
<1>19. CASE ReadBackup
  BY <1>19 DEF ReadBackup, Goto, Finish,
              Answered, Fails, Broken, Refused,
              Dropped, Fault, TimedOut, Silent, Dead
<1>20. CASE Uncreate
  BY <1>20 DEF Uncreate, Remove, Finish,
              Answered, Fails, Broken, Refused,
              Dropped, Fault, TimedOut, Silent, Dead
<1>21. CASE Poll
  BY <1>21 DEF Poll
<1>22. CASE Discover
  BY <1>22 DEF Discover
<1>23. CASE Crash
  BY <1>23 DEF Crash
<1>24. CASE Edit
  BY <1>24 DEF Edit
<1>25. CASE Tick
  BY <1>25 DEF Tick
<1> HIDE DEF IInv, Requested, Certain, Shape, Putting,
        Untouched, Changed, Replacing, live, Paths, TypeOK, Files, Stored, disk, link, ghosts, env, put
<1> QED
  BY <1>1, <1>2, <1>3, <1>4, <1>5, <1>6, <1>7, <1>8, <1>9, <1>10, <1>11,
     <1>12, <1>13, <1>14, <1>15, <1>16, <1>17, <1>18, <1>19, <1>20, <1>21,
     <1>22, <1>23, <1>24, <1>25
  DEF Next, StartSome, Worker, Put

(* Without a fault no step goes to where a fault is needed.                *)
LEMMA PreparedStep ==
  ASSUME IInv, Requested, ~edited => Prepared,
         [Next]_vars
  PROVE  ~edited' => Prepared'
<1> USE ConfigWriteAssumption DEF IInv, Requested, Prepared, Certain, Places,
        Shape, Putting, Untouched, Changed, Replacing, Old, live, Paths, TypeOK
<1>1. CASE UNCHANGED vars
  BY <1>1 DEF vars
<1>2. ASSUME NEW kind \in Kinds, NEW new \in Contents \union {NoFile},
             NEW pick \in Seconds, NEW tested \in BOOLEAN,
             Start(kind, new, pick, tested)
      PROVE  ~edited' => Prepared'
  BY <1>2 DEF Start
<1>3. CASE Connect
  BY <1>3 DEF Connect, Goto, Finish, FirstCall
<1>4. CASE Compare
  BY <1>4 DEF Compare, Goto, Finish, Answered, Fails, Broken, Refused,
              Dropped, Fault, TimedOut, Silent, Dead
<1>5. CASE ReadPick
  <2>1. /\ job'.kind = job.kind /\ job'.base = job.base
        /\ \/ pc' = "done" /\ job' = job
           \/ pc' = "read_original" /\ job'.new = backups[job.pick]
    BY <1>5 DEF ReadPick, Job, Goto, Finish
  <2> QED
    BY <1>5, <2>1 DEF ReadPick, Goto, Finish, Answered, Fails, Broken, Refused,
              Dropped, Fault, TimedOut, Silent, Dead
<1>6. CASE ReadOriginal
  BY <1>6 DEF ReadOriginal, Goto, Finish, Answered, Fails, Broken, Refused,
              Dropped, Fault, TimedOut, Silent, Dead
<1>7. CASE WriteBackup
  BY <1>7 DEF WriteBackup, Goto, Finish, Answered, Fails, Broken, Refused,
              Dropped, Fault, TimedOut, Silent, Dead
<1>8. CASE WriteTemp
  BY <1>8 DEF WriteTemp, Goto, Answered, Fails, Broken, Refused,
              Dropped, Fault, TimedOut, Silent, Dead
<1>9. CASE DropTemp
  BY <1>9 DEF DropTemp, Remove, PutFailed, Finish,
              Answered, Fails, Broken, Refused,
              Dropped, Fault, TimedOut, Silent, Dead
<1>10. CASE RenameOver
  BY <1>10 DEF RenameOver, Rename, Move, Movable, PutSucceeded, Goto, Finish,
              Answered, Fails, Broken, Refused,
              Dropped, Fault, TimedOut, Silent, Dead
<1>11. CASE Displace
  BY <1>11 DEF Displace, Rename, Move, Movable, PutFailed, Goto, Finish,
              Answered, Fails, Broken, Refused,
              Dropped, Fault, TimedOut, Silent, Dead
<1>12. CASE FillGap
  BY <1>12 DEF FillGap, Rename, Move, Movable, Goto, Finish,
              Answered, Fails, Broken, Refused,
              Dropped, Fault, TimedOut, Silent, Dead
<1>13. CASE DropAside
  BY <1>13 DEF DropAside, Remove, PutSucceeded, Goto, Finish,
              Answered, Fails, Broken, Refused,
              Dropped, Fault, TimedOut, Silent, Dead
<1>14. CASE UndoDisplace
  BY <1>14 DEF UndoDisplace, Rename, Move, Movable, PutFailed, Finish,
              Answered, Fails, Broken, Refused,
              Dropped, Fault, TimedOut, Silent, Dead
<1>15. CASE Probe
  BY <1>15 DEF Probe, Goto, Finish, Answered, Fails, Broken, Refused,
              Dropped, Fault, TimedOut, Silent, Dead
<1>16. CASE Create
  BY <1>16 DEF Create, Upload, Tested, Goto, Finish,
              Answered, Fails, Broken, Refused,
              Dropped, Fault, TimedOut, Silent, Dead
<1>17. CASE Unlink
  BY <1>17 DEF Unlink, Remove, Tested, Goto, Finish,
              Answered, Fails, Broken, Refused,
              Dropped, Fault, TimedOut, Silent, Dead
<1>18. CASE RunTest
  BY <1>18 DEF RunTest, Undo, MayPass, MayFail, Goto, Finish,
              Answered, Fails, Broken, Refused,
              Dropped, Fault, TimedOut, Silent, Dead
<1>19. CASE ReadBackup
  BY <1>19 DEF ReadBackup, Goto, Finish,
              Answered, Fails, Broken, Refused,
              Dropped, Fault, TimedOut, Silent, Dead
<1>20. CASE Uncreate
  BY <1>20 DEF Uncreate, Remove, Finish,
              Answered, Fails, Broken, Refused,
              Dropped, Fault, TimedOut, Silent, Dead
<1>21. CASE Poll
  BY <1>21 DEF Poll
<1>22. CASE Discover
  BY <1>22 DEF Discover
<1>23. CASE Crash
  BY <1>23 DEF Crash
<1>24. CASE Edit
  BY <1>24 DEF Edit
<1>25. CASE Tick
  BY <1>25 DEF Tick
<1> HIDE DEF IInv, Requested, Prepared, Certain, Places,
        Shape, Putting, Untouched, Changed, Replacing, Old, live, Paths, TypeOK, disk, link, ghosts, env, put
<1> QED
  BY <1>1, <1>2, <1>3, <1>4, <1>5, <1>6, <1>7, <1>8, <1>9, <1>10, <1>11,
     <1>12, <1>13, <1>14, <1>15, <1>16, <1>17, <1>18, <1>19, <1>20, <1>21,
     <1>22, <1>23, <1>24, <1>25
  DEF Next, StartSome, Worker, Put

(* A failed write on a living connection left the file, a failed restore   *)
(* had a fault.                                                            *)
LEMMA FaultStep ==
  ASSUME IInv, Requested, ~edited => Prepared, RefusalHarmless,
         [Next]_vars
  PROVE  RefusalHarmless'
<1> USE ConfigWriteAssumption DEF IInv, Requested, Prepared, Certain, Places,
        Certain, RefusalHarmless, Shape, Putting, Untouched, Changed, Replacing,
        Old, live, Paths, TypeOK
<1>1. CASE UNCHANGED vars
  BY <1>1 DEF vars
<1>2. ASSUME NEW kind \in Kinds, NEW new \in Contents \union {NoFile},
             NEW pick \in Seconds, NEW tested \in BOOLEAN,
             Start(kind, new, pick, tested)
      PROVE  RefusalHarmless'
  BY <1>2 DEF Start
<1>3. CASE Connect
  BY <1>3 DEF Connect, Goto, Finish, FirstCall
<1>4. CASE Compare
  BY <1>4 DEF Compare, Goto, Finish, Answered, Fails, Broken, Refused,
              Dropped, Fault, TimedOut, Silent, Dead
<1>5. CASE ReadPick
  <2>1. /\ job'.kind = job.kind /\ job'.base = job.base
        /\ \/ pc' = "done" /\ job' = job
           \/ pc' = "read_original" /\ job'.new = backups[job.pick]
    BY <1>5 DEF ReadPick, Job, Goto, Finish
  <2> QED
    BY <1>5, <2>1 DEF ReadPick, Goto, Finish, Answered, Fails, Broken, Refused,
              Dropped, Fault, TimedOut, Silent, Dead
<1>6. CASE ReadOriginal
  BY <1>6 DEF ReadOriginal, Goto, Finish, Answered, Fails, Broken, Refused,
              Dropped, Fault, TimedOut, Silent, Dead
<1>7. CASE WriteBackup
  BY <1>7 DEF WriteBackup, Goto, Finish, Answered, Fails, Broken, Refused,
              Dropped, Fault, TimedOut, Silent, Dead
<1>8. CASE WriteTemp
  BY <1>8 DEF WriteTemp, Goto, Answered, Fails, Broken, Refused,
              Dropped, Fault, TimedOut, Silent, Dead
<1>9. CASE DropTemp
  BY <1>9 DEF DropTemp, Remove, PutFailed, Finish,
              Answered, Fails, Broken, Refused,
              Dropped, Fault, TimedOut, Silent, Dead
<1>10. CASE RenameOver
  BY <1>10 DEF RenameOver, Rename, Move, Movable, PutSucceeded, Goto, Finish,
              Answered, Fails, Broken, Refused,
              Dropped, Fault, TimedOut, Silent, Dead
<1>11. CASE Displace
  BY <1>11 DEF Displace, Rename, Move, Movable, PutFailed, Goto, Finish,
              Answered, Fails, Broken, Refused,
              Dropped, Fault, TimedOut, Silent, Dead
<1>12. CASE FillGap
  BY <1>12 DEF FillGap, Rename, Move, Movable, Goto, Finish,
              Answered, Fails, Broken, Refused,
              Dropped, Fault, TimedOut, Silent, Dead
<1>13. CASE DropAside
  BY <1>13 DEF DropAside, Remove, PutSucceeded, Goto, Finish,
              Answered, Fails, Broken, Refused,
              Dropped, Fault, TimedOut, Silent, Dead
<1>14. CASE UndoDisplace
  BY <1>14 DEF UndoDisplace, Rename, Move, Movable, PutFailed, Finish,
              Answered, Fails, Broken, Refused,
              Dropped, Fault, TimedOut, Silent, Dead
<1>15. CASE Probe
  BY <1>15 DEF Probe, Goto, Finish, Answered, Fails, Broken, Refused,
              Dropped, Fault, TimedOut, Silent, Dead
<1>16. CASE Create
  BY <1>16 DEF Create, Upload, Tested, Goto, Finish,
              Answered, Fails, Broken, Refused,
              Dropped, Fault, TimedOut, Silent, Dead
<1>17. CASE Unlink
  BY <1>17 DEF Unlink, Remove, Tested, Goto, Finish,
              Answered, Fails, Broken, Refused,
              Dropped, Fault, TimedOut, Silent, Dead
<1>18. CASE RunTest
  BY <1>18 DEF RunTest, Undo, MayPass, MayFail, Goto, Finish,
              Answered, Fails, Broken, Refused,
              Dropped, Fault, TimedOut, Silent, Dead
<1>19. CASE ReadBackup
  BY <1>19 DEF ReadBackup, Goto, Finish,
              Answered, Fails, Broken, Refused,
              Dropped, Fault, TimedOut, Silent, Dead
<1>20. CASE Uncreate
  BY <1>20 DEF Uncreate, Remove, Finish,
              Answered, Fails, Broken, Refused,
              Dropped, Fault, TimedOut, Silent, Dead
<1>21. CASE Poll
  BY <1>21 DEF Poll
<1>22. CASE Discover
  BY <1>22 DEF Discover
<1>23. CASE Crash
  BY <1>23 DEF Crash
<1>24. CASE Edit
  BY <1>24 DEF Edit
<1>25. CASE Tick
  BY <1>25 DEF Tick
<1> HIDE DEF IInv, Requested, Prepared, Certain, Places,
        Certain, RefusalHarmless, Shape, Putting, Untouched, Changed, Replacing,
        Old, live, Paths, TypeOK, disk, link, ghosts, env, put
<1> QED
  BY <1>1, <1>2, <1>3, <1>4, <1>5, <1>6, <1>7, <1>8, <1>9, <1>10, <1>11,
     <1>12, <1>13, <1>14, <1>15, <1>16, <1>17, <1>18, <1>19, <1>20, <1>21,
     <1>22, <1>23, <1>24, <1>25
  DEF Next, StartSome, Worker, Put

(* One failing call on a connection that lives costs nothing: what was     *)
(* displaced is put back and what was backed up can be restored            *)
(* (write_remote_file_atomic, restore_backup).                             *)
THEOREM OneRefusalHarmless == Spec => []RefusalHarmless
<1>1. Init => Requested /\ (~edited => Prepared) /\ RefusalHarmless
  BY DEF Init, Requested, Prepared, RefusalHarmless, Putting
<1>2. IInv /\ Requested /\ (~edited => Prepared) /\ RefusalHarmless
         /\ [Next]_vars
         => Requested' /\ (~edited' => Prepared') /\ RefusalHarmless'
  BY RequestedStep, PreparedStep, FaultStep
<1>3. Spec => [](Requested /\ (~edited => Prepared) /\ RefusalHarmless)
  BY <1>1, <1>2, IInvHolds, PTL DEF Spec
<1> QED
  BY <1>3, PTL

-----------------------------------------------------------------------------
(* Nothing is taken from the live path without a backup.                    *)

(* What one call of the worker may do to the live file.                    *)
TakesBackedUp ==
    ~edited /\ pc' # pc /\ live' # live /\ live # NoFile /\ live # job.new
      => \E s \in Seconds : backups[s] = live

(* Only the replacement itself, the removal and the undoing of a creation  *)
(* change the live file, and each knows what is there.                     *)
LEMMA TakesStep ==
  ASSUME IInv,
         [Next]_vars
  PROVE  TakesBackedUp
<1> USE ConfigWriteAssumption DEF IInv, TakesBackedUp, Certain, Places, Shape,
        Putting, Untouched, Changed, Replacing, Old, live, Paths, TypeOK, Record
<1>1. CASE UNCHANGED vars
  BY <1>1 DEF vars
<1>2. ASSUME NEW kind \in Kinds, NEW new \in Contents \union {NoFile},
             NEW pick \in Seconds, NEW tested \in BOOLEAN,
             Start(kind, new, pick, tested)
      PROVE  TakesBackedUp
  BY <1>2 DEF Start
<1>3. CASE Connect
  BY <1>3 DEF Connect, Goto, Finish, FirstCall
<1>4. CASE Compare
  BY <1>4 DEF Compare, Goto, Finish, Answered, Fails, Broken, Refused,
              Dropped, Fault, TimedOut, Silent, Dead
<1>5. CASE ReadPick
  <2>1. /\ job'.kind = job.kind /\ job'.base = job.base
        /\ \/ pc' = "done" /\ job' = job
           \/ pc' = "read_original" /\ job'.new = backups[job.pick]
    BY <1>5 DEF ReadPick, Job, Goto, Finish
  <2> QED
    BY <1>5, <2>1 DEF ReadPick, Goto, Finish, Answered, Fails, Broken, Refused,
              Dropped, Fault, TimedOut, Silent, Dead
<1>6. CASE ReadOriginal
  BY <1>6 DEF ReadOriginal, Goto, Finish, Answered, Fails, Broken, Refused,
              Dropped, Fault, TimedOut, Silent, Dead
<1>7. CASE WriteBackup
  BY <1>7 DEF WriteBackup, Goto, Finish, Answered, Fails, Broken, Refused,
              Dropped, Fault, TimedOut, Silent, Dead
<1>8. CASE WriteTemp
  BY <1>8 DEF WriteTemp, Goto, Answered, Fails, Broken, Refused,
              Dropped, Fault, TimedOut, Silent, Dead
<1>9. CASE DropTemp
  BY <1>9 DEF DropTemp, Remove, PutFailed, Finish,
              Answered, Fails, Broken, Refused,
              Dropped, Fault, TimedOut, Silent, Dead
<1>10. CASE RenameOver
  BY <1>10 DEF RenameOver, Rename, Move, Movable, PutSucceeded, Goto, Finish,
              Answered, Fails, Broken, Refused,
              Dropped, Fault, TimedOut, Silent, Dead
<1>11. CASE Displace
  BY <1>11 DEF Displace, Rename, Move, Movable, PutFailed, Goto, Finish,
              Answered, Fails, Broken, Refused,
              Dropped, Fault, TimedOut, Silent, Dead
<1>12. CASE FillGap
  BY <1>12 DEF FillGap, Rename, Move, Movable, Goto, Finish,
              Answered, Fails, Broken, Refused,
              Dropped, Fault, TimedOut, Silent, Dead
<1>13. CASE DropAside
  BY <1>13 DEF DropAside, Remove, PutSucceeded, Goto, Finish,
              Answered, Fails, Broken, Refused,
              Dropped, Fault, TimedOut, Silent, Dead
<1>14. CASE UndoDisplace
  BY <1>14 DEF UndoDisplace, Rename, Move, Movable, PutFailed, Finish,
              Answered, Fails, Broken, Refused,
              Dropped, Fault, TimedOut, Silent, Dead
<1>15. CASE Probe
  BY <1>15 DEF Probe, Goto, Finish, Answered, Fails, Broken, Refused,
              Dropped, Fault, TimedOut, Silent, Dead
<1>16. CASE Create
  BY <1>16 DEF Create, Upload, Tested, Goto, Finish,
              Answered, Fails, Broken, Refused,
              Dropped, Fault, TimedOut, Silent, Dead
<1>17. CASE Unlink
  BY <1>17 DEF Unlink, Remove, Tested, Goto, Finish,
              Answered, Fails, Broken, Refused,
              Dropped, Fault, TimedOut, Silent, Dead
<1>18. CASE RunTest
  BY <1>18 DEF RunTest, Undo, MayPass, MayFail, Goto, Finish,
              Answered, Fails, Broken, Refused,
              Dropped, Fault, TimedOut, Silent, Dead
<1>19. CASE ReadBackup
  BY <1>19 DEF ReadBackup, Goto, Finish,
              Answered, Fails, Broken, Refused,
              Dropped, Fault, TimedOut, Silent, Dead
<1>20. CASE Uncreate
  BY <1>20 DEF Uncreate, Remove, Finish,
              Answered, Fails, Broken, Refused,
              Dropped, Fault, TimedOut, Silent, Dead
<1>21. CASE Poll
  BY <1>21 DEF Poll
<1>22. CASE Discover
  BY <1>22 DEF Discover
<1>23. CASE Crash
  BY <1>23 DEF Crash
<1>24. CASE Edit
  BY <1>24 DEF Edit
<1>25. CASE Tick
  BY <1>25 DEF Tick
<1> HIDE DEF IInv, TakesBackedUp, Certain, Places, Shape,
        Putting, Untouched, Changed, Replacing, Old, live, Paths, TypeOK, Record, disk, link, ghosts, env, put
<1> QED
  BY <1>1, <1>2, <1>3, <1>4, <1>5, <1>6, <1>7, <1>8, <1>9, <1>10, <1>11,
     <1>12, <1>13, <1>14, <1>15, <1>16, <1>17, <1>18, <1>19, <1>20, <1>21,
     <1>22, <1>23, <1>24, <1>25
  DEF Next, StartSome, Worker, Put

(* A backup of what the worker overwrites exists at that moment.           *)
THEOREM AlwaysBackedUp == Spec => BackedUpBeforeOverwrite
<1>1. IInv /\ [Next]_vars => [TakesBackedUp]_vars
  BY TakesStep
<1> QED
  BY <1>1, IInvHolds, PTL DEF Spec, BackedUpBeforeOverwrite, TakesBackedUp
=============================================================================
