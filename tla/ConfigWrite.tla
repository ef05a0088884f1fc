---------------------------- MODULE ConfigWrite ----------------------------
(***************************************************************************)
(* One worker thread changing one remote Xray configuration file over SSH: *)
(* conflict check, backup, atomic replacement, "xray run -test", and the   *)
(* restore after a failed test.  Every remote call is one step, so that    *)
(* lost connections, refused calls, an administrator editing the file by   *)
(* hand and the death of the application fall between any two of them.     *)
(***************************************************************************)
EXTENDS Naturals, FiniteSets, Functions

CONSTANTS
    Contents,        \* complete contents a configuration file can have
    Valid,           \* those that "xray run -test" accepts
    Torn,            \* a file whose upload stopped half-way
    NoFile,          \* nothing at this path
    Unloaded,        \* the application holds no parsed configuration
    Size,            \* byte length of each content
    Kinds,           \* the kinds of job this instance exercises
    Servers,         \* the kinds of SFTP server this instance has
    MaxSecond,       \* bound: the client clock, in whole seconds
    MaxJobs,         \* bound: jobs started
    MaxFaults,       \* bound: failing calls per job
    MaxEdits         \* bound: edits made behind the application's back

Stored == Contents \union {Torn}
Files  == Stored \union {NoFile}
Seconds == 0 .. MaxSecond

(* What a server does when asked to rename onto a file that exists.        *)
AllServers == {"replaces", "refuses"}

(* "settings": the *_settings_ops and warp_ops writers, which compare the  *)
(* remote file with the loaded copy first; "client": users, inbounds and   *)
(* outbounds, which do not; "rollback": a picked backup put back;          *)
(* "add" / "remove": a member file of a confdir.                           *)
AllKinds  == {"settings", "client", "rollback", "add", "remove"}
Replacing == {"settings", "client", "rollback"}

ASSUME ConfigWriteAssumption ==
    /\ Valid \subseteq Contents
    /\ Torn \notin Contents /\ NoFile \notin Stored /\ Unloaded \notin Files
    /\ Size \in [Stored -> Nat]
    /\ Kinds \subseteq AllKinds
    /\ Servers \subseteq AllServers
    /\ MaxSecond \in Nat /\ MaxJobs \in Nat
    /\ MaxFaults \in Nat /\ MaxEdits \in Nat

VARIABLES
    file,      \* path -> content: "live" is the file Xray reads, "temp" and
               \* "aside" the .feldjaeger.tmp.* / .old.* of the current write
    strays,    \* temp and aside files left behind by earlier writes
    backups,   \* second -> content of <file>.feldjaeger.bak.<second>
    clock,     \* the client's clock
    session,   \* the SSH session of the job
    pc,        \* next remote call of the worker
    stage,     \* "write": putting the new content; "restore": the old one
    origin,    \* bytes create_backup read (afterwards: history)
    payload,   \* bytes write_file_atomic was given
    job,       \* what was asked for
    rec,       \* the ConfigBackup record returned by create_backup
    outcome,   \* what the worker reported
    loaded,    \* the content the application believes is live
    before,    \* history: what was live when the job started
    edited,    \* history: the file was edited by hand during the job
    lost,      \* history: a call of the job timed out on the living session
    server,    \* which kind of SFTP server this is; never changes
    faults, edits, jobs     \* counters that bound the instance

disk   == <<file, strays, backups>>
link   == <<session, faults, lost>>
ghosts == <<before, edited, server>>
env    == <<clock, loaded, edits, jobs>>
vars   == <<disk, link, pc, stage, origin, payload, job, rec, outcome,
            ghosts, env>>

live   == file["live"]

Paths == {"live", "temp", "aside"}
Parsed == Contents \union {NoFile}
Job == [kind : AllKinds, base : Parsed, new : Files, pick : Seconds,
        tested : BOOLEAN]
Record == [sec : Seconds, size : Nat]
NoRecord == [sec |-> 0, size |-> 0]

Steps == {"idle", "connect", "compare", "read_pick", "read_original",
          "write_backup", "write_temp", "drop_temp", "rename", "displace",
          "fill_gap", "drop_aside", "undo_displace", "probe", "create",
          "unlink", "test", "read_backup", "uncreate", "done"}
Outcomes == {"none", "ok", "rejected", "write_failed", "reverted",
             "revert_failed"}

TypeOK ==
    /\ file \in [Paths -> Files]
    /\ strays \in SUBSET Stored
    /\ backups \in [Seconds -> Files]
    /\ clock \in Seconds
    /\ session \in {"up", "down"}
    /\ pc \in Steps
    /\ stage \in {"write", "restore"}
    /\ origin \in Files /\ payload \in Files
    /\ job \in Job /\ (job.kind # "rollback" => job.new \in Parsed)
    /\ rec \in Record
    /\ outcome \in Outcomes
    /\ loaded \in Parsed \union {Unloaded}
    /\ before \in Files
    /\ edited \in BOOLEAN /\ lost \in BOOLEAN
    /\ server \in AllServers
    /\ faults \in Nat /\ edits \in Nat /\ jobs \in Nat

NoJob == [kind |-> "settings", base |-> NoFile, new |-> NoFile, pick |-> 0,
          tested |-> FALSE]

Init ==
    /\ \E c \in Contents \union {NoFile} :
          file = [p \in Paths |-> IF p = "live" THEN c ELSE NoFile]
    /\ strays = {}
    /\ backups = [s \in Seconds |-> NoFile]
    /\ clock = 0
    /\ session = "down"
    /\ pc = "idle" /\ stage = "write"
    /\ origin = NoFile /\ payload = NoFile
    /\ job = NoJob /\ rec = NoRecord /\ outcome = "none"
    /\ loaded = live
    /\ before = live /\ edited = FALSE /\ lost = FALSE
    /\ server \in Servers
    /\ faults = 0 /\ edits = 0 /\ jobs = 0

-----------------------------------------------------------------------------
(* How a remote call ends.  An SFTP request that is not answered within    *)
(* ten seconds fails while the session lives on; a request carried out     *)
(* after that, behind the calls that followed it, is left out.             *)

Fault    == session = "up" /\ faults < MaxFaults /\ faults' = faults + 1
Answered == session = "up" /\ UNCHANGED link
Refused  == Fault /\ UNCHANGED <<session, lost>>
TimedOut == Fault /\ UNCHANGED session /\ lost' = TRUE
Dropped  == Fault /\ session' = "down" /\ UNCHANGED lost
Dead     == session = "down" /\ UNCHANGED link
Silent   == TimedOut \/ Dropped
Broken   == Refused \/ Silent
Fails    == Broken \/ Dead

(* Rename and remove: without an answer the worker cannot tell whether the *)
(* server carried the call out.  An upload can stop anywhere.              *)
Movable(a, b) == file[a] # NoFile /\ (server = "replaces" \/ file[b] = NoFile)
Move(a, b) == file' = [file EXCEPT ![b] = file[a], ![a] = NoFile]

Rename(a, b, ok, err) ==
    \/ Answered /\ Movable(a, b) /\ Move(a, b) /\ ok
    \/ Answered /\ ~Movable(a, b) /\ UNCHANGED file /\ err
    \/ Fails /\ UNCHANGED file /\ err
    \/ Silent /\ Movable(a, b) /\ Move(a, b) /\ err

Remove(a, ok, err) ==
    \/ Answered /\ file[a] # NoFile /\ file' = [file EXCEPT ![a] = NoFile] /\ ok
    \/ Answered /\ file[a] = NoFile /\ UNCHANGED file /\ err
    \/ Fails /\ UNCHANGED file /\ err
    \/ Silent /\ file' = [file EXCEPT ![a] = NoFile] /\ err

Upload(a, c, ok, err) ==
    \/ Answered /\ file' = [file EXCEPT ![a] = c] /\ ok
    \/ Fails /\ UNCHANGED file /\ err
    \/ Broken /\ file' = [file EXCEPT ![a] = Torn] /\ err
    \/ Broken /\ file' = [file EXCEPT ![a] = c] /\ err

Goto(step) == pc' = step /\ UNCHANGED outcome
Finish(result) == pc' = "done" /\ outcome' = result

(* write_file_atomic returned: to write_config_safe while writing, to      *)
(* restore_backup while restoring.                                         *)
PutSucceeded ==
    \/ stage = "write" /\ job.tested /\ Goto("test")
    \/ stage = "write" /\ ~job.tested /\ Finish("ok")
    \/ stage = "restore" /\ Finish("reverted")

PutFailed ==
    \/ stage = "write" /\ Finish("write_failed")
    \/ stage = "restore" /\ Finish("revert_failed")

-----------------------------------------------------------------------------
(* Starting a job.                                                         *)

FirstCall(kind) ==
    IF kind \in {"settings", "rollback"} THEN "compare"
    ELSE IF kind = "add" THEN "probe" ELSE "read_original"

(* The loaded copy is cloned and changed in memory before the worker       *)
(* connects; a rollback names a backup that the listing showed.            *)
Start(kind, new, pick, tested) ==
    /\ pc = "idle" /\ jobs < MaxJobs
    /\ kind # "rollback" => pick = 0
    /\ IF kind = "add" THEN loaded = NoFile ELSE loaded \in Contents
    /\ IF kind \in {"remove", "rollback"} THEN new = NoFile
                                          ELSE new \in Contents
    /\ kind = "rollback" => backups[pick] # NoFile
    /\ job' = [kind |-> kind, base |-> loaded, new |-> new, pick |-> pick,
               tested |-> tested]
    /\ pc' = "connect" /\ stage' = "write" /\ outcome' = "none"
    /\ rec' = NoRecord
    /\ before' = live /\ edited' = FALSE
    /\ faults' = 0 /\ lost' = FALSE /\ session' = "down"
    /\ jobs' = jobs + 1
    /\ UNCHANGED <<disk, origin, payload, server, clock, loaded, edits>>

Connect ==
    /\ pc = "connect"
    /\ \/ /\ session' = "up" /\ UNCHANGED faults
          /\ Goto(FirstCall(job.kind))
       \/ /\ faults < MaxFaults /\ faults' = faults + 1 /\ UNCHANGED session
          /\ Finish("rejected")
    /\ UNCHANGED <<disk, lost, stage, origin, payload, job, rec, ghosts, env>>

MutCompareNothing ==
    /\ pc = "compare"
    /\ \/ Answered /\ job.kind = "settings" /\ Goto("read_original")
       \/ Answered /\ job.kind = "rollback" /\ Goto("read_pick")
       \/ Fails /\ Finish("rejected")
    /\ UNCHANGED <<disk, stage, origin, payload, job, rec, ghosts, env>>

(* write_with_conflict_check: a missing file lets a settings writer go on  *)
(* (and fail in create_backup), and stops a rollback.                      *)
Compare ==
    /\ pc = "compare"
    /\ \/ /\ Answered
          /\ \/ job.kind = "settings" /\ live \in {NoFile, job.base}
                /\ Goto("read_original")
             \/ job.kind = "rollback" /\ live = job.base
                /\ Goto("read_pick")
             \/ job.kind = "settings" /\ live \notin {NoFile, job.base}
                /\ Finish("rejected")
             \/ job.kind = "rollback" /\ live # job.base
                /\ Finish("rejected")
       \/ Fails /\ Finish("rejected")
    /\ UNCHANGED <<disk, stage, origin, payload, job, rec, ghosts, env>>

ReadPick ==
    /\ pc = "read_pick"
    /\ \/ /\ Answered
          /\ job' = [job EXCEPT !.new = backups[job.pick]]
          /\ Goto("read_original")
       \/ Fails /\ Finish("rejected") /\ UNCHANGED job
    /\ UNCHANGED <<disk, stage, origin, payload, rec, ghosts, env>>

-----------------------------------------------------------------------------
(* BackupManager::create_backup: read, then write under the second the     *)
(* client's clock shows.  A failed upload may leave a torn backup.         *)

ReadOriginal ==
    /\ pc = "read_original"
    /\ \/ Answered /\ live # NoFile /\ origin' = live /\ Goto("write_backup")
       \/ Answered /\ live = NoFile /\ Finish("rejected") /\ UNCHANGED origin
       \/ Fails /\ Finish("rejected") /\ UNCHANGED origin
    /\ UNCHANGED <<disk, stage, payload, job, rec, ghosts, env>>

MutBackupIsBestEffort ==
    /\ pc = "write_backup"
    /\ \/ Answered /\ backups' = [backups EXCEPT ![clock] = origin]
       \/ Fails /\ UNCHANGED backups
    /\ rec' = [sec |-> clock, size |-> Size[origin]]
    /\ payload' = job.new
    /\ Goto(IF job.kind = "remove" THEN "unlink" ELSE "write_temp")
    /\ UNCHANGED <<file, strays, stage, origin, job, ghosts, env>>

WriteBackup ==
    /\ pc = "write_backup"
    /\ \/ /\ Answered
          /\ backups' = [backups EXCEPT ![clock] = origin]
          /\ rec' = [sec |-> clock, size |-> Size[origin]]
          /\ payload' = job.new
          /\ Goto(IF job.kind = "remove" THEN "unlink" ELSE "write_temp")
       \/ Fails /\ UNCHANGED <<backups, rec, payload>> /\ Finish("rejected")
       \/ /\ Broken /\ backups' = [backups EXCEPT ![clock] = Torn]
          /\ UNCHANGED <<rec, payload>> /\ Finish("rejected")
    /\ UNCHANGED <<file, strays, stage, origin, job, ghosts, env>>

-----------------------------------------------------------------------------
(* write_remote_file_atomic, the same for the new content and for the old  *)
(* one put back.  Fresh names each time: leftovers of an earlier write stay.*)

put == <<backups, stage, origin, payload, job, rec, ghosts, env>>

MutWriteInPlace ==
    /\ pc = "write_temp"
    /\ Upload("live", payload, PutSucceeded, PutFailed)
    /\ UNCHANGED <<strays, put>>

WriteTemp ==
    /\ pc = "write_temp"
    /\ strays' = strays \union ({file["temp"], file["aside"]} \ {NoFile})
    /\ \E c \in {NoFile, Torn, payload} :
          /\ file' = [file EXCEPT !["aside"] = NoFile, !["temp"] = c]
          /\ \/ Answered /\ c = payload /\ Goto("rename")
             \/ Broken /\ Goto("drop_temp")
             \/ Dead /\ c = NoFile /\ Goto("drop_temp")
    /\ UNCHANGED put

DropTemp ==
    /\ pc = "drop_temp"
    /\ Remove("temp", PutFailed, PutFailed)
    /\ UNCHANGED <<strays, put>>

(* Most servers refuse to rename onto a file that exists.                  *)
RenameOver ==
    /\ pc = "rename"
    /\ Rename("temp", "live", PutSucceeded, Goto("displace"))
    /\ UNCHANGED <<strays, put>>

Displace ==
    /\ pc = "displace"
    /\ Rename("live", "aside", Goto("fill_gap"), PutFailed)
    /\ UNCHANGED <<strays, put>>

MutForgetAside ==
    /\ pc = "fill_gap"
    /\ Rename("temp", "live", Goto("drop_aside"), PutFailed)
    /\ UNCHANGED <<strays, put>>

FillGap ==
    /\ pc = "fill_gap"
    /\ Rename("temp", "live", Goto("drop_aside"), Goto("undo_displace"))
    /\ UNCHANGED <<strays, put>>

DropAside ==
    /\ pc = "drop_aside"
    /\ Remove("aside", PutSucceeded, PutSucceeded)
    /\ UNCHANGED <<strays, put>>

UndoDisplace ==
    /\ pc = "undo_displace"
    /\ Rename("aside", "live", PutFailed, PutFailed)
    /\ UNCHANGED <<strays, put>>

-----------------------------------------------------------------------------
(* Confdir members: create_config_file and remove_config_file.             *)

Probe ==
    /\ pc = "probe"
    /\ \/ Answered /\ live = NoFile /\ Goto("create")
       \/ Answered /\ live # NoFile /\ Finish("rejected")
       \/ Fails /\ Finish("rejected")
    /\ UNCHANGED <<disk, stage, origin, payload, job, rec, ghosts, env>>

Tested(step) == IF job.tested THEN Goto(step) ELSE Finish("ok")

Create ==
    /\ pc = "create"
    /\ Upload("live", job.new, Tested("test"), Finish("write_failed"))
    /\ UNCHANGED <<strays, put>>

Unlink ==
    /\ pc = "unlink"
    /\ Remove("live", Tested("test"), Finish("write_failed"))
    /\ UNCHANGED <<strays, put>>

-----------------------------------------------------------------------------
(* xray run -test over what is now on disk, and what a failure undoes.     *)

(* Without the removed member, the other members decide the verdict.       *)
MayPass == job.kind = "remove" \/ live \in Valid
MayFail == job.kind = "remove" \/ live \notin Valid
Undo == IF job.kind = "add" THEN "uncreate" ELSE "read_backup"

MutLostTestPasses ==
    /\ pc = "test"
    /\ \/ Answered /\ MayPass /\ Finish("ok")
       \/ Answered /\ MayFail /\ Goto(Undo)
       \/ Fails /\ Finish("ok")
    /\ UNCHANGED <<disk, stage, origin, payload, job, rec, ghosts, env>>

MutFailedTestNotRestored ==
    /\ pc = "test"
    /\ \/ Answered /\ MayPass /\ Finish("ok")
       \/ Answered /\ MayFail /\ Goto(Undo)
       \/ Fails /\ Finish("reverted")
    /\ UNCHANGED <<disk, stage, origin, payload, job, rec, ghosts, env>>

RunTest ==
    /\ pc = "test"
    /\ \/ Answered /\ MayPass /\ Finish("ok")
       \/ Answered /\ MayFail /\ Goto(Undo)
       \/ Fails /\ Goto(Undo)
    /\ UNCHANGED <<disk, stage, origin, payload, job, rec, ghosts, env>>

(* restore_backup: a backup of another length is not put back.             *)
ReadBackup ==
    /\ pc = "read_backup"
    /\ LET kept == backups[rec.sec] IN
       \/ /\ Answered /\ kept # NoFile /\ Size[kept] = rec.size
          /\ payload' = kept /\ stage' = "restore" /\ Goto("write_temp")
       \/ /\ Answered /\ (kept = NoFile \/ Size[kept] # rec.size)
          /\ UNCHANGED <<payload, stage>> /\ Finish("revert_failed")
       \/ Fails /\ UNCHANGED <<payload, stage>> /\ Finish("revert_failed")
    /\ UNCHANGED <<disk, origin, job, rec, ghosts, env>>

Uncreate ==
    /\ pc = "uncreate"
    /\ Remove("live", Finish("reverted"), Finish("revert_failed"))
    /\ UNCHANGED <<strays, put>>

-----------------------------------------------------------------------------
(* The user interface takes the outcome; a rollback reloads by discovery.  *)
Poll ==
    /\ pc = "done" /\ pc' = "idle"
    /\ loaded' = IF outcome = "ok" /\ job.kind # "rollback"
                 THEN job.new ELSE loaded
    /\ UNCHANGED <<disk, link, stage, origin, payload, job, rec, outcome,
                   ghosts, clock, edits, jobs>>

(* Discovery reads the file again; one it cannot parse loads nothing.      *)
Discover ==
    /\ pc = "idle"
    /\ loaded' = IF live = Torn THEN Unloaded ELSE live
    /\ UNCHANGED <<disk, link, pc, stage, origin, payload, job, rec, outcome,
                   ghosts, clock, edits, jobs>>

(* The application dies and is started again: discovery is what it does    *)
(* next, so it holds no configuration.                                     *)
Crash ==
    /\ pc # "idle" /\ pc' = "idle" /\ outcome' = "none"
    /\ loaded' = Unloaded /\ session' = "down"
    /\ UNCHANGED <<disk, faults, lost, stage, origin, payload, job, rec,
                   ghosts, clock, edits, jobs>>

(* An administrator replaces the file over another SSH login.              *)
Edit ==
    /\ edits < MaxEdits /\ edits' = edits + 1
    /\ \E c \in Contents \ {live} : file' = [file EXCEPT !["live"] = c]
    /\ edited' = TRUE
    /\ UNCHANGED <<strays, backups, link, pc, stage, origin, payload, job,
                   rec, outcome, before, server, clock, loaded, jobs>>

Tick ==
    /\ clock < MaxSecond /\ clock' = clock + 1
    /\ UNCHANGED <<disk, link, pc, stage, origin, payload, job, rec, outcome,
                   ghosts, loaded, edits, jobs>>

-----------------------------------------------------------------------------
StartSome ==
    \E kind \in Kinds, new \in Contents \union {NoFile}, pick \in Seconds,
       tested \in BOOLEAN : Start(kind, new, pick, tested)

Put == WriteTemp \/ DropTemp \/ RenameOver \/ Displace \/ FillGap
       \/ DropAside \/ UndoDisplace

Worker == Connect \/ Compare \/ ReadPick \/ ReadOriginal \/ WriteBackup
          \/ Put \/ Probe \/ Create \/ Unlink \/ RunTest \/ ReadBackup
          \/ Uncreate

Next == StartSome \/ Worker \/ Poll \/ Discover \/ Crash \/ Edit \/ Tick

Spec == Init /\ [][Next]_vars
-----------------------------------------------------------------------------
(* Properties.                                                             *)

(* Whatever fails and wherever the application dies, a job that replaces   *)
(* the file leaves at its path the content it found or the one it was      *)
(* asked to put there, never a torn upload of its own; when a displaced    *)
(* file left the path empty, the content it found is in the backup of this *)
(* job (write_remote_file_atomic after create_backup).                     *)
CrashAtomic ==
    job.kind \in Replacing /\ ~edited =>
        \/ live \in {before, job.new}
        \/ live = NoFile /\ backups[rec.sec] = before

(* What the worker reports is what is on disk: "ok" means the new content, *)
(* accepted by xray -test when there was a binary to ask; "rejected" and   *)
(* "reverted" mean the file is what it was before                          *)
(* (write_config_validated and its two confdir variants).                  *)
OutcomeTruthful ==
    pc = "done" /\ ~edited =>
        /\ outcome = "ok" =>
              /\ live = job.new
              /\ job.tested /\ job.kind # "remove" => live \in Valid
        /\ outcome \in {"rejected", "reverted"} => live = before

(* One refusal costs nothing: when no answer was lost and the session held,*)
(* a replacement or a removal that reports a failed write after at most    *)
(* one refused call has left the file as it was, moved back if it had been *)
(* moved aside (write_remote_file_atomic); and a restore fails only when   *)
(* some call did.                                                          *)
RefusalHarmless ==
    pc = "done" /\ ~edited =>
        /\ outcome = "write_failed" /\ job.kind # "add"
           /\ session = "up" /\ ~lost /\ faults <= 1 => live = before
        /\ outcome = "revert_failed" => faults > 0

(* Nothing the worker takes away from the live path is without a backup    *)
(* at that moment, a file it created itself and the content it is just     *)
(* undoing apart, as long as nobody else edits the file between the backup *)
(* and the write (docs/rules.md: always back up before overwriting).       *)
BackedUpBeforeOverwrite ==
    [][ ~edited /\ pc' # pc /\ live' # live /\ live # NoFile
        /\ live # job.new
           => \E s \in Seconds : backups[s] = live ]_vars

(* A settings writer or a rollback whose loaded copy was stale when it     *)
(* started has written nothing (write_with_conflict_check).                *)
StaleCopyNeverWritten ==
    pc = "done" /\ job.kind \in {"settings", "rollback"} /\ ~edited
    /\ outcome # "rejected" => before = job.base

-----------------------------------------------------------------------------
(* Seen from the rest of the application, a job is a change of a           *)
(* ConfigStore: a file that was there is replaced or removed at once or not*)
(* at all, and the report is honest.                                       *)
Report == IF outcome \in {"rejected", "reverted"} THEN "unchanged"
          ELSE IF outcome \in {"write_failed", "revert_failed"} THEN "unknown"
          ELSE outcome

Store == INSTANCE ConfigStore WITH
    Values <- Files, Gone <- NoFile,
    cfg <- live, was <- before, want <- job.new,
    busy <- pc \notin {"idle", "done"},
    disturbed <- edited, result <- Report

(* Every behaviour of the worker is a behaviour of the store.              *)
ImplementsStore == Store!Spec
=============================================================================
